----------------------------- MODULE SchemaProofs -----------------------------
(***************************************************************************)
(* Proofs about TableSchema, for every set of names, keys, rows and        *)
(* columns and any number of failed calls:                                 *)
(*   SchemaTypeCorrect    every variable has its type;                     *)
(*   TableOpensCorrect    a table of the dictionary can be opened, unless  *)
(*                        a statement failed half-way at its table, one of *)
(*                        its columns or its wrapped table;                *)
(*   NothingLeftCorrect   DROP TABLE and a failed CREATE TABLE leave no    *)
(*                        object behind;                                   *)
(*   IndexAnswersCorrect  an index that must answer answers as the rows    *)
(*                        do, in both modes;                               *)
(*   UniqueCheckedCorrect no two rows of a storage mode table have the     *)
(*                        same value of a UNIQUE key.                      *)
(*                                                                         *)
(* First, what each operator on the objects of Groonga leaves, name by     *)
(* name and key by key; then the types and TableOpens, which are one       *)
(* inductive invariant, statement by statement; then CleanOK, the same for *)
(* NothingLeft.                                                            *)
(*                                                                         *)
(* The last two rest on IndexInv, which says which postings a key that     *)
(* must answer has.  It is proved statement by statement: the rows of      *)
(* storage mode, its DDL, ALTER TABLE with its check of a new UNIQUE key,  *)
(* then the same for wrapper mode, where the records come in between.      *)
(***************************************************************************)
EXTENDS TableSchema, FiniteSetTheorems, TLAPS

-----------------------------------------------------------------------------
(* The operators on Groonga's objects.                                     *)

Objs == [Names -> [table : BOOLEAN, cols : SUBSET Columns, index : [Keys -> IndexStates]]]

\* The index tables K of n get the state s and nothing else changes.
LEMMA SetIndexFacts ==
    ASSUME NEW g \in Objs, NEW n \in Names, NEW K, NEW s \in IndexStates
    PROVE  /\ SetIndex(g, n, K, s) \in Objs
           /\ \A m \in Names :
                /\ SetIndex(g, n, K, s)[m].table <=> g[m].table
                /\ SetIndex(g, n, K, s)[m].cols = g[m].cols
                /\ \A k \in Keys : SetIndex(g, n, K, s)[m].index[k] =
                        IF m = n /\ k \in K THEN s ELSE g[m].index[k]
  BY DEF SetIndex, Objs

\* The postings of the indexes K of n go and no others.
LEMMA EmptiedFacts ==
    ASSUME NEW P, DOMAIN P = Names, \A m \in Names : DOMAIN P[m] = Keys,
           NEW n \in Names, NEW K
    PROVE  /\ DOMAIN Emptied(P, n, K) = Names
           /\ \A m \in Names : DOMAIN Emptied(P, n, K)[m] = Keys
           /\ \A m \in Names, k \in Keys : Emptied(P, n, K)[m][k] =
                  IF m = n /\ k \in K THEN {} ELSE P[m][k]
  BY DEF Emptied

\* grn_obj_remove of the table n.
LEMMA RemoveTableFacts ==
    ASSUME NEW g \in Objs, NEW n \in Names, NEW K
    PROVE  /\ RemoveTable(g, n, K) \in Objs
           /\ \A m \in Names :
                /\ RemoveTable(g, n, K)[m].table <=> ~(m = n) /\ g[m].table
                /\ RemoveTable(g, n, K)[m].cols = IF m = n THEN {} ELSE g[m].cols
                /\ \A k \in Keys : RemoveTable(g, n, K)[m].index[k] =
                        IF (m = n \/ k \in K) /\ g[m].index[k] = "full" THEN "table"
                        ELSE g[m].index[k]
  BY DEF RemoveTable, Objs, IndexStates

\* The index tables of K that are there go from one name to the other.
LEMMA MoveIndexFacts ==
    ASSUME NEW g \in Objs, NEW from \in Names, NEW to \in Names, from # to, NEW K
    PROVE  /\ MoveIndex(g, from, to, K) \in Objs
           /\ \A m \in Names :
                /\ MoveIndex(g, from, to, K)[m].table <=> g[m].table
                /\ MoveIndex(g, from, to, K)[m].cols = g[m].cols
                /\ \A k \in Keys : MoveIndex(g, from, to, K)[m].index[k] =
                        IF m = from /\ k \in K THEN "none"
                        ELSE IF m = to /\ k \in K /\ g[from].index[k] # "none"
                        THEN g[from].index[k] ELSE g[m].index[k]
<1> DEFINE moved == {k \in K : g[from].index[k] # "none"}
           out  == [g[from] EXCEPT !.index = [k \in Keys |-> IF k \in moved THEN "none" ELSE @[k]]]
           in   == [g[to] EXCEPT !.index = [k \in Keys |-> IF k \in moved
                                              THEN g[from].index[k] ELSE @[k]]]
<1>1. MoveIndex(g, from, to, K) = [g EXCEPT ![from] = out, ![to] = in]
  BY DEF MoveIndex, Objs
<1>2. /\ out \in [table : BOOLEAN, cols : SUBSET Columns, index : [Keys -> IndexStates]]
      /\ out.table = g[from].table /\ out.cols = g[from].cols
      /\ \A k \in Keys : out.index[k] = IF k \in moved THEN "none" ELSE g[from].index[k]
  BY DEF Objs, IndexStates
<1>3. /\ in \in [table : BOOLEAN, cols : SUBSET Columns, index : [Keys -> IndexStates]]
      /\ in.table = g[to].table /\ in.cols = g[to].cols
      /\ \A k \in Keys : in.index[k] = IF k \in moved THEN g[from].index[k] ELSE g[to].index[k]
  BY SMTT(30) DEF Objs
<1> HIDE DEF out, in
<1> QED
  BY <1>1, <1>2, <1>3 DEF Objs, IndexStates

\* So do their postings.
LEMMA MovePostFacts ==
    ASSUME NEW g \in Objs, NEW P, DOMAIN P = Names, \A m \in Names : DOMAIN P[m] = Keys,
           NEW from \in Names, NEW to \in Names, from # to, NEW K
    PROVE  /\ DOMAIN MovePost(g, P, from, to, K) = Names
           /\ \A m \in Names : DOMAIN MovePost(g, P, from, to, K)[m] = Keys
           /\ \A m \in Names, k \in Keys : MovePost(g, P, from, to, K)[m][k] =
                 IF k \in K /\ g[from].index[k] # "none"
                 THEN IF m = from THEN {} ELSE IF m = to THEN P[from][k] ELSE P[m][k]
                 ELSE P[m][k]
  BY DEF MovePost

\* generic_delete_table: nothing without a table, every index of n with it.
LEMMA DeleteTableFacts ==
    ASSUME NEW g \in Objs, NEW n \in Names, NEW K
    PROVE  /\ generic_delete_table(g, n, K) \in Objs
           /\ ~g[n].table => generic_delete_table(g, n, K) = g
           /\ g[n].table => \A m \in Names :
                /\ generic_delete_table(g, n, K)[m].table <=> ~(m = n) /\ g[m].table
                /\ generic_delete_table(g, n, K)[m].cols = IF m = n THEN {} ELSE g[m].cols
                /\ \A k \in Keys : generic_delete_table(g, n, K)[m].index[k] =
                        IF m = n /\ g[m].index[k] = "full" THEN "none"
                        ELSE IF k \in K /\ g[m].index[k] = "full" THEN "table"
                        ELSE g[m].index[k]
<1>1. CASE ~g[n].table
  BY <1>1 DEF generic_delete_table
<1>2. CASE g[n].table
  <2> DEFINE F == {k \in Keys : g[n].index[k] = "full"}
             d == SetIndex(g, n, F, "none")
  <2>1. generic_delete_table(g, n, K) = RemoveTable(d, n, K)
    BY <1>2 DEF generic_delete_table, drop_indexes
  <2>2. /\ d \in Objs
        /\ \A m \in Names :
             /\ d[m].table <=> g[m].table
             /\ d[m].cols = g[m].cols
             /\ \A k \in Keys : d[m].index[k] = IF m = n /\ k \in F THEN "none" ELSE g[m].index[k]
    BY SetIndexFacts DEF IndexStates
  <2> HIDE DEF d
  <2>3. /\ RemoveTable(d, n, K) \in Objs
        /\ \A m \in Names :
                /\ RemoveTable(d, n, K)[m].table <=> ~(m = n) /\ d[m].table
                /\ RemoveTable(d, n, K)[m].cols = IF m = n THEN {} ELSE d[m].cols
                /\ \A k \in Keys : RemoveTable(d, n, K)[m].index[k] =
                        IF (m = n \/ k \in K) /\ d[m].index[k] = "full" THEN "table"
                        ELSE d[m].index[k]
    BY <2>2, RemoveTableFacts
  <2> QED
    BY <1>2, <2>1, <2>2, <2>3
<1> QED
  BY <1>1, <1>2

Lex == [table : BOOLEAN, cols : SUBSET Lexicon]

\* wrapper_create_index_fulltext changes index tables that were not there.
LEMMA FulltextFacts ==
    ASSUME NEW g \in Objs, NEW n \in Names, NEW K, NEW f
    PROVE  LET w == wrapper_create_index_fulltext(g, n, K, f) IN
           /\ w \in Objs
           /\ \A m \in Names :
                /\ w[m].table <=> g[m].table
                /\ w[m].cols = g[m].cols
                /\ \A k \in Keys : w[m].index[k] =
                     IF m = n /\ k \in K /\ g[m].index[k] = "none" /\ f # <<"index_table", k>>
                     THEN IF f = <<"index_column", k>> THEN "table" ELSE "full"
                     ELSE g[m].index[k]
  BY DEF wrapper_create_index_fulltext, Objs, IndexStates

\* The keys storage_create_index has made, and the first it has not.
Bad(g, l, n, K, f) == CreateIndexFails(g, l, n, K, f)
Made(g, l, n, K, f) == MadeIndexes(K, Bad(g, l, n, K, f))

\* What storage_create_index leaves: o, when the objects were g and l.
IndexCreated(g, l, n, K, f, o, made) ==
    /\ o.grn \in Objs /\ o.lexicon \in Lex /\ o.error \in BOOLEAN
    /\ o = Objects(o.grn, o.lexicon, o.error)
    /\ o.error <=> Bad(g, l, n, K, f) # {}
    /\ ~o.error => made = K \ Foreign
    /\ ~o.grn[n].table => o.error /\ o.lexicon.cols = {}
    /\ o.grn[n].table =>
         (o.lexicon = [l EXCEPT !.cols = @ \cup (made \cap Lexicon)])
         \/ (o.error /\ o.lexicon = [table |-> FALSE, cols |-> {}])
    /\ \A m \in Names :
         /\ o.grn[m].table <=> (m # n \/ o.grn[n].table) /\ g[m].table
         /\ o.grn[m].cols = IF m = n /\ ~o.grn[n].table THEN {} ELSE g[m].cols
         /\ \A k \in Keys : o.grn[m].index[k] =
              IF /\ ~o.grn[n].table /\ (m = n \/ k \in K)
                 /\ (m = n /\ k \in made \ Lexicon) \/ g[m].index[k] = "full"
              THEN "table"
              ELSE IF m = n /\ k \in made \ Lexicon THEN "full" ELSE g[m].index[k]

\* storage_create_index, in each of its four ends.
LEMMA StorageIndexFacts ==
    ASSUME NEW g \in Objs, NEW l \in Lex, NEW n \in Names, g[n].table = TRUE,
           NEW K, NEW f
    PROVE  IndexCreated(g, l, n, K, f, storage_create_index(g, l, n, K, f),
                        Made(g, l, n, K, f))
<1> DEFINE o    == storage_create_index(g, l, n, K, f)
           made == Made(g, l, n, K, f)
<1> SUFFICES IndexCreated(g, l, n, K, f, o, made)
  OBVIOUS
<1> HIDE DEF o, made
<1> DEFINE bad  == Bad(g, l, n, K, f)
           with == SetIndex(g, n, made \ Lexicon, "full")
           lex  == [l EXCEPT !.cols = @ \cup (made \cap Lexicon)]
           removed == RemoveTable(with, n, K)
<1>1. /\ with \in Objs
      /\ \A m \in Names :
           /\ with[m].table <=> g[m].table
           /\ with[m].cols = g[m].cols
           /\ \A k \in Keys : with[m].index[k] =
                IF m = n /\ k \in made \ Lexicon THEN "full" ELSE g[m].index[k]
  BY SetIndexFacts DEF IndexStates
<1>2. /\ lex \in Lex /\ lex.table = l.table
      /\ [lex EXCEPT !.cols = {}] \in Lex
      /\ [lex EXCEPT !.cols = {}].cols = {}
      /\ [table |-> FALSE, cols |-> {}] \in Lex
  BY DEF Lex
<1>3. \/ bad = {} /\ o = Objects(with, lex, FALSE)
      \/ bad # {} /\ o = Objects(with, [table |-> FALSE, cols |-> {}], TRUE)
      \/ bad # {} /\ o = Objects(with, lex, TRUE)
      \/ bad # {} /\ o = Objects(removed, [lex EXCEPT !.cols = {}], TRUE)
  BY DEF o, made, storage_create_index, Bad, Made
<1>4. bad = {} => made = K \ Foreign
  BY DEF made, Made, MadeIndexes, Before, Bad
<1> HIDE DEF with
<1>5. /\ removed \in Objs
      /\ \A m \in Names :
                /\ removed[m].table <=> ~(m = n) /\ with[m].table
                /\ removed[m].cols = IF m = n THEN {} ELSE with[m].cols
                /\ \A k \in Keys : removed[m].index[k] =
                        IF (m = n \/ k \in K) /\ with[m].index[k] = "full" THEN "table"
                        ELSE with[m].index[k]
  BY <1>1, RemoveTableFacts
<1> HIDE DEF bad, removed, lex
<1>6. with[n].table = TRUE /\ removed[n].table = FALSE
  BY <1>1, <1>5
<1>7. /\ o.lexicon \in Lex /\ o.error \in BOOLEAN
      /\ o = Objects(o.grn, o.lexicon, o.error)
      /\ o.error <=> bad # {}
      /\ \/ /\ o.grn = with
            /\ o.lexicon = lex \/ (o.error /\ o.lexicon = [table |-> FALSE, cols |-> {}])
         \/ o.grn = removed /\ o.error /\ o.lexicon.cols = {}
  <2> DEFINE none == [table |-> FALSE, cols |-> {}]
             less == [lex EXCEPT !.cols = {}]
  <2>1. lex \in Lex /\ none \in Lex /\ less \in Lex /\ less.cols = {}
    BY <1>2
  <2>2. ASSUME NEW G, NEW L, NEW e, o = Objects(G, L, e)
        PROVE  /\ o.grn = G /\ o.lexicon = L /\ o.error = e
               /\ o = Objects(o.grn, o.lexicon, o.error)
    BY <2>2 DEF Objects
  <2> HIDE DEF none, less
  <2>3. CASE bad = {} /\ o = Objects(with, lex, FALSE)
    BY <2>1, <2>2, <2>3
  <2>4. CASE bad # {} /\ o = Objects(with, none, TRUE)
    BY <2>1, <2>2, <2>4 DEF none
  <2>5. CASE bad # {} /\ o = Objects(with, lex, TRUE)
    BY <2>1, <2>2, <2>5
  <2>6. CASE bad # {} /\ o = Objects(removed, less, TRUE)
    BY <2>1, <2>2, <2>6
  <2> QED
    BY <1>3, <2>3, <2>4, <2>5, <2>6 DEF none, less
<1>8. ~o.error => made = K \ Foreign
  BY <1>4, <1>7
<1>9. CASE /\ o.grn = with
           /\ o.lexicon = lex \/ (o.error /\ o.lexicon = [table |-> FALSE, cols |-> {}])
  <2>1. o.grn[n].table = TRUE /\ o.grn \in Objs
    BY <1>1, <1>6, <1>9
  <2>2. \A m \in Names :
           /\ o.grn[m].table <=> (m # n \/ o.grn[n].table) /\ g[m].table
           /\ o.grn[m].cols = IF m = n /\ ~o.grn[n].table THEN {} ELSE g[m].cols
    BY <1>1, <1>9, <2>1
  <2>3. \A m \in Names, k \in Keys : o.grn[m].index[k] =
           IF /\ ~o.grn[n].table /\ (m = n \/ k \in K)
              /\ (m = n /\ k \in made \ Lexicon) \/ g[m].index[k] = "full"
           THEN "table"
           ELSE IF m = n /\ k \in made \ Lexicon THEN "full" ELSE g[m].index[k]
    BY <1>1, <1>9, <2>1
  <2> QED
    BY <1>7, <1>8, <1>9, <2>1, <2>2, <2>3 DEF IndexCreated, bad, lex
<1>10. CASE o.grn = removed /\ o.error /\ o.lexicon.cols = {}
  <2>1. o.grn[n].table = FALSE /\ o.grn \in Objs
    BY <1>5, <1>6, <1>10
  <2>2. \A m \in Names :
           /\ o.grn[m].table <=> (m # n \/ o.grn[n].table) /\ g[m].table
           /\ o.grn[m].cols = IF m = n /\ ~o.grn[n].table THEN {} ELSE g[m].cols
    BY <1>1, <1>5, <1>10, <2>1
  <2>3. \A m \in Names, k \in Keys : o.grn[m].index[k] =
           IF /\ ~o.grn[n].table /\ (m = n \/ k \in K)
              /\ (m = n /\ k \in made \ Lexicon) \/ g[m].index[k] = "full"
           THEN "table"
           ELSE IF m = n /\ k \in made \ Lexicon THEN "full" ELSE g[m].index[k]
    BY <1>1, <1>5, <1>10, <2>1
  <2> QED
    BY <1>7, <1>8, <1>10, <2>1, <2>2, <2>3 DEF IndexCreated, bad
<1> QED
  BY <1>7, <1>9, <1>10

\* What storage_create_indexes leaves: c.
IndexesCreated(n, c, o, made) ==
    /\ c.grn \in Objs /\ c.lexicon = o.lexicon /\ c.error = o.error
    /\ ~c.error => c.grn = o.grn
    /\ \A m \in Names :
         /\ c.grn[m].table <=> o.grn[m].table
         /\ c.grn[m].cols = o.grn[m].cols
         /\ \A k \in Keys : c.grn[m].index[k] =
              IF c.error /\ m = n /\ k \in made \ Lexicon THEN "none"
              ELSE o.grn[m].index[k]

\* storage_create_indexes takes back the index tables after an error.
LEMMA StorageIndexesFacts ==
    ASSUME NEW g \in Objs, NEW l \in Lex, NEW n \in Names, g[n].table = TRUE,
           NEW K, NEW f
    PROVE  IndexesCreated(n, storage_create_indexes(g, l, n, K, f),
                          storage_create_index(g, l, n, K, f), Made(g, l, n, K, f))
<1> DEFINE c == storage_create_indexes(g, l, n, K, f)
           o == storage_create_index(g, l, n, K, f)
           made == Made(g, l, n, K, f)
<1> SUFFICES IndexesCreated(n, c, o, made)
  OBVIOUS
<1>0. IndexCreated(g, l, n, K, f, o, made)
  BY StorageIndexFacts
<1> HIDE DEF c, o, made
<1>1. /\ o.grn \in Objs /\ o.lexicon \in Lex /\ o.error \in BOOLEAN
      /\ o = Objects(o.grn, o.lexicon, o.error)
  BY <1>0 DEF IndexCreated
<1>2. CASE ~o.error
  <2>1. c = o
    BY <1>2 DEF c, o, storage_create_indexes
  <2> QED
    BY <1>1, <1>2, <2>1 DEF IndexesCreated
<1>3. CASE o.error
  <2> DEFINE w == SetIndex(o.grn, n, made \ Lexicon, "none")
  <2>1. c = [o EXCEPT !.grn = SetIndex(@, n, made \ Lexicon, "none")]
    BY <1>3 DEF c, o, made, storage_create_indexes, Made, Bad
  <2>2. c.grn = w /\ c.lexicon = o.lexicon /\ c.error = o.error
    BY <1>1, <2>1 DEF Objects
  <2>3. /\ w \in Objs
        /\ \A m \in Names :
             /\ w[m].table <=> o.grn[m].table
             /\ w[m].cols = o.grn[m].cols
             /\ \A k \in Keys : w[m].index[k] =
                  IF m = n /\ k \in made \ Lexicon THEN "none" ELSE o.grn[m].index[k]
    BY <1>1, SetIndexFacts DEF IndexStates
  <2> HIDE DEF w
  <2> QED
    BY <1>3, <2>2, <2>3 DEF IndexesCreated
<1> QED
  BY <1>2, <1>3

\* wrapper_create_index.
LEMMA WrapperIndexFacts ==
    ASSUME NEW g \in Objs, NEW n \in Names, NEW K, NEW f,
           NEW c, c = wrapper_create_index(g, n, K, f)
    PROVE  /\ c.grn \in Objs /\ c.error \in BOOLEAN
           /\ ~c.error => ~g[n].table /\ f # <<"table", 0>>
           /\ \A m \in Names :
                /\ c.grn[m].cols = g[m].cols
                /\ c.grn[m].table <=> g[m].table \/ (m = n /\ ~c.error)
                /\ \A k \in Keys : c.grn[m].index[k] =
                     IF ~c.error /\ m = n /\ k \in K /\ g[m].index[k] = "none"
                         /\ f # <<"index_table", k>>
                     THEN IF f = <<"index_column", k>> THEN "table" ELSE "full"
                     ELSE g[m].index[k]
<1> DEFINE t == [g EXCEPT ![n].table = TRUE]
           i == wrapper_create_index_fulltext(t, n, K, f)
           made == {k \in K : g[n].index[k] = "none"}
           undone == SetIndex(g, n, made, "none")
           early == g[n].table \/ f = <<"table", 0>>
<1>1. /\ t \in Objs
      /\ \A m \in Names :
           /\ t[m].table <=> (m = n \/ g[m].table)
           /\ t[m].cols = g[m].cols
           /\ \A k \in Keys : t[m].index[k] = g[m].index[k]
  BY DEF Objs
<1> HIDE DEF t
<1>2. /\ i \in Objs
      /\ \A m \in Names :
           /\ i[m].table <=> t[m].table
           /\ i[m].cols = t[m].cols
           /\ \A k \in Keys : i[m].index[k] =
                IF m = n /\ k \in K /\ t[m].index[k] = "none" /\ f # <<"index_table", k>>
                THEN IF f = <<"index_column", k>> THEN "table" ELSE "full"
                ELSE t[m].index[k]
  BY <1>1, FulltextFacts
<1>3. /\ undone \in Objs
      /\ \A m \in Names :
           /\ undone[m].table <=> g[m].table
           /\ undone[m].cols = g[m].cols
           /\ \A k \in Keys : undone[m].index[k] = g[m].index[k]
  BY SetIndexFacts DEF IndexStates
<1>4. \/ early /\ c = [grn |-> g, error |-> TRUE]
      \/ ~early /\ c = [grn |-> undone, error |-> TRUE]
      \/ ~early /\ c = [grn |-> i, error |-> FALSE]
  BY DEF wrapper_create_index, t
<1> HIDE DEF i, made, undone
<1>5. CASE early /\ c = [grn |-> g, error |-> TRUE]
  <2>1. c.grn = g /\ c.error = TRUE
    BY <1>5
  <2> QED
    BY <2>1
<1>6. CASE ~early /\ c = [grn |-> undone, error |-> TRUE]
  <2>1. c.grn = undone /\ c.error = TRUE
    BY <1>6
  <2> QED
    BY <1>3, <2>1
<1>7. CASE ~early /\ c = [grn |-> i, error |-> FALSE]
  <2>1. c.grn = i /\ c.error = FALSE
    BY <1>7
  <2> QED
    BY <1>1, <1>2, <1>7, <2>1
<1> QED
  BY <1>4, <1>5, <1>6, <1>7

\* storage_inplace_alter_table_add_index.
Differ(A) == {k \in A \cap Unique : ~Multiple(k) /\ SizesDiffer(k)}
Tried(A) == UpToFirst(A, Differ(A))
Many(K) == {k \in K : Multiple(k)}

\* What storage_inplace_alter_table_add_index leaves: c, after o of
\* storage_create_index.
IndexAdded(g, l, A, f, c, o, made) ==
    /\ IndexCreated(g, l, name, Tried(A), f, o, made)
    /\ c.grn \in Objs /\ c.lexicon \in Lex /\ c.error \in BOOLEAN
    /\ o.error => c.error
    /\ ~c.error => /\ c = o /\ ~o.error /\ made = A \ Foreign
                   /\ Differ(A) = {} /\ ~DuplicateReported(Many(made))
    /\ c.error => c.lexicon = IF made \cap Lexicon = {} THEN o.lexicon
                              ELSE [table |-> FALSE, cols |-> {}]
    /\ \A m \in Names :
         /\ c.grn[m].table <=> o.grn[m].table
         /\ c.grn[m].cols = o.grn[m].cols
         /\ \A k \in Keys : c.grn[m].index[k] =
              IF c.error /\ m = name /\ k \in made \ Lexicon THEN "none"
              ELSE o.grn[m].index[k]

\* storage_inplace_alter_table_add_index does so too, and more for lexicons.
LEMMA AddIndexFacts ==
    ASSUME name \in Names,
           NEW g \in Objs, NEW l \in Lex, g[name].table = TRUE,
           NEW A, NEW f
    PROVE  IndexAdded(g, l, A, f, storage_inplace_alter_table_add_index(g, l, A, f),
                      storage_create_index(g, l, name, Tried(A), f),
                      Made(g, l, name, Tried(A), f))
<1> DEFINE c == storage_inplace_alter_table_add_index(g, l, A, f)
           o == storage_create_index(g, l, name, Tried(A), f)
           made == Made(g, l, name, Tried(A), f)
<1> SUFFICES IndexAdded(g, l, A, f, c, o, made)
  OBVIOUS
<1>1. IndexCreated(g, l, name, Tried(A), f, o, made)
  BY StorageIndexFacts
<1> HIDE DEF c, o, made
<1> DEFINE w == SetIndex(o.grn, name, made \ Lexicon, "none")
           lex == IF made \cap Lexicon = {} THEN o.lexicon
                  ELSE [table |-> FALSE, cols |-> {}]
<1>2. /\ o.grn \in Objs /\ o.lexicon \in Lex /\ o.error \in BOOLEAN
      /\ ~o.error => made = Tried(A) \ Foreign
  BY <1>1 DEF IndexCreated
<1>3. /\ w \in Objs
      /\ \A m \in Names :
           /\ w[m].table <=> o.grn[m].table
           /\ w[m].cols = o.grn[m].cols
           /\ \A k \in Keys : w[m].index[k] =
                IF m = name /\ k \in made \ Lexicon THEN "none" ELSE o.grn[m].index[k]
  BY <1>2, SetIndexFacts DEF IndexStates
<1>4. IF o.error \/ Differ(A) # {} \/ DuplicateReported(Many(made))
      THEN c = Objects(w, lex, TRUE) ELSE c = o
  BY DEF c, o, made, storage_inplace_alter_table_add_index, Differ, Tried, Made, Bad, Many
<1> HIDE DEF w
<1>5. CASE o.error \/ Differ(A) # {} \/ DuplicateReported(Many(made))
  <2>2. lex \in Lex
    BY <1>2 DEF Lex
  <2>0. c = Objects(w, lex, TRUE)
    BY <1>4, <1>5
  <2> HIDE DEF lex
  <2>1. c.grn = w /\ c.lexicon = lex /\ c.error = TRUE
    BY <2>0 DEF Objects
  <2> QED
    BY <1>1, <1>2, <1>3, <1>5, <2>1, <2>2 DEF lex, IndexAdded
<1>6. CASE ~(o.error \/ Differ(A) # {} \/ DuplicateReported(Many(made)))
  <2>1. c = o
    BY <1>4, <1>6
  <2>2. Tried(A) = A
    BY <1>6 DEF Tried, UpToFirst
  <2> QED
    <3>1. c.error = FALSE /\ o.error = FALSE
      BY <1>2, <1>6, <2>1
    <3>2. made = A \ Foreign
      BY <1>2, <2>2, <3>1
    <3>3. c.grn \in Objs /\ c.lexicon \in Lex
      BY <1>2, <2>1
    <3>4. \A m \in Names :
                /\ c.grn[m].table <=> o.grn[m].table
                /\ c.grn[m].cols = o.grn[m].cols
                /\ \A k \in Keys : c.grn[m].index[k] = o.grn[m].index[k]
      BY <2>1
    <3> QED
      BY <1>1, <1>6, <2>1, <3>1, <3>2, <3>3, <3>4 DEF IndexAdded
<1> QED
  BY <1>5, <1>6

-----------------------------------------------------------------------------
(* Types, and that the table opens.                                        *)

TypesOK ==
    /\ dict \in [mode : {"none", "wrapper", "storage"}, name : Names \cup {NoName},
                 keys : SUBSET Keys, cols : SUBSET Columns]
    /\ grn \in Objs /\ lexicon \in Lex /\ ref \subseteq Names
    /\ DOMAIN post = Names /\ \A n \in Names : DOMAIN post[n] = Keys
    /\ exact \subseteq dict.keys
    /\ mishaps \in 0 .. MaxMishaps

RowsOK ==
    /\ DOMAIN rows \subseteq Pks \cup Ids /\ Range(rows) \subseteq Rows
    /\ IsFiniteSet(DOMAIN rows)
    /\ DOMAIN rec \subseteq Pks /\ Range(rec) \subseteq Ids /\ IsInjective(rec)

\* What is there in which mode.
ModeOK ==
    /\ dict.mode = "none" => dict = NoTable /\ rows = << >>
    /\ dict.mode # "none" => name \in Names
    /\ dict.mode = "wrapper" =>
         dict.keys \subseteq WrapperKeys /\ dict.cols = {} /\ DOMAIN rows \subseteq Pks
    /\ dict.mode = "storage" => DOMAIN rows \subseteq Ids

\* TableOpens is part of it: a statement that starts on a table that opens
\* keeps the table's objects, or says that it lost them.
TypeInv == TypesOK /\ RowsOK /\ ModeOK /\ TableOpens

\* A statement that may fail keeps the bound on failures.
LEMMA CountedFacts ==
    ASSUME TypesOK, NEW f, NEW F, MayFail(f, F)
    PROVE  Counted(f) \in 0 .. MaxMishaps
  BY ObjectsAssumption DEF TypesOK, MayFail, Counted

\* A row is added, changed, removed.
LEMMA RowAdded ==
    ASSUME NEW R, NEW i, NEW r,
           IsFiniteSet(DOMAIN R), Range(R) \subseteq Rows, r \in Rows
    PROVE  /\ IsFiniteSet(DOMAIN With(R, i, r)) /\ Range(With(R, i, r)) \subseteq Rows
           /\ DOMAIN With(R, i, r) = DOMAIN R \cup {i}
<1>1. DOMAIN With(R, i, r) = DOMAIN R \cup {i}
  BY DEF With
<1>2. IsFiniteSet(DOMAIN With(R, i, r))
  BY <1>1, FS_AddElement
<1>3. Range(With(R, i, r)) \subseteq Rows
  BY DEF Range, With
<1> QED
  BY <1>1, <1>2, <1>3

\* A row less.
LEMMA RowRemoved ==
    ASSUME NEW R, NEW i, IsFiniteSet(DOMAIN R), Range(R) \subseteq Rows
    PROVE  /\ IsFiniteSet(DOMAIN Without(R, i)) /\ Range(Without(R, i)) \subseteq Rows
           /\ DOMAIN Without(R, i) = DOMAIN R \ {i}
<1>1. DOMAIN Without(R, i) = DOMAIN R \ {i}
  BY DEF Without
<1>2. IsFiniteSet(DOMAIN Without(R, i))
  BY <1>1, FS_RemoveElement
<1>3. Range(Without(R, i)) \subseteq Rows
  BY DEF Range, Without
<1> QED
  BY <1>1, <1>2, <1>3

\* No rows.
LEMMA NoRows ==
    /\ DOMAIN << >> = {} /\ Range(<< >>) = {} /\ IsInjective(<< >>)
    /\ IsFiniteSet(DOMAIN << >>)
<1>1. DOMAIN << >> = {}
  OBVIOUS
<1> QED
  BY <1>1, FS_EmptySet DEF Range, IsInjective

\* What row statements leave alone.
SameTable == UNCHANGED <<dict, grn, lexicon, ref, torn>>

\* A statement that changes rows only leaves the table as open finds it.
LEMMA SameTableOpens ==
    ASSUME TypeInv, SameTable
    PROVE  TableOpens'
  BY DEF TypeInv, TableOpens, WrapperOpens, StorageOpens, SameTable, name

\* The row statements of storage mode.
LEMMA StorageRowsTypes ==
    ASSUME TypeInv,
           \/ \E i \in Ids, r \in Rows : storage_write_row(i, r) \/ storage_update_row(i, r)
           \/ \E i \in Ids : storage_delete_row(i)
           \/ storage_delete_all_rows
           \/ storage_truncate
    PROVE  TypeInv'
<1> USE DEF TypeInv
<1>1. /\ SameTable /\ dict.mode = "storage"
      /\ DOMAIN post' = Names /\ \A n \in Names : DOMAIN post'[n] = Keys
      /\ exact' \subseteq exact /\ UNCHANGED <<rec, mishaps>>
  BY DEF storage_write_row, storage_update_row, storage_delete_row,
         storage_delete_all_rows, storage_truncate, StorageOpens, SameTable, TypesOK, Emptied
<1>2. /\ DOMAIN rows' \subseteq Ids /\ IsFiniteSet(DOMAIN rows') /\ Range(rows') \subseteq Rows
  <2>1. CASE \E i \in Ids, r \in Rows : storage_write_row(i, r)
    <3>1. PICK i \in Ids, r \in Rows : storage_write_row(i, r)
      BY <2>1
    <3>2. rows' = With(rows, i, r)
      BY <3>1 DEF storage_write_row, With
    <3>3. IsFiniteSet(DOMAIN rows) /\ Range(rows) \subseteq Rows
      BY DEF RowsOK
    <3>4. IsFiniteSet(DOMAIN rows') /\ Range(rows') \subseteq Rows
            /\ DOMAIN rows' = DOMAIN rows \cup {i}
      BY <3>2, <3>3, RowAdded
    <3> QED
      BY <1>1, <3>4 DEF ModeOK
  <2>2. CASE \E i \in Ids, r \in Rows : storage_update_row(i, r)
    <3>1. PICK i \in Ids, r \in Rows : storage_update_row(i, r)
      BY <2>2
    <3>2. rows' = [rows EXCEPT ![i] = r]
      BY <3>1 DEF storage_update_row
    <3> QED
      BY <1>1, <3>2 DEF RowsOK, ModeOK, Range
  <2>3. CASE \E i \in Ids : storage_delete_row(i)
    <3>1. PICK i \in Ids : rows' = Without(rows, i)
      BY <2>3 DEF storage_delete_row, Without
    <3> QED
      BY <1>1, <3>1, RowRemoved, ZenonT(60) DEF RowsOK, ModeOK
  <2>4. CASE storage_delete_all_rows \/ storage_truncate
    <3>1. rows' = << >>
      BY <2>4 DEF storage_delete_all_rows, storage_truncate
    <3> QED
      BY <3>1, NoRows
  <2> QED
    BY <2>1, <2>2, <2>3, <2>4
<1>3. TypesOK'
  BY <1>1 DEF TypesOK, SameTable
<1>4. RowsOK'
  BY <1>1, <1>2 DEF RowsOK
<1>5. ModeOK'
  BY <1>1, <1>2 DEF ModeOK, SameTable, name
<1> QED
  BY <1>1, <1>3, <1>4, <1>5, SameTableOpens

RecOK(R) == DOMAIN R \subseteq Pks /\ Range(R) \subseteq Ids /\ IsInjective(R)
PostOK(P) == DOMAIN P = Names /\ \A n \in Names : DOMAIN P[n] = Keys

\* grn_table_add: an ID no other key has.
LEMMA RecAdded ==
    ASSUME NEW R, RecOK(R), NEW p \in Pks, NEW i \in AddIds(R, p)
    PROVE  RecOK(With(R, p, i))
<1>1. CASE p \in DOMAIN R
  BY <1>1 DEF RecOK, With, AddIds, Range, IsInjective
<1>2. CASE p \notin DOMAIN R
  <2>1. i \in Ids /\ \A q \in DOMAIN R : R[q] # i
    BY <1>2 DEF AddIds, FreeIds, Range
  <2> QED
    BY <1>2, <2>1 DEF RecOK, With, Range, IsInjective
<1> QED
  BY <1>1, <1>2

\* grn_table_delete_by_id.
LEMMA RecRemoved ==
    ASSUME NEW R, RecOK(R), NEW p
    PROVE  RecOK(Without(R, p))
  BY DEF RecOK, Without, Range, IsInjective

\* A row statement of wrapper mode, whatever its index part did.
LEMMA RowStatementTypes ==
    ASSUME TypeInv, WrapperOpens, NEW new, NEW o, NEW f, NEW F, NEW b \in BOOLEAN,
           DOMAIN new \subseteq Pks, IsFiniteSet(DOMAIN new), Range(new) \subseteq Rows,
           RecOK(o.rec), PostOK(o.post),
           MayFail(f, F), RowStatement(new, o, f, b)
    PROVE  TypeInv'
<1> USE DEF TypeInv
<1>1. SameTable /\ dict.mode = "wrapper" /\ exact' \subseteq exact
      /\ rec' = o.rec /\ post' = o.post /\ (rows' = new \/ rows' = rows)
  BY DEF RowStatement, SameTable, WrapperOpens
<1>2. mishaps' \in 0 .. MaxMishaps
  BY CountedFacts, ObjectsAssumption DEF RowStatement, TypesOK
<1>3. TypesOK'
  BY <1>1, <1>2 DEF TypesOK, SameTable, PostOK
<1>4. RowsOK'
  BY <1>1 DEF RowsOK, RecOK
<1>5. ModeOK'
  BY <1>1 DEF ModeOK, SameTable, name
<1> QED
  BY <1>1, <1>3, <1>4, <1>5, SameTableOpens

\* The outcomes of wrapper_update_row_index that changed something: j is the
\* record of the new key, and the loop over the parts ended after round n.
UpdatedPost(p, i, j, r, n) ==
    Posted(LAMBDA k : IF k \in Indexed
                      THEN Replaced(k, i, rows[p], j, r, PartsDone(k, n)) ELSE Old(k))
Updated(p, q, r, j, o) ==
    LET R == With(rec, q, j) IN
    \/ p \notin DOMAIN R /\ o.rec = R /\ o.post = post /\ o.stale
    \/ /\ p \in DOMAIN R
       /\ \E n :
            /\ o.error \/ n = Cardinality(KeyParts)
            /\ \/ R[p] = j /\ o.rec = R /\ o.post = UpdatedPost(p, R[p], j, r, n)
               \/ R[p] # j /\ o.rec = Without(R, p) /\ o.post = UpdatedPost(p, R[p], j, r, n)
               \/ R[p] # j /\ n = 0 /\ o.rec = R /\ o.post = post

\* Every end of wrapper_update_row_index is one of Updated.
LEMMA UpdateCases ==
    ASSUME NEW p, NEW q, NEW r, NEW f, NEW o \in wrapper_update_row_index(p, q, r, f)
    PROVE  \/ ~have_target_index /\ o = Unchanged
           \/ o = Outcome(rec, post, TRUE, FALSE)
           \/ \E j \in AddIds(rec, q) : Updated(p, q, r, j, o)
<1> DEFINE all == Cardinality(KeyParts)
           bad == {Position(x) : x \in {y \in KeyParts : f = <<"update", y[1]>> /\ y[2] = 1}}
           failed == bad # {}
           last == IF failed THEN Min(bad) - 1 ELSE all
<1>1. CASE ~have_target_index
  BY <1>1 DEF wrapper_update_row_index
<1>2. CASE have_target_index /\ f = <<"add", 0>>
  BY <1>2 DEF wrapper_update_row_index
<1>3. CASE have_target_index /\ f # <<"add", 0>>
  <2>1. PICK j \in AddIds(rec, q) :
          LET R == With(rec, q, j) IN
          o \in IF p \notin DOMAIN R THEN {Outcome(R, post, FALSE, TRUE)}
                ELSE IF R[p] = j
                THEN {Outcome(R, UpdatedPost(p, R[p], j, r, last), failed, FALSE)}
                ELSE IF last = 0 THEN {Outcome(R, post, failed, FALSE)}
                ELSE {Outcome(Without(R, p), UpdatedPost(p, R[p], j, r, last), failed, FALSE)}
                     \cup (IF last = 1 THEN {}
                           ELSE {Outcome(Without(R, p), UpdatedPost(p, R[p], j, r, 2), TRUE, FALSE)})
    BY <1>3 DEF wrapper_update_row_index, UpdatedPost
  <2>2. failed \/ last = all
    OBVIOUS
  <2> DEFINE R == With(rec, q, j)
  <2> HIDE DEF failed, last, all, R
  <2>3. \/ p \notin DOMAIN R /\ o = Outcome(R, post, FALSE, TRUE)
        \/ p \in DOMAIN R /\ R[p] = j
           /\ o = Outcome(R, UpdatedPost(p, R[p], j, r, last), failed, FALSE)
        \/ p \in DOMAIN R /\ R[p] # j /\ last = 0 /\ o = Outcome(R, post, failed, FALSE)
        \/ p \in DOMAIN R /\ R[p] # j
           /\ o = Outcome(Without(R, p), UpdatedPost(p, R[p], j, r, last), failed, FALSE)
        \/ p \in DOMAIN R /\ R[p] # j
           /\ o = Outcome(Without(R, p), UpdatedPost(p, R[p], j, r, 2), TRUE, FALSE)
    BY <2>1 DEF R
  <2>4. Updated(p, q, r, j, o)
    BY <2>2, <2>3 DEF Updated, Outcome, R, all
  <2> QED
    BY <2>4
<1> QED
  BY <1>1, <1>2, <1>3

\* The row statements of wrapper mode.
LEMMA WrapperRowsTypes ==
    ASSUME TypeInv,
           \/ \E p \in Pks, r \in Rows, f \in Failures, b \in BOOLEAN :
                wrapper_write_row(p, r, f, b)
           \/ \E p \in Pks, q \in Pks, r \in Rows, f \in Failures, b \in BOOLEAN :
                wrapper_update_row(p, q, r, f, b)
           \/ \E p \in Pks, f \in Failures, b \in BOOLEAN : wrapper_delete_row(p, f, b)
           \/ \E b \in BOOLEAN : wrapper_delete_all_rows(b)
           \/ wrapper_truncate
    PROVE  TypeInv'
<1>1. IsFiniteSet(DOMAIN rows) /\ Range(rows) \subseteq Rows
      /\ RecOK(rec) /\ PostOK(post)
  BY DEF TypeInv, RowsOK, TypesOK, RecOK, PostOK
<1>2. WrapperOpens => DOMAIN rows \subseteq Pks /\ name \in Names
  BY DEF TypeInv, ModeOK, WrapperOpens
<1>3. RecOK(Unchanged.rec) /\ PostOK(Unchanged.post)
  BY <1>1 DEF Unchanged, Outcome
<1>4. ASSUME NEW p \in Pks, NEW r \in Rows, NEW f \in Failures, NEW b \in BOOLEAN,
             wrapper_write_row(p, r, f, b)
      PROVE  TypeInv'
  <2>1. PICK o \in wrapper_write_row_index(p, r, f) :
           RowStatement(With(rows, p, r), o, f, b)
    BY <1>4 DEF wrapper_write_row
  <2>2. RecOK(o.rec) /\ PostOK(o.post)
    <3>1. CASE o = Unchanged \/ o = Outcome(rec, post, FALSE, TRUE)
      BY <1>1, <1>3, <3>1 DEF Outcome
    <3>2. CASE ~(o = Unchanged \/ o = Outcome(rec, post, FALSE, TRUE))
      <4>1. PICK i \in AddIds(rec, p) :
               o = Outcome(With(rec, p, i),
                  Posted(LAMBDA k : IF k \in Before(Indexed, BadKey(f))
                                    THEN Old(k) \cup RowPostings(k, i, r) ELSE Old(k)),
                  BadKey(f) # {}, FALSE)
        BY <2>1, <3>2 DEF wrapper_write_row_index
      <4>2. RecOK(With(rec, p, i))
        BY <1>1, RecAdded
      <4>3. PostOK(Posted(LAMBDA k : IF k \in Before(Indexed, BadKey(f))
                                    THEN Old(k) \cup RowPostings(k, i, r) ELSE Old(k)))
        BY <1>1 DEF PostOK, Posted
      <4> QED
        BY <4>1, <4>2, <4>3 DEF Outcome
    <3> QED
      BY <3>1, <3>2
  <2>3. MayFail(f, RowFailures) /\ WrapperOpens
    BY <1>4 DEF wrapper_write_row
  <2> QED
    <3>1. /\ DOMAIN With(rows, p, r) \subseteq Pks /\ IsFiniteSet(DOMAIN With(rows, p, r))
          /\ Range(With(rows, p, r)) \subseteq Rows
      <4>1. IsFiniteSet(DOMAIN rows) /\ Range(rows) \subseteq Rows /\ DOMAIN rows \subseteq Pks
        BY <1>1, <1>2, <2>3
      <4>2. /\ IsFiniteSet(DOMAIN With(rows, p, r)) /\ Range(With(rows, p, r)) \subseteq Rows
            /\ DOMAIN With(rows, p, r) = DOMAIN rows \cup {p}
        BY <4>1, RowAdded
      <4> QED
        BY <4>1, <4>2
    <3> QED
      BY <2>1, <2>2, <2>3, <3>1, RowStatementTypes
<1>5. ASSUME NEW p \in Pks, NEW f \in Failures, NEW b \in BOOLEAN,
             wrapper_delete_row(p, f, b)
      PROVE  TypeInv'
  <2>1. PICK o \in wrapper_delete_row_index(p, f) :
           RowStatement(Without(rows, p), o, f, b)
    BY <1>5 DEF wrapper_delete_row
  <2>2. RecOK(o.rec) /\ PostOK(o.post)
    <3>1. CASE o = Unchanged \/ o = Outcome(rec, post, FALSE, TRUE)
      BY <1>1, <1>3, <3>1 DEF Outcome
    <3>2. CASE ~(o = Unchanged \/ o = Outcome(rec, post, FALSE, TRUE))
      <4>1. o = Outcome(Without(rec, p),
                  Posted(LAMBDA k : IF k \in Before(Indexed, BadKey(f))
                                    THEN Old(k) \ RowPostings(k, rec[p], rows[p])
                                    ELSE Old(k)),
                  BadKey(f) # {}, FALSE)
        BY <2>1, <3>2 DEF wrapper_delete_row_index
      <4>2. RecOK(Without(rec, p))
        BY <1>1, RecRemoved
      <4>3. PostOK(Posted(LAMBDA k : IF k \in Before(Indexed, BadKey(f))
                                    THEN Old(k) \ RowPostings(k, rec[p], rows[p])
                                    ELSE Old(k)))
        BY <1>1 DEF PostOK, Posted
      <4> QED
        BY <4>1, <4>2, <4>3 DEF Outcome
    <3> QED
      BY <3>1, <3>2
  <2>3. MayFail(f, KeyFailures({"update"}, Indexed)) /\ WrapperOpens
    BY <1>5 DEF wrapper_delete_row
  <2> QED
    <3>1. /\ DOMAIN Without(rows, p) \subseteq Pks /\ IsFiniteSet(DOMAIN Without(rows, p))
          /\ Range(Without(rows, p)) \subseteq Rows
      BY <1>1, <1>2, <2>3, RowRemoved
    <3> QED
      BY <2>1, <2>2, <2>3, <3>1, RowStatementTypes
<1>6. ASSUME NEW b \in BOOLEAN, wrapper_delete_all_rows(b) \/ wrapper_truncate
      PROVE  TypeInv'
  <2>1. PICK c \in BOOLEAN : RowStatement(<< >>, ClearedIndexes, None, c)
    BY <1>6 DEF wrapper_delete_all_rows, wrapper_truncate
  <2>2. RecOK(<< >>)
    BY NoRows DEF RecOK
  <2>3. RecOK(ClearedIndexes.rec) /\ PostOK(ClearedIndexes.post)
    BY <1>1, <1>3, <2>2 DEF ClearedIndexes, Outcome, Emptied, PostOK
  <2>4. MayFail(None, {}) /\ WrapperOpens
    BY <1>6 DEF wrapper_delete_all_rows, wrapper_truncate, MayFail
  <2> QED
    BY <2>1, <2>3, <2>4, NoRows, RowStatementTypes
<1>7. ASSUME NEW p \in Pks, NEW q \in Pks, NEW r \in Rows, NEW f \in Failures,
             NEW b \in BOOLEAN, wrapper_update_row(p, q, r, f, b)
      PROVE  TypeInv'
  <2>1. PICK o \in wrapper_update_row_index(p, q, r, f) :
           RowStatement(With(Without(rows, p), q, r), o, f, b)
    BY <1>7 DEF wrapper_update_row
  <2>2. RecOK(o.rec) /\ PostOK(o.post)
    <3>1. CASE o = Unchanged \/ o = Outcome(rec, post, TRUE, FALSE)
      BY <1>1, <1>3, <3>1 DEF Outcome
    <3>2. ASSUME NEW j \in AddIds(rec, q), Updated(p, q, r, j, o)
          PROVE  RecOK(o.rec) /\ PostOK(o.post)
      <4>1. RecOK(With(rec, q, j)) /\ RecOK(Without(With(rec, q, j), p))
        BY <1>1, RecAdded, RecRemoved
      <4>2. ASSUME NEW i, NEW n PROVE PostOK(UpdatedPost(p, i, j, r, n))
        BY <1>1 DEF PostOK, Posted, UpdatedPost
      <4> QED
        BY <1>1, <3>2, <4>1, <4>2 DEF Updated
    <3> QED
      BY <2>1, <3>1, <3>2, UpdateCases
  <2>3. MayFail(f, RowFailures) /\ WrapperOpens
    BY <1>7 DEF wrapper_update_row
  <2>4. IsFiniteSet(DOMAIN Without(rows, p)) /\ Range(Without(rows, p)) \subseteq Rows
        /\ DOMAIN Without(rows, p) = DOMAIN rows \ {p}
    BY <1>1, RowRemoved
  <2>5. IsFiniteSet(DOMAIN With(Without(rows, p), q, r))
        /\ Range(With(Without(rows, p), q, r)) \subseteq Rows
        /\ DOMAIN With(Without(rows, p), q, r) = (DOMAIN rows \ {p}) \cup {q}
    BY <2>4, RowAdded
  <2> QED
    BY <1>2, <2>1, <2>2, <2>3, <2>5, RowStatementTypes
<1> QED
  BY <1>4, <1>5, <1>6, <1>7

\* CREATE TABLE of wrapper mode.
LEMMA WrapperCreateTypes ==
    ASSUME TypeInv, NEW n \in Names, NEW f, NEW K, wrapper_create(n, K, f)
    PROVE  TypeInv'
<1> USE DEF TypeInv
<1> DEFINE c == wrapper_create_index(grn, n, K, f)
<1>1. /\ c.grn \in Objs /\ c.error \in BOOLEAN
      /\ c.grn[n].table <=> grn[n].table \/ ~c.error
  BY WrapperIndexFacts DEF TypesOK
<1>2. /\ dict.mode = "none" /\ K \subseteq WrapperKeys
      /\ mishaps' \in 0 .. MaxMishaps
      /\ rows' = << >> /\ rec' = << >> /\ lexicon' = lexicon /\ ref' = ref
  BY CountedFacts DEF wrapper_create
<1>3. grn' \in Objs
  BY <1>1, DeleteTableFacts DEF wrapper_create
<1>4. /\ DOMAIN post' = Names /\ \A m \in Names : DOMAIN post'[m] = Keys
  BY DEF wrapper_create, TypesOK, Emptied
<1>5. \/ dict' = dict /\ exact' = {}
      \/ /\ dict' = [mode |-> "wrapper", name |-> n, keys |-> K, cols |-> {}]
         /\ exact' \subseteq K
         /\ grn' = c.grn /\ ~c.error
  BY DEF wrapper_create
<1> HIDE DEF c
<1>6. TypesOK'
  BY <1>2, <1>3, <1>4, <1>5, WrapperAssumption DEF TypesOK
<1>7. RowsOK'
  BY <1>2, NoRows DEF RowsOK
<1>8. ModeOK'
  BY <1>2, <1>5, NoRows DEF ModeOK, name
<1>9. TableOpens'
  <2>1. CASE dict' = dict
    BY <1>2, <2>1 DEF TableOpens
  <2>2. CASE dict' = [mode |-> "wrapper", name |-> n, keys |-> K, cols |-> {}]
    <3>1. dict'.mode = "wrapper" /\ grn'[dict'.name].table
      BY <1>1, <1>2, <1>5, <2>2
    <3> QED
      BY <3>1 DEF TableOpens, WrapperOpens, name
  <2> QED
    BY <1>5, <2>1, <2>2
<1> QED
  BY <1>6, <1>7, <1>8, <1>9

\* DROP TABLE.
LEMMA DeleteTypes ==
    ASSUME TypeInv, wrapper_delete_table \/ storage_delete_table
    PROVE  TypeInv'
<1> USE DEF TypeInv
<1>1. name \in Names
  BY DEF ModeOK, wrapper_delete_table, storage_delete_table
<1>2. grn' \in Objs
  BY <1>1, DeleteTableFacts DEF wrapper_delete_table, storage_delete_table, TypesOK
<1>3. lexicon' \in Lex
  BY DEF wrapper_delete_table, storage_delete_table, TypesOK, Lex
<1>4. /\ dict' = NoTable /\ rows' = << >> /\ exact' = {} /\ mishaps' = mishaps
      /\ rec' = rec \/ rec' = << >>
      /\ ref' \subseteq ref
      /\ DOMAIN post' = Names /\ \A m \in Names : DOMAIN post'[m] = Keys
  BY DEF wrapper_delete_table, storage_delete_table
<1>5. TypesOK'
  BY <1>2, <1>3, <1>4 DEF TypesOK, NoTable
<1>6. RowsOK'
  BY <1>4, NoRows DEF RowsOK
<1>7. ModeOK' /\ TableOpens'
  BY <1>4 DEF ModeOK, TableOpens, NoTable
<1> QED
  BY <1>5, <1>6, <1>7

\* RENAME TABLE.
LEMMA WrapperRenameTypes ==
    ASSUME TypeInv, NEW to \in Names, NEW f, wrapper_rename_table(to, f)
    PROVE  TypeInv'
<1> USE DEF TypeInv
<1> DEFINE done == Before(dict.keys, RenameFails(name, to, dict.keys, f))
           moved == MoveIndex(grn, name, to, done)
<1>1. name \in Names /\ dict.mode = "wrapper" /\ to # name
  BY DEF ModeOK, wrapper_rename_table
<1>2. /\ moved \in Objs
      /\ \A m \in Names :
           /\ moved[m].table <=> grn[m].table
           /\ moved[m].cols = grn[m].cols
  BY <1>1, MoveIndexFacts DEF TypesOK
<1>3. /\ mishaps' \in 0 .. MaxMishaps
      /\ UNCHANGED <<lexicon, ref, rows, rec>>
      /\ exact' \subseteq exact
      /\ \/ grn' = moved /\ dict' = dict /\ torn' = torn \cup {"wrapped", "name"}
         \/ /\ grn' = [moved EXCEPT ![to].table = TRUE, ![name].table = FALSE]
            /\ dict' = [dict EXCEPT !.name = to]
            /\ torn' = torn
  BY CountedFacts DEF wrapper_rename_table, Torn
<1>4. DOMAIN post' = Names /\ \A m \in Names : DOMAIN post'[m] = Keys
  BY <1>1, MovePostFacts DEF wrapper_rename_table, TypesOK
<1> HIDE DEF moved
<1>5. grn' \in Objs /\ (dict' # dict => grn'[to].table)
  <2> DEFINE g == [moved EXCEPT ![to].table = TRUE]
  <2>1. g \in Objs /\ g[to].table
    BY <1>2 DEF Objs
  <2>2. [moved EXCEPT ![to].table = TRUE, ![name].table = FALSE] = [g EXCEPT ![name].table = FALSE]
    BY <1>1, <1>2 DEF Objs
  <2> HIDE DEF g
  <2>3. [g EXCEPT ![name].table = FALSE] \in Objs /\ [g EXCEPT ![name].table = FALSE][to].table
    BY <1>1, <2>1 DEF Objs
  <2> QED
    BY <1>2, <1>3, <2>2, <2>3
<1>6. /\ dict'.keys = dict.keys /\ dict'.mode = dict.mode /\ dict'.cols = dict.cols
      /\ dict'.name = dict.name \/ dict'.name = to
      /\ dict' = dict \/ dict'.name = to
      /\ dict' \in [mode : {"none", "wrapper", "storage"}, name : Names \cup {NoName},
                    keys : SUBSET Keys, cols : SUBSET Columns]
  BY <1>3 DEF TypesOK
<1>7. TypesOK'
  BY <1>3, <1>4, <1>5, <1>6 DEF TypesOK
<1>8. RowsOK'
  BY <1>3 DEF RowsOK
<1>9. ModeOK'
  BY <1>1, <1>3, <1>6 DEF ModeOK, name
<1>10. TableOpens'
  <2>1. CASE dict' = dict
    <3>1. grn' = moved /\ torn \subseteq torn'
      BY <1>1, <1>3, <2>1 DEF name, TypesOK
    <3> QED
      BY <1>1, <1>2, <2>1, <3>1 DEF TableOpens, WrapperOpens, StorageOpens, name
  <2>2. CASE dict' # dict
    BY <1>1, <1>5, <1>6, <2>2 DEF TableOpens, WrapperOpens, name
  <2> QED
    BY <2>1, <2>2
<1> QED
  BY <1>7, <1>8, <1>9, <1>10

\* RENAME TABLE of storage mode.
LEMMA StorageRenameTypes ==
    ASSUME TypeInv, NEW to \in Names, NEW f, storage_rename_table(to, f)
    PROVE  TypeInv'
<1> USE DEF TypeInv
<1> DEFINE own == dict.keys \ Lexicon
           done == Before(own, RenameFails(name, to, own, f))
           moved == MoveIndex(grn, name, to, done)
<1>1. name \in Names /\ dict.mode = "storage" /\ to # name
  BY DEF ModeOK, storage_rename_table
<1>2. /\ moved \in Objs
      /\ \A m \in Names :
           /\ moved[m].table <=> grn[m].table
           /\ moved[m].cols = grn[m].cols
  BY <1>1, MoveIndexFacts DEF TypesOK
<1>3. /\ mishaps' \in 0 .. MaxMishaps
      /\ UNCHANGED <<lexicon, rows, rec>>
      /\ exact' \subseteq exact
      /\ ref' \subseteq Names
      /\ \/ grn' = moved /\ dict' = dict /\ torn' = torn \cup {"index", "name"}
         \/ /\ grn' = [moved EXCEPT ![to].table = TRUE, ![to].cols = grn[name].cols,
                                       ![name].table = FALSE, ![name].cols = {}]
            /\ dict' = [dict EXCEPT !.name = to]
            /\ torn' = torn
  BY CountedFacts DEF storage_rename_table, Torn, TypesOK
<1>4. DOMAIN post' = Names /\ \A m \in Names : DOMAIN post'[m] = Keys
  BY <1>1, MovePostFacts DEF storage_rename_table, TypesOK
<1> HIDE DEF moved
<1>5. grn' \in Objs /\ (dict' # dict => grn'[to].table /\ grn'[to].cols = grn[name].cols)
  <2> DEFINE g == [moved EXCEPT ![to].table = TRUE, ![to].cols = grn[name].cols]
             h == [g EXCEPT ![name].table = FALSE, ![name].cols = {}]
  <2>0. grn[name].cols \subseteq Columns
    BY <1>1 DEF TypesOK, Objs
  <2>1. g \in Objs /\ g[to].table /\ g[to].cols = grn[name].cols
    BY <1>2, <2>0 DEF Objs
  <2>2. [moved EXCEPT ![to].table = TRUE, ![to].cols = grn[name].cols,
                      ![name].table = FALSE, ![name].cols = {}] = h
    BY <1>1, <1>2, <2>0 DEF Objs
  <2> HIDE DEF g
  <2>3. h \in Objs /\ h[to].table /\ h[to].cols = grn[name].cols
    BY <1>1, <2>1 DEF Objs
  <2> QED
    BY <1>2, <1>3, <2>2, <2>3
<1>6. /\ dict'.keys = dict.keys /\ dict'.mode = dict.mode /\ dict'.cols = dict.cols
      /\ dict'.name = dict.name \/ dict'.name = to
      /\ dict' = dict \/ dict'.name = to
      /\ dict' \in [mode : {"none", "wrapper", "storage"}, name : Names \cup {NoName},
                    keys : SUBSET Keys, cols : SUBSET Columns]
  BY <1>3 DEF TypesOK
<1>7. TypesOK'
  BY <1>3, <1>4, <1>5, <1>6 DEF TypesOK
<1>8. RowsOK'
  BY <1>3 DEF RowsOK
<1>9. ModeOK'
  BY <1>1, <1>3, <1>6 DEF ModeOK, name
<1>10. TableOpens'
  <2>1. CASE dict' = dict
    <3>1. grn' = moved /\ torn \subseteq torn'
      BY <1>1, <1>3, <2>1 DEF name, TypesOK
    <3> QED
      BY <1>1, <1>2, <2>1, <3>1 DEF TableOpens, WrapperOpens, StorageOpens, name
  <2>2. CASE dict' # dict
    <3>1. torn' = torn
      BY <1>3, <2>2
    <3> QED
      BY <1>1, <1>5, <1>6, <2>2, <3>1 DEF TableOpens, WrapperOpens, StorageOpens, name
  <2> QED
    BY <2>1, <2>2
<1> QED
  BY <1>7, <1>8, <1>9, <1>10

\* wrapper_fill_indexes gives every row a record and changes no other.
LEMMA FilledFacts ==
    ASSUME NEW R, NEW S \in FilledRecs(R)
    PROVE  /\ DOMAIN S = DOMAIN rows \cup DOMAIN R
           /\ \A p \in DOMAIN R : S[p] = R[p]
           /\ Range(S) \subseteq Ids /\ IsInjective(S)
<1>1. S \in Filled(R)
  BY DEF FilledRecs
<1> QED
  BY <1>1 DEF Filled, Range

\* Filling, emptying and adding keep a posting set for every index.
LEMMA FillTypes ==
    ASSUME NEW P, PostOK(P), NEW R, NEW K
    PROVE  PostOK(wrapper_fill_indexes(R, P, K))
  BY DEF PostOK, wrapper_fill_indexes

LEMMA EmptiedTypes ==
    ASSUME NEW P, PostOK(P), NEW n, NEW K
    PROVE  PostOK(Emptied(P, n, K))
  BY DEF PostOK, Emptied

\* DISABLE KEYS.
LEMMA DisableTypes ==
    ASSUME TypeInv, wrapper_disable_indexes \/ storage_disable_indexes
    PROVE  TypeInv'
<1> USE DEF TypeInv
<1>1. name \in Names
  BY DEF ModeOK, wrapper_disable_indexes, storage_disable_indexes, WrapperOpens, StorageOpens
<1>2. PICK K : grn' = SetIndex(grn, name, K, "none")
  BY DEF wrapper_disable_indexes, storage_disable_indexes
<1>3. /\ grn' \in Objs
      /\ grn'[name].table <=> grn[name].table
      /\ grn'[name].cols = grn[name].cols
  BY <1>1, <1>2, SetIndexFacts DEF TypesOK, IndexStates
<1>4. /\ UNCHANGED <<dict, ref, rows, rec, torn, mishaps>>
      /\ exact' \subseteq exact /\ lexicon' \in Lex
  BY DEF wrapper_disable_indexes, storage_disable_indexes, TypesOK, Lex
<1>5. PostOK(post')
  BY EmptiedTypes DEF wrapper_disable_indexes, storage_disable_indexes, TypesOK, PostOK
<1>6. TypesOK' /\ RowsOK' /\ ModeOK'
  BY <1>3, <1>4, <1>5 DEF TypesOK, RowsOK, ModeOK, PostOK, name
<1>7. TableOpens'
  BY <1>3, <1>4 DEF TableOpens, WrapperOpens, StorageOpens, name
<1> QED
  BY <1>6, <1>7

\* ENABLE KEYS of wrapper mode.
LEMMA WrapperEnableTypes ==
    ASSUME TypeInv, NEW f, wrapper_enable_indexes(f)
    PROVE  TypeInv'
<1> USE DEF TypeInv
<1>1. name \in Names /\ WrapperOpens /\ dict.mode = "wrapper"
  BY DEF ModeOK, wrapper_enable_indexes, WrapperOpens
<1>2. PICK K : grn' = wrapper_create_index_fulltext(grn, name, K, f)
  BY DEF wrapper_enable_indexes
<1>3. grn' \in Objs /\ (grn'[name].table <=> grn[name].table)
  BY <1>1, <1>2, FulltextFacts DEF TypesOK
<1>4. /\ UNCHANGED <<dict, lexicon, ref, rows>>
      /\ mishaps' \in 0 .. MaxMishaps
      /\ exact' \subseteq dict.keys
      /\ torn \subseteq torn'
  BY CountedFacts DEF wrapper_enable_indexes, TypesOK, Torn
<1>5. PostOK(post) /\ RecOK(rec)
  BY DEF TypesOK, RowsOK, PostOK, RecOK
<1>6. PostOK(post') /\ RecOK(rec')
  <2>1. CASE rec' = rec /\ post' = post
    BY <1>5, <2>1
  <2>2. CASE ~(rec' = rec /\ post' = post)
    <3>1. PICK R, L :
             R \in FilledRecs(rec) /\ rec' = R /\ post' = wrapper_fill_indexes(R, post, L)
      BY <2>2 DEF wrapper_enable_indexes
    <3>2. RecOK(R)
      BY <1>1, <1>5, <3>1, FilledFacts DEF RecOK, ModeOK
    <3> QED
      BY <1>5, <3>1, <3>2, FillTypes
  <2> QED
    BY <2>1, <2>2
<1>7. TypesOK' /\ RowsOK' /\ ModeOK'
  BY <1>3, <1>4, <1>6 DEF TypesOK, RowsOK, ModeOK, PostOK, RecOK, name
<1>8. TableOpens'
  BY <1>1, <1>3, <1>4 DEF TableOpens, WrapperOpens, name
<1> QED
  BY <1>7, <1>8

\* REPAIR TABLE of wrapper mode.
LEMMA WrapperRepairTypes ==
    ASSUME TypeInv, NEW f, wrapper_repair(f)
    PROVE  TypeInv'
<1> USE DEF TypeInv
<1>1. name \in Names /\ dict.mode = "wrapper" /\ "wrapped" \notin torn
  BY DEF ModeOK, wrapper_repair
<1> DEFINE g == remove_grn_obj_force(grn, name, dict.keys)
           gone == [g EXCEPT ![name].table = FALSE]
           c == wrapper_create_index(gone, name, dict.keys, f)
<1>2. g \in Objs
  BY <1>1, SetIndexFacts DEF TypesOK, remove_grn_obj_force, IndexStates
<1> HIDE DEF g
<1>3. gone \in Objs
  BY <1>2 DEF Objs
<1> HIDE DEF gone
<1>4. /\ c.grn \in Objs /\ c.error \in BOOLEAN
      /\ ~c.error => c.grn[name].table
  BY <1>1, <1>3, WrapperIndexFacts
<1>5. /\ UNCHANGED <<dict, lexicon, ref, rows>>
      /\ mishaps' \in 0 .. MaxMishaps
      /\ exact' \subseteq dict.keys
      /\ grn' = c.grn
      /\ ~c.error \/ torn' = torn \cup {"index", "table"}
  BY CountedFacts DEF wrapper_repair, TypesOK, Torn, g, gone
<1> HIDE DEF c
<1>6. PostOK(post) /\ RecOK(<< >>) /\ PostOK(Emptied(post, name, dict.keys))
  BY NoRows, EmptiedTypes DEF TypesOK, PostOK, RecOK
<1>7. PostOK(post') /\ RecOK(rec')
  <2>1. CASE rec' = << >> /\ post' = Emptied(post, name, dict.keys)
    BY <1>6, <2>1
  <2>2. CASE ~(rec' = << >> /\ post' = Emptied(post, name, dict.keys))
    <3>1. PICK R, K :
             R \in FilledRecs(<< >>) /\ rec' = R /\ post' = wrapper_fill_indexes(R, Emptied(post, name, dict.keys), K)
      BY <2>2 DEF wrapper_repair
    <3>2. RecOK(R)
      BY <1>1, <1>6, <3>1, FilledFacts DEF RecOK, ModeOK
    <3> QED
      BY <1>6, <3>1, <3>2, FillTypes
  <2> QED
    BY <2>1, <2>2
<1>8. TypesOK' /\ RowsOK' /\ ModeOK'
  BY <1>4, <1>5, <1>7 DEF TypesOK, RowsOK, ModeOK, PostOK, RecOK, name
<1>9. TableOpens'
  <2>1. CASE c.error
    BY <1>5, <2>1 DEF TableOpens
  <2>2. CASE ~c.error
    BY <1>1, <1>4, <1>5, <2>2 DEF TableOpens, WrapperOpens, name
  <2> QED
    BY <2>1, <2>2
<1> QED
  BY <1>8, <1>9

\* ALTER TABLE in place of wrapper mode.
LEMMA WrapperAlterTypes ==
    ASSUME TypeInv, NEW D, NEW A, NEW f, wrapper_inplace_alter_table(D, A, f)
    PROVE  TypeInv'
<1> USE DEF TypeInv
<1>1. name \in Names /\ WrapperOpens /\ dict.mode = "wrapper"
  BY DEF ModeOK, wrapper_inplace_alter_table, WrapperOpens
<1> DEFINE g == drop_index(grn, name, D)
<1>2. g \in Objs /\ (g[name].table <=> grn[name].table)
  BY <1>1, SetIndexFacts DEF TypesOK, drop_index, IndexStates
<1>3. PICK K, L : \/ grn' = wrapper_create_index_fulltext(g, name, K, f)
                  \/ grn' = SetIndex(wrapper_create_index_fulltext(g, name, K, f), name, L, "none")
  BY DEF wrapper_inplace_alter_table
<1> HIDE DEF g
<1>4. grn' \in Objs /\ (grn'[name].table <=> grn[name].table)
  <2> DEFINE w == wrapper_create_index_fulltext(g, name, K, f)
  <2>1. w \in Objs /\ (w[name].table <=> g[name].table)
    BY <1>1, <1>2, FulltextFacts
  <2> HIDE DEF w
  <2>2. /\ SetIndex(w, name, L, "none") \in Objs
        /\ SetIndex(w, name, L, "none")[name].table <=> w[name].table
    BY <1>1, <2>1, SetIndexFacts DEF IndexStates
  <2> QED
    BY <1>2, <1>3, <2>1, <2>2 DEF w
<1>5. /\ UNCHANGED <<lexicon, ref, rows>>
      /\ mishaps' \in 0 .. MaxMishaps
      /\ D \subseteq dict.keys /\ A \subseteq WrapperKeys
      /\ \/ dict' = dict /\ exact' \subseteq exact
         \/ /\ dict' = [dict EXCEPT !.keys = (@ \ D) \cup A]
            /\ exact' \subseteq (exact \ D) \cup A
      /\ "wrapped" \notin torn'
  BY <1>1, CountedFacts DEF wrapper_inplace_alter_table, TypesOK, Torn, WrapperOpens
<1>6. PostOK(post) /\ RecOK(rec) /\ PostOK(Emptied(post, name, D))
  BY EmptiedTypes DEF TypesOK, RowsOK, PostOK, RecOK
<1>7. PostOK(post') /\ RecOK(rec')
  <2>1. PICK R, K2 : /\ R \in FilledRecs(rec) \/ R = rec
                     /\ rec' = R
                     /\ \/ post' = Emptied(post, name, D)
                        \/ post' = wrapper_fill_indexes(R, Emptied(post, name, D), K2)
    BY DEF wrapper_inplace_alter_table
  <2>2. RecOK(R)
    BY <1>1, <1>6, <2>1, FilledFacts DEF RecOK, ModeOK
  <2> QED
    BY <1>6, <2>1, <2>2, FillTypes
<1>8. /\ dict'.mode = dict.mode /\ dict'.name = dict.name /\ dict'.cols = dict.cols
      /\ exact' \subseteq dict'.keys /\ dict'.keys \subseteq WrapperKeys
      /\ dict' \in [mode : {"none", "wrapper", "storage"}, name : Names \cup {NoName},
                    keys : SUBSET Keys, cols : SUBSET Columns]
  BY <1>1, <1>5, WrapperAssumption DEF TypesOK, ModeOK
<1>9. TypesOK' /\ RowsOK' /\ ModeOK'
  BY <1>1, <1>4, <1>5, <1>7, <1>8 DEF TypesOK, RowsOK, ModeOK, PostOK, RecOK, name
<1>10. TableOpens'
  BY <1>1, <1>4, <1>5, <1>8 DEF TableOpens, WrapperOpens, name
<1> QED
  BY <1>9, <1>10

\* CREATE TABLE of storage mode.
LEMMA StorageCreateTypes ==
    ASSUME TypeInv, NEW n \in Names, NEW f, NEW K, storage_create(n, K, f)
    PROVE  TypeInv'
<1> USE DEF TypeInv
<1> DEFINE with == [grn EXCEPT ![n].table = TRUE]
           c == storage_create_indexes(with, lexicon, n, K, f)
           o == storage_create_index(with, lexicon, n, K, f)
           made == Made(with, lexicon, n, K, f)
<1>1. with \in Objs /\ with[n].table = TRUE /\ with[n].cols = grn[n].cols /\ lexicon \in Lex
  BY DEF TypesOK, Objs
<1> HIDE DEF with
<1>2. /\ IndexCreated(with, lexicon, n, K, f, o, made)
      /\ IndexesCreated(n, c, o, made)
  BY <1>1, StorageIndexFacts, StorageIndexesFacts
<1> HIDE DEF o, made
<1>3. /\ c.lexicon \in Lex
      /\ c.grn \in Objs
      /\ ~c.error => c.grn[n].table
  BY <1>2 DEF IndexCreated, IndexesCreated
<1> HIDE DEF c
<1>4. /\ dict.mode = "none" /\ K \subseteq StorageKeys
      /\ mishaps' \in 0 .. MaxMishaps
      /\ rows' = << >> /\ rec' = << >> /\ post' = post /\ torn' = torn
      /\ \/ /\ dict' = dict /\ exact' = exact /\ ref' = ref
            /\ grn' = grn \/ grn' = RemoveTable(c.grn, n, K)
            /\ lexicon' = lexicon \/ lexicon' = [c.lexicon EXCEPT !.cols = {}]
         \/ /\ dict' = [mode |-> "storage", name |-> n, keys |-> K, cols |-> {}]
            /\ grn' = c.grn /\ lexicon' = c.lexicon /\ ~c.error
            /\ ref' \subseteq Names /\ exact' \subseteq K
  BY CountedFacts DEF storage_create, c, with
<1>5. grn' \in Objs
  BY <1>3, <1>4, RemoveTableFacts DEF TypesOK
<1>6. lexicon' \in Lex
  BY <1>1, <1>3, <1>4 DEF Lex
<1>7. TypesOK'
  BY <1>4, <1>5, <1>6, StorageAssumption DEF TypesOK
<1>8. RowsOK'
  BY <1>4, NoRows DEF RowsOK
<1>9. ModeOK'
  BY <1>4, NoRows DEF ModeOK, name
<1>10. TableOpens'
  <2>1. CASE dict' = dict
    BY <1>4, <2>1 DEF TableOpens
  <2>2. CASE dict' = [mode |-> "storage", name |-> n, keys |-> K, cols |-> {}]
    <3>1. dict'.mode = "storage" /\ grn'[dict'.name].table /\ dict'.cols = {}
      BY <1>3, <1>4, <2>2
    <3> QED
      BY <3>1 DEF TableOpens, StorageOpens, name
  <2> QED
    BY <1>4, <2>1, <2>2
<1> QED
  BY <1>7, <1>8, <1>9, <1>10

\* What Survives says, as types.
LEMMA SurvivesTypes ==
    ASSUME TypeInv, NEW o, NEW P, NEW E, PostOK(P), Survives(o, P, E)
    PROVE  /\ rows' = << >> \/ rows' = rows
           /\ PostOK(post')
           /\ exact' \subseteq E
<1>1. PostOK([n \in Names |-> [k \in Keys |-> {}]])
  BY DEF PostOK
<1> QED
  BY <1>1 DEF Survives

\* storage_add_index_multiple_columns.
LEMMA AddMultipleTypes ==
    ASSUME NEW P, PostOK(P), NEW K
    PROVE  PostOK(storage_add_index_multiple_columns(P, K))
  BY DEF PostOK, storage_add_index_multiple_columns

\* A statement of storage mode that keeps the name and leaves the objects o.
LEMMA StorageDdlTypes ==
    ASSUME TypeInv, dict.mode = "storage", name \in Names,
           NEW o, o.grn \in Objs, o.lexicon \in Lex,
           grn' = o.grn, lexicon' = o.lexicon,
           NEW P, NEW E, PostOK(P), Survives(o, P, E),
           dict' \in [mode : {"storage"}, name : {name}, keys : SUBSET Keys,
                      cols : SUBSET Columns],
           E \subseteq dict'.keys, UNCHANGED <<ref, rec>>,
           mishaps' \in 0 .. MaxMishaps,
           \/ "table" \in torn'
           \/ o.grn[name].table /\ dict'.cols \subseteq o.grn[name].cols
    PROVE  TypeInv'
<1> USE DEF TypeInv
<1>1. /\ rows' = << >> \/ rows' = rows
      /\ PostOK(post')
      /\ exact' \subseteq E
  BY SurvivesTypes
<1>2. TypesOK'
  BY <1>1 DEF TypesOK, PostOK
<1>3. RowsOK'
  BY <1>1, NoRows DEF RowsOK
<1>4. ModeOK'
  BY <1>1, NoRows DEF ModeOK, name
<1>5. TableOpens'
  <2>1. dict'.name = name /\ dict'.mode = "storage"
    OBVIOUS
  <2> QED
    BY <2>1 DEF TableOpens, StorageOpens, name
<1> QED
  BY <1>2, <1>3, <1>4, <1>5

\* ENABLE KEYS of storage mode.
LEMMA StorageEnableTypes ==
    ASSUME TypeInv, NEW f, storage_enable_indexes(f)
    PROVE  TypeInv'
<1> DEFINE missing == {k \in dict.keys \ Unique : ~IndexColumn(k)}
           o == storage_create_index(grn, lexicon, name, missing, f)
           made == MadeIndexes(missing, CreateIndexFails(grn, lexicon, name, missing, f))
           filled == {k \in missing : Multiple(k)}
<1>1. /\ name \in Names /\ dict.mode = "storage" /\ grn \in Objs /\ lexicon \in Lex
      /\ grn[name].table = TRUE /\ dict.cols \subseteq grn[name].cols
      /\ dict \in [mode : {"storage"}, name : {name}, keys : SUBSET Keys, cols : SUBSET Columns]
      /\ exact \subseteq dict.keys
  BY DEF TypeInv, ModeOK, TypesOK, Objs, StorageOpens, storage_enable_indexes, name
<1>2. made = Made(grn, lexicon, name, missing, f) /\ made \subseteq dict.keys
  BY DEF Made, Bad, MadeIndexes, Before
<1>3. PostOK(post) /\ PostOK(storage_add_index_multiple_columns(post, filled))
  BY AddMultipleTypes DEF TypeInv, TypesOK, PostOK
<1>4. /\ grn' = o.grn /\ lexicon' = o.lexicon
      /\ UNCHANGED <<dict, ref, rec>>
      /\ mishaps' \in 0 .. MaxMishaps
      /\ \/ /\ o.error
            /\ Survives(o, post, exact \cup {k \in made : ~Multiple(k)})
            /\ torn' = torn \cup {"index"} \cup LossOf(o)
         \/ /\ ~o.error
            /\ Survives(o, storage_add_index_multiple_columns(post, filled), exact \cup made)
  BY CountedFacts DEF storage_enable_indexes, Torn, TypeInv
<1> HIDE DEF missing, filled
<1>5. IndexCreated(grn, lexicon, name, missing, f, o, made)
  <2>1. IndexCreated(grn, lexicon, name, missing, f, o, Made(grn, lexicon, name, missing, f))
    BY <1>1, StorageIndexFacts
  <2> QED
    BY <1>2, <2>1
<1> HIDE DEF o, made
<1>6. /\ o.grn \in Objs /\ o.lexicon \in Lex
      /\ "table" \in torn' \/ (o.grn[name].table /\ o.grn[name].cols = grn[name].cols)
  BY <1>1, <1>4, <1>5 DEF IndexCreated, LossOf
<1>7. CASE o.error
  BY <1>1, <1>2, <1>3, <1>4, <1>6, <1>7, StorageDdlTypes
<1>8. CASE ~o.error
  BY <1>1, <1>2, <1>3, <1>4, <1>6, <1>8, StorageDdlTypes
<1> QED
  BY <1>7, <1>8

\* REPAIR TABLE of storage mode.
LEMMA StorageRepairTypes ==
    ASSUME TypeInv, NEW f, storage_recreate_indexes(f)
    PROVE  TypeInv'
<1> DEFINE gone == remove_grn_obj_force(grn, name, dict.keys \ Lexicon)
           c == storage_create_indexes(gone, lexicon, name, dict.keys, f)
           o == storage_create_index(gone, lexicon, name, dict.keys, f)
           made == Made(gone, lexicon, name, dict.keys, f)
           P == Emptied(post, name, dict.keys)
<1>1. /\ name \in Names /\ dict.mode = "storage" /\ grn \in Objs /\ lexicon \in Lex
      /\ grn[name].table = TRUE /\ dict.cols \subseteq grn[name].cols
      /\ dict \in [mode : {"storage"}, name : {name}, keys : SUBSET Keys, cols : SUBSET Columns]
      /\ exact \subseteq dict.keys
  BY DEF TypeInv, ModeOK, TypesOK, Objs, StorageOpens, storage_recreate_indexes, name
<1>2. /\ gone \in Objs /\ gone[name].table = TRUE /\ gone[name].cols = grn[name].cols
  <2>1. /\ gone \in Objs /\ (gone[name].table <=> grn[name].table)
        /\ gone[name].cols = grn[name].cols
    BY <1>1, SetIndexFacts DEF remove_grn_obj_force, IndexStates
  <2> QED
    BY <1>1, <2>1 DEF Objs
<1>3. PostOK(P)
  BY EmptiedTypes DEF TypeInv, TypesOK, PostOK
<1>4. /\ grn' = c.grn /\ lexicon' = c.lexicon
      /\ UNCHANGED <<dict, ref, rec>>
      /\ mishaps' \in 0 .. MaxMishaps
      /\ \E E \in SUBSET dict.keys : Survives(c, P, E)
      /\ c.error => torn' = torn \cup {"index"} \cup LossOf(c)
  <2>1. PICK E \in SUBSET dict.keys : Survives(c, P, E)
    BY DEF storage_recreate_indexes
  <2> QED
    BY <2>1, CountedFacts DEF storage_recreate_indexes, Torn, TypeInv
<1> HIDE DEF gone, P
<1>5. /\ IndexCreated(gone, lexicon, name, dict.keys, f, o, made)
      /\ IndexesCreated(name, c, o, made)
  BY <1>1, <1>2, StorageIndexFacts, StorageIndexesFacts
<1> HIDE DEF c, o, made
<1>6. /\ c.grn \in Objs /\ c.lexicon \in Lex
      /\ "table" \in torn' \/ (c.grn[name].table /\ c.grn[name].cols = grn[name].cols)
  BY <1>1, <1>2, <1>4, <1>5 DEF IndexCreated, IndexesCreated, LossOf
<1> QED
  BY <1>1, <1>3, <1>4, <1>6, StorageDdlTypes

\* ADD, DROP and RENAME COLUMN on two sets of columns, one within the other.
LEMMA ChangeFacts ==
    ASSUME TypesOK, NEW change \in ColumnChanges, NEW X, NEW Y \in SUBSET Columns, X \subseteq Y
    PROVE  /\ ChangeColumns(Y, change) \subseteq Columns
           /\ ChangeColumns(X, change) \subseteq ChangeColumns(Y, change)
           /\ change[1] \in {"none", "add"} => X \subseteq ChangeColumns(Y, change)
           /\ change = <<"none">> => change[1] = "none"
<1>1. CASE change = <<"none">>
  BY <1>1 DEF ChangeColumns
<1>2. CASE \E x \in Columns : change = <<"add", x>>
  BY <1>2 DEF ChangeColumns
<1>3. CASE \E x \in dict.cols : change = <<"drop", x>>
  BY <1>3 DEF ChangeColumns
<1>4. CASE \E x \in dict.cols, y \in Columns \ dict.cols : change = <<"rename", x, y>>
  BY <1>4 DEF ChangeColumns
<1> QED
  BY <1>1, <1>2, <1>3, <1>4 DEF ColumnChanges

\* The objects after the column part of an ALTER TABLE.
Dropped(D) == drop_index(grn, name, D)
DroppedLex(D) == [lexicon EXCEPT !.cols = @ \ D]
Altered(D, change) ==
    [Dropped(D) EXCEPT ![name].cols = ChangeColumns(@, change)]
Added(A) == IF disable_keys THEN A \cap Unique ELSE A
AlterFailed(D, change, f) ==
    ChangeFails(Dropped(D)[name].cols, change, f) /\ change # <<"none">>

ColumnsAltered(D, change, d, g, l) ==
    /\ d \in Objs /\ l \in Lex /\ g \in Objs
    /\ l.table = lexicon.table /\ l.cols = lexicon.cols \ D
    /\ g[name].cols = ChangeColumns(grn[name].cols, change)
    /\ d[name].cols = grn[name].cols
    /\ \A m \in Names :
         /\ d[m].table <=> grn[m].table
         /\ g[m].table <=> grn[m].table
         /\ m # name => d[m].cols = grn[m].cols
         /\ m # name => g[m].cols = grn[m].cols
         /\ \A k \in Keys :
              /\ d[m].index[k] =
                   IF m = name /\ k \in D \ Lexicon THEN "none" ELSE grn[m].index[k]
              /\ g[m].index[k] = d[m].index[k]

\* What DROP INDEX and the column part of ALTER TABLE leave.
LEMMA AlteredFacts ==
    ASSUME TypesOK, name \in Names, NEW D, NEW change \in ColumnChanges
    PROVE  ColumnsAltered(D, change, Dropped(D), Altered(D, change), DroppedLex(D))
<1> DEFINE g == Dropped(D)
<1>1. /\ g \in Objs
      /\ \A m \in Names :
           /\ g[m].table <=> grn[m].table
           /\ g[m].cols = grn[m].cols
           /\ \A k \in Keys : g[m].index[k] =
                IF m = name /\ k \in D \ Lexicon THEN "none" ELSE grn[m].index[k]
  BY SetIndexFacts DEF TypesOK, Dropped, drop_index, IndexStates
<1>2. DroppedLex(D) \in Lex /\ DroppedLex(D).table = lexicon.table
      /\ DroppedLex(D).cols = lexicon.cols \ D
  BY DEF TypesOK, DroppedLex, Lex
<1> DEFINE X == ChangeColumns(g[name].cols, change)
<1> HIDE DEF g
<1>3. g[name].cols \in SUBSET Columns
  BY <1>1 DEF Objs
<1>4. X \subseteq Columns
  BY <1>3, ChangeFacts
<1>5. Altered(D, change) = [g EXCEPT ![name].cols = X]
  BY <1>1 DEF Altered, g, Objs
<1> HIDE DEF X
<1>6. /\ Altered(D, change) \in Objs
      /\ Altered(D, change)[name].cols = X
      /\ \A m \in Names :
           /\ Altered(D, change)[m].table = g[m].table
           /\ m # name => Altered(D, change)[m].cols = g[m].cols
           /\ \A k \in Keys : Altered(D, change)[m].index[k] = g[m].index[k]
  BY <1>1, <1>4, <1>5 DEF Objs
<1> QED
  BY <1>1, <1>2, <1>6 DEF g, X, ColumnsAltered

\* What storage_inplace_alter_table does, in terms of these.
AlterOutcome(D, A, change, f) ==
    IF AlterFailed(D, change, f) THEN Objects(Dropped(D), DroppedLex(D), TRUE)
    ELSE storage_inplace_alter_table_add_index(Altered(D, change), DroppedLex(D), Added(A), f)
AlterTorn(D, change, f, o) ==
    LossOf(o)
    \cup (IF D = {} THEN {} ELSE {"index"})
    \cup (IF lexicon.table /\ ~o.lexicon.table THEN {"index"} ELSE {})
    \cup (IF AlterFailed(D, change, f) \/ change = <<"none">> THEN {}
          ELSE IF change[1] = "add" THEN {"name"} ELSE {"table"})

AlterStep(D, A, change, f, o) ==
    /\ StorageOpens /\ SupportedInplace(D, A) /\ change \in ColumnChanges
    /\ \E F : MayFail(f, F)
    /\ mishaps' = Counted(f)
    /\ grn' = o.grn /\ lexicon' = o.lexicon
    /\ UNCHANGED <<ref, rec>>
    /\ o.error => /\ Survives(o, Emptied(post, name, D), exact \ D)
                  /\ dict' = dict
                  /\ torn' = torn \cup AlterTorn(D, change, f, o)
    /\ ~o.error =>
         /\ Survives(o, storage_add_index_multiple_columns(Emptied(post, name, D), Many(Added(A))),
                     (exact \ D) \cup (IF DuplicateAccepted(Many(Added(A))) THEN {} ELSE Added(A)))
         /\ dict' = [dict EXCEPT !.keys = (@ \ D) \cup A, !.cols = ChangeColumns(@, change)]
         /\ torn' = torn

\* storage_inplace_alter_table is such a step.
LEMMA AlterSteps ==
    ASSUME NEW D, NEW A, NEW change, NEW f, storage_inplace_alter_table(D, A, change, f)
    PROVE  AlterStep(D, A, change, f, AlterOutcome(D, A, change, f))
  BY DEF storage_inplace_alter_table, AlterStep, AlterOutcome, AlterTorn, AlterFailed, Dropped,
         DroppedLex, Altered, Added, Many, Torn

\* ALTER TABLE in place of storage mode.
LEMMA StorageAlterTypes ==
    ASSUME TypeInv, NEW D, NEW A, NEW change, NEW f,
           storage_inplace_alter_table(D, A, change, f)
    PROVE  TypeInv'
<1> DEFINE o == AlterOutcome(D, A, change, f)
           P == Emptied(post, name, D)
           Q == storage_add_index_multiple_columns(P, Many(Added(A)))
           E == (exact \ D) \cup (IF DuplicateAccepted(Many(Added(A))) THEN {} ELSE Added(A))
<1>0. AlterStep(D, A, change, f, o)
  BY AlterSteps
<1> HIDE DEF o
<1>1. /\ name \in Names /\ dict.mode = "storage" /\ grn \in Objs /\ lexicon \in Lex
      /\ grn[name].table = TRUE /\ dict.cols \subseteq grn[name].cols
      /\ dict \in [mode : {"storage"}, name : {name}, keys : SUBSET Keys, cols : SUBSET Columns]
      /\ exact \subseteq dict.keys /\ TypesOK
      /\ grn[name].cols \in SUBSET Columns
  BY <1>0 DEF AlterStep, TypeInv, ModeOK, TypesOK, Objs, StorageOpens, name
<1>2. /\ SupportedInplace(D, A) /\ change \in ColumnChanges
      /\ \E F : MayFail(f, F)
      /\ mishaps' = Counted(f)
      /\ grn' = o.grn /\ lexicon' = o.lexicon
      /\ UNCHANGED <<ref, rec>>
      /\ o.error => /\ Survives(o, P, exact \ D)
                    /\ dict' = dict
                    /\ torn' = torn \cup AlterTorn(D, change, f, o)
      /\ ~o.error =>
           /\ Survives(o, Q, E)
           /\ dict' = [dict EXCEPT !.keys = (@ \ D) \cup A, !.cols = ChangeColumns(@, change)]
  BY <1>0 DEF AlterStep
<1>3. mishaps' \in 0 .. MaxMishaps
  BY <1>1, <1>2, CountedFacts
<1>4. PostOK(P) /\ PostOK(Q)
  BY <1>1, EmptiedTypes, AddMultipleTypes DEF TypesOK, PostOK
<1>5. A \subseteq Keys /\ Added(A) \subseteq A
  BY <1>2, StorageAssumption DEF SupportedInplace, Added
<1>6. /\ ChangeColumns(grn[name].cols, change) \subseteq Columns
      /\ ChangeColumns(dict.cols, change) \subseteq ChangeColumns(grn[name].cols, change)
      /\ change[1] \in {"none", "add"} => dict.cols \subseteq ChangeColumns(grn[name].cols, change)
      /\ change = <<"none">> => change[1] = "none"
  BY <1>1, <1>2, ChangeFacts
<1>7. /\ Dropped(D) \in Objs /\ DroppedLex(D) \in Lex /\ Altered(D, change) \in Objs
      /\ Altered(D, change)[name].cols = ChangeColumns(grn[name].cols, change)
      /\ Dropped(D)[name].cols = grn[name].cols
      /\ Dropped(D)[name].table <=> grn[name].table
      /\ Altered(D, change)[name].table <=> grn[name].table
  BY <1>1, <1>2, AlteredFacts DEF ColumnsAltered
<1>8. Altered(D, change)[name].table = TRUE /\ Dropped(D)[name].table = TRUE
  BY <1>1, <1>7 DEF Objs
<1>9. CASE AlterFailed(D, change, f)
  <2>1. o.grn = Dropped(D) /\ o.lexicon = DroppedLex(D) /\ o.error = TRUE
    BY <1>9 DEF o, AlterOutcome, Objects
  <2> HIDE DEF o, P, Q, E
  <2> QED
    BY <1>1, <1>2, <1>3, <1>4, <1>7, <1>8, <2>1, StorageDdlTypes
<1>10. CASE ~AlterFailed(D, change, f)
  <2> DEFINE g == Altered(D, change)
             l == DroppedLex(D)
             tried == Tried(Added(A))
             c == storage_create_index(g, l, name, tried, f)
             made == Made(g, l, name, tried, f)
  <2>1. o = storage_inplace_alter_table_add_index(g, l, Added(A), f)
    BY <1>10 DEF o, AlterOutcome
  <2>0. IndexAdded(g, l, Added(A), f, o, c, made)
    BY <1>1, <1>7, <1>8, <2>1, AddIndexFacts
  <2>2. /\ IndexCreated(g, l, name, tried, f, c, made)
        /\ o.grn \in Objs /\ o.lexicon \in Lex /\ o.error \in BOOLEAN
        /\ c.error => o.error
        /\ o.grn[name].table <=> c.grn[name].table
        /\ o.grn[name].cols = c.grn[name].cols
    BY <1>1, <2>0 DEF IndexAdded
  <2> HIDE DEF o, P, Q, E, c, made
  <2>3. /\ ~o.grn[name].table => o.error
        /\ o.grn[name].table => o.grn[name].cols = ChangeColumns(grn[name].cols, change)
    BY <1>1, <1>7, <2>2 DEF IndexCreated
  <2>4. CASE o.error
    <3>1. "table" \in torn' \/ (o.grn[name].table /\ dict.cols \subseteq o.grn[name].cols)
      BY <1>2, <1>6, <1>10, <2>3, <2>4 DEF AlterTorn, LossOf
    <3> QED
      BY <1>1, <1>2, <1>3, <1>4, <2>2, <2>4, <3>1, StorageDdlTypes
  <2>5. CASE ~o.error
    <3>1. /\ dict'.cols = ChangeColumns(dict.cols, change)
          /\ dict'.keys = (dict.keys \ D) \cup A
          /\ dict' \in [mode : {"storage"}, name : {name}, keys : SUBSET Keys,
                        cols : SUBSET Columns]
      BY <1>1, <1>2, <1>5, <1>6, <2>5
    <3>2. E \subseteq dict'.keys
      BY <1>1, <1>5, <3>1 DEF E
    <3> QED
      BY <1>1, <1>2, <1>3, <1>4, <1>6, <2>2, <2>3, <2>5, <3>1, <3>2, StorageDdlTypes
  <2> QED
    BY <2>2, <2>4, <2>5
<1> QED
  BY <1>9, <1>10

\* Every statement preserves the types and TableOpens.
LEMMA TypeStep == TypeInv /\ [Next]_vars => TypeInv'
<1> SUFFICES ASSUME TypeInv, [Next]_vars PROVE TypeInv'
  OBVIOUS
<1>1. CASE create
  BY <1>1, WrapperCreateTypes, StorageCreateTypes DEF create
<1>2. CASE delete_table
  BY <1>2, DeleteTypes DEF delete_table
<1>3. CASE rename_table
  BY <1>3, WrapperRenameTypes, StorageRenameTypes DEF rename_table
<1>4. CASE write_row
  BY <1>4, WrapperRowsTypes, StorageRowsTypes DEF write_row
<1>5. CASE update_row
  BY <1>5, WrapperRowsTypes, StorageRowsTypes DEF update_row
<1>6. CASE delete_row
  BY <1>6, WrapperRowsTypes, StorageRowsTypes DEF delete_row
<1>7. CASE delete_all_rows \/ truncate
  BY <1>7, WrapperRowsTypes, StorageRowsTypes DEF delete_all_rows, truncate
<1>8. CASE disable_indexes
  BY <1>8, DisableTypes DEF disable_indexes
<1>9. CASE enable_indexes
  BY <1>9, WrapperEnableTypes, StorageEnableTypes DEF enable_indexes
<1>10. CASE repair
  BY <1>10, WrapperRepairTypes, StorageRepairTypes DEF repair
<1>11. CASE inplace_alter_table
  BY <1>11, WrapperAlterTypes, StorageAlterTypes DEF inplace_alter_table
<1>12. CASE create_lexicon
  <2>1. lexicon' \in Lex /\ UNCHANGED <<dict, grn, ref, rows, rec, post, exact, torn, mishaps>>
    BY <1>12 DEF create_lexicon, Lex
  <2> QED
    BY <2>1 DEF TypeInv, TypesOK, RowsOK, ModeOK, TableOpens, WrapperOpens, StorageOpens, name
<1>13. CASE UNCHANGED vars
  BY <1>13 DEF vars, TypeInv, TypesOK, RowsOK, ModeOK, TableOpens, WrapperOpens, StorageOpens, name
<1> QED
  BY <1>1, <1>2, <1>3, <1>4, <1>5, <1>6, <1>7, <1>8, <1>9, <1>10, <1>11, <1>12, <1>13 DEF Next

\* They hold at the start.
LEMMA TypeInit == Init => TypeInv
<1> SUFFICES ASSUME Init PROVE TypeInv
  OBVIOUS
<1>1. TypesOK
  BY ObjectsAssumption DEF Init, TypesOK, NoTable, NoObjects, Objs, Lex, IndexStates
<1>2. RowsOK
  BY NoRows DEF Init, RowsOK
<1>3. ModeOK /\ TableOpens
  BY DEF Init, ModeOK, TableOpens, NoTable
<1> QED
  BY <1>1, <1>2, <1>3 DEF TypeInv

\* Every variable has its type, whatever statements run and whichever of their
\* Groonga calls fail: the record IDs of wrapper mode stay one to one with the
\* primary keys through wrapper_update_row_index and wrapper_fill_indexes, and
\* an index that must answer is one of the table's.
THEOREM SchemaTypeCorrect == Spec => []SchemaTypeOK
<1>1. TypeInv => SchemaTypeOK
  BY DEF TypeInv, TypesOK, RowsOK, SchemaTypeOK, Objs, Lex
<1> QED
  BY <1>1, TypeInit, TypeStep, PTL DEF Spec

\* wrapper_open and storage_open find the table and its columns after every
\* sequence of DDL, unless a statement that failed half-way says otherwise:
\* storage_create_index removes the Groonga table when an index table cannot
\* be made, and every caller that goes on with the dictionary as it was is
\* one that reports the error.
THEOREM TableOpensCorrect == Spec => []TableOpens
<1>1. TypeInv => TableOpens
  BY DEF TypeInv
<1> QED
  BY <1>1, TypeInit, TypeStep, PTL DEF Spec
-----------------------------------------------------------------------------
(* What is left behind.                                                    *)

\* Nothing in Groonga is named after n.
Bare(g, n) == ~g[n].table /\ g[n].cols = {} /\ \A k \in Keys : g[n].index[k] = "none"

\* The objects are those of the table in the dictionary: no other name has
\* any, and an index table that is there has its index column, is of one of
\* the table's keys and is not a lexicon's.
Own(d, g) ==
    /\ \A n \in Names \ {d.name} : Bare(g, n)
    /\ g[d.name].table
    /\ \A k \in Keys : \/ g[d.name].index[k] = "none"
                       \/ g[d.name].index[k] = "full" /\ k \in d.keys \ Lexicon

Clean(d, g, l, r) ==
    /\ d.mode = "none" => (\A n \in Names : Bare(g, n)) /\ l.cols = {} /\ r = {}
    /\ d.mode # "none" => Own(d, g) /\ r \subseteq {d.name}
    /\ d.mode = "wrapper" => l.cols = {} /\ r = {} /\ g[d.name].cols = {}

\* DROP TABLE forgets that a column was lost ("table"), so that the invariant
\* holds of such a table as well.
CleanOK == torn \subseteq {"table"} => Clean(dict, grn, lexicon, ref)

\* Bare is NoObjects, field by field.
LEMMA BareIsNoObjects ==
    ASSUME NEW g \in Objs, NEW n \in Names
    PROVE  Bare(g, n) <=> g[n] = NoObjects
  BY DEF Bare, Objs, NoObjects, IndexStates

\* CREATE TABLE of wrapper mode.
LEMMA WrapperCreateClean ==
    ASSUME TypeInv, CleanOK, NEW n \in Names, NEW f, NEW K, wrapper_create(n, K, f)
    PROVE  CleanOK'
<1> DEFINE c == wrapper_create_index(grn, n, K, f)
<1>1. /\ c.grn \in Objs /\ c.error \in BOOLEAN
      /\ \A m \in Names :
           /\ c.grn[m].cols = grn[m].cols
           /\ c.grn[m].table <=> grn[m].table \/ (m = n /\ ~c.error)
           /\ \A k \in Keys : c.grn[m].index[k] =
                IF ~c.error /\ m = n /\ k \in K /\ grn[m].index[k] = "none"
                    /\ f # <<"index_table", k>>
                THEN IF f = <<"index_column", k>> THEN "table" ELSE "full"
                ELSE grn[m].index[k]
  BY WrapperIndexFacts DEF TypeInv, TypesOK
<1> SUFFICES ASSUME torn' \subseteq {"table"} PROVE Clean(dict', grn', lexicon', ref')
  BY DEF CleanOK
<1>2. /\ dict.mode = "none" /\ K \subseteq WrapperKeys
      /\ torn \subseteq {"table"}
      /\ lexicon' = lexicon /\ ref' = ref
  BY DEF wrapper_create, Torn
<1>3. (\A m \in Names : Bare(grn, m)) /\ lexicon.cols = {} /\ ref = {}
  BY <1>2 DEF CleanOK, Clean
<1>4. CASE c.error
  <2>1. grn' = c.grn /\ dict' = dict
    BY <1>4 DEF wrapper_create
  <2>2. \A m \in Names : Bare(grn', m)
    BY <1>1, <1>3, <1>4, <2>1 DEF Bare
  <2> QED
    BY <1>2, <1>3, <2>1, <2>2 DEF Clean
<1>5. CASE ~c.error /\ f = <<"wrapped", 0>>
  <2>1. grn' = generic_delete_table(c.grn, n, {}) /\ dict' = dict
    BY <1>5 DEF wrapper_create
  <2> HIDE DEF c
  <2>2. c.grn[n].table
    BY <1>1, <1>5
  <2>3. \A m \in Names :
           /\ grn'[m].table <=> ~(m = n) /\ c.grn[m].table
           /\ grn'[m].cols = IF m = n THEN {} ELSE c.grn[m].cols
           /\ \A k \in Keys : grn'[m].index[k] =
                   IF m = n /\ c.grn[m].index[k] = "full" THEN "none"
                   ELSE c.grn[m].index[k]
    BY <1>1, <2>1, <2>2, DeleteTableFacts
  <2>4. \A k : f # <<"index_column", k>>
    BY <1>5
  <2>5. \A m \in Names : Bare(grn', m)
    BY <1>1, <1>3, <1>5, <2>3, <2>4 DEF Bare
  <2> QED
    BY <1>2, <1>3, <2>1, <2>5 DEF Clean
<1>6. CASE ~c.error /\ f # <<"wrapped", 0>>
  <2>1. f # <<"handler", 0>> /\ CreateFails(grn, n, K, f) = {}
    BY <1>6 DEF wrapper_create, Torn
  <2>2. grn' = c.grn /\ dict' = [mode |-> "wrapper", name |-> n, keys |-> K, cols |-> {}]
    BY <1>6, <2>1 DEF wrapper_create
  <2> HIDE DEF c
  <2>3. \A k \in K : f # <<"index_column", k>>
    BY <2>1 DEF CreateFails
  <2>4. Own(dict', grn')
    BY <1>1, <1>2, <1>3, <1>6, <2>2, <2>3, WrapperAssumption DEF Own, Bare
  <2>5. grn'[n].cols = {}
    BY <1>1, <1>3, <2>2 DEF Bare
  <2> QED
    BY <1>2, <1>3, <2>2, <2>4, <2>5 DEF Clean
<1> QED
  BY <1>1, <1>4, <1>5, <1>6

\* CREATE TABLE of storage mode: what fails takes the table away again.
LEMMA StorageCreateClean ==
    ASSUME TypeInv, CleanOK, NEW n \in Names, NEW f, NEW K, storage_create(n, K, f)
    PROVE  CleanOK'
<1> DEFINE with == [grn EXCEPT ![n].table = TRUE]
           c == storage_create_indexes(with, lexicon, n, K, f)
           o == storage_create_index(with, lexicon, n, K, f)
           made == Made(with, lexicon, n, K, f)
<1>1. /\ with \in Objs /\ with[n].table = TRUE /\ lexicon \in Lex
      /\ \A m \in Names :
           /\ m # n => with[m].table = grn[m].table
           /\ with[m].cols = grn[m].cols
           /\ with[m].index = grn[m].index
  BY DEF TypeInv, TypesOK, Objs
<1> HIDE DEF with
<1>2. /\ IndexCreated(with, lexicon, n, K, f, o, made)
      /\ IndexesCreated(n, c, o, made)
  BY <1>1, StorageIndexFacts, StorageIndexesFacts
<1> HIDE DEF o, made
<1> SUFFICES ASSUME torn' \subseteq {"table"} PROVE Clean(dict', grn', lexicon', ref')
  BY DEF CleanOK
<1>3. /\ dict.mode = "none" /\ torn' = torn
      /\ \/ /\ dict' = dict /\ ref' = ref
            /\ \/ grn' = grn /\ lexicon' = lexicon
               \/ /\ grn' = RemoveTable(c.grn, n, K) /\ c.error
                  /\ lexicon' = [c.lexicon EXCEPT !.cols = {}]
         \/ /\ dict' = [mode |-> "storage", name |-> n, keys |-> K, cols |-> {}]
            /\ grn' = c.grn /\ ~c.error
            /\ ref' \subseteq {n}
  BY DEF storage_create, c, with
<1> HIDE DEF c
<1>4. (\A m \in Names : Bare(grn, m)) /\ lexicon.cols = {} /\ ref = {}
  BY <1>3 DEF CleanOK, Clean
<1>5. \A m \in Names : /\ m # n => ~with[m].table
                       /\ with[m].cols = {}
                       /\ \A k \in Keys : with[m].index[k] = "none"
  BY <1>1, <1>4 DEF Bare
<1>6. CASE grn' = grn /\ lexicon' = lexicon /\ dict' = dict /\ ref' = ref
  BY <1>3, <1>4, <1>6 DEF Clean
<1>7. CASE /\ dict' = dict /\ ref' = ref
           /\ grn' = RemoveTable(c.grn, n, K) /\ c.error
           /\ lexicon' = [c.lexicon EXCEPT !.cols = {}]
  <2>1. /\ c.grn \in Objs /\ c.lexicon \in Lex
        /\ \A m \in Names :
             /\ m # n => ~c.grn[m].table
             /\ c.grn[m].cols = {}
             /\ \A k \in Keys : c.grn[m].index[k] = "none"
    BY <1>2, <1>5, <1>7 DEF IndexesCreated, IndexCreated
  <2>2. \A m \in Names : Bare(grn', m)
    BY <1>7, <2>1, RemoveTableFacts DEF Bare
  <2>3. lexicon'.cols = {}
    BY <1>7, <2>1 DEF Lex
  <2> QED
    BY <1>3, <1>4, <1>7, <2>2, <2>3 DEF Clean
<1>8. CASE /\ dict' = [mode |-> "storage", name |-> n, keys |-> K, cols |-> {}]
           /\ grn' = c.grn /\ ~c.error
           /\ ref' \subseteq {n}
  <2>1. /\ c.grn = o.grn /\ ~o.error /\ made = K \ Foreign /\ o.grn[n].table
    BY <1>2, <1>8 DEF IndexesCreated, IndexCreated
  <2>2. \A m \in Names :
           /\ m # n => Bare(o.grn, m)
           /\ \A k \in Keys : o.grn[m].index[k] =
                IF m = n /\ k \in made \ Lexicon THEN "full" ELSE "none"
    BY <1>2, <1>5, <2>1 DEF IndexCreated, Bare
  <2>3. Own(dict', grn')
    BY <1>8, <2>1, <2>2 DEF Own
  <2> QED
    BY <1>8, <2>3 DEF Clean
<1> QED
  BY <1>3, <1>6, <1>7, <1>8

\* DROP TABLE: drop_indexes finds all the index tables.
LEMMA DeleteClean ==
    ASSUME TypeInv, CleanOK, wrapper_delete_table \/ storage_delete_table
    PROVE  CleanOK'
<1> SUFFICES ASSUME torn' \subseteq {"table"} PROVE Clean(dict', grn', lexicon', ref')
  BY DEF CleanOK
<1>1. /\ torn' = torn \ {"table"} /\ dict.mode # "none" /\ dict' = NoTable
      /\ \E K : grn' = generic_delete_table(grn, name, K)
      /\ \/ dict.mode = "wrapper" /\ lexicon' = lexicon /\ ref' = ref
         \/ lexicon' = [lexicon EXCEPT !.cols = {}] /\ ref' = {}
  BY DEF wrapper_delete_table, storage_delete_table
<1>2. torn \subseteq {"table"}
  BY <1>1
<1>3. /\ name \in Names /\ Own(dict, grn) /\ grn \in Objs /\ lexicon \in Lex
      /\ dict.mode = "wrapper" => lexicon.cols = {} /\ ref = {}
  BY <1>1, <1>2 DEF CleanOK, Clean, TypeInv, ModeOK, TypesOK
<1>4. PICK K : grn' = generic_delete_table(grn, name, K)
  BY <1>1
<1>5. \A m \in Names :
         /\ grn'[m].table <=> ~(m = name) /\ grn[m].table
         /\ grn'[m].cols = IF m = name THEN {} ELSE grn[m].cols
         /\ \A k \in Keys : grn'[m].index[k] =
                 IF m = name /\ grn[m].index[k] = "full" THEN "none"
                 ELSE IF k \in K /\ grn[m].index[k] = "full" THEN "table"
                 ELSE grn[m].index[k]
  BY <1>3, <1>4, DeleteTableFacts DEF Own, name
<1>6. \A m \in Names : Bare(grn', m)
  BY <1>3, <1>5 DEF Own, Bare, name
<1>7. lexicon'.cols = {} /\ ref' = {}
  BY <1>1, <1>3 DEF Lex
<1> QED
  BY <1>1, <1>6, <1>7 DEF Clean, NoTable

\* RENAME TABLE: the objects move one by one, all of them when none fails.
LEMMA RenameClean ==
    ASSUME TypeInv, CleanOK, NEW to \in Names, NEW f,
           wrapper_rename_table(to, f) \/ storage_rename_table(to, f)
    PROVE  CleanOK'
<1> DEFINE own == dict.keys \ Lexicon
           moved == MoveIndex(grn, name, to, own)
<1> SUFFICES ASSUME torn' \subseteq {"table"} PROVE Clean(dict', grn', lexicon', ref')
  BY DEF CleanOK
<1>1. /\ name \in Names /\ to # name /\ dict.mode # "none" /\ grn \in Objs
      /\ dict.mode = "wrapper" => own = dict.keys
      /\ dict \in [mode : {"none", "wrapper", "storage"}, name : Names \cup {NoName},
                   keys : SUBSET Keys, cols : SUBSET Columns]
  BY WrapperAssumption
     DEF TypeInv, ModeOK, TypesOK, wrapper_rename_table, storage_rename_table
<1>2. /\ torn' = torn /\ lexicon' = lexicon
      /\ ref' = ref \/ ref' = {to}
      /\ ref # {} => ref' = {to} \/ dict.mode = "wrapper"
      /\ dict.mode = "wrapper" => ref' = ref
      /\ dict' = [dict EXCEPT !.name = to]
      /\ \/ /\ grn' = [moved EXCEPT ![to].table = TRUE, ![name].table = FALSE]
            /\ dict.mode = "wrapper"
         \/ /\ grn' = [moved EXCEPT ![to].table = TRUE, ![to].cols = grn[name].cols,
                                    ![name].table = FALSE, ![name].cols = {}]
            /\ dict.mode # "wrapper"
  <2>1. CASE wrapper_rename_table(to, f)
    <3>1. RenameFails(name, to, dict.keys, f) = {}
      BY <2>1 DEF wrapper_rename_table, Torn
    <3>2. Before(dict.keys, RenameFails(name, to, dict.keys, f)) = dict.keys
      BY <3>1 DEF Before
    <3> QED
      BY <1>1, <2>1, <3>2 DEF wrapper_rename_table, Torn
  <2>2. CASE storage_rename_table(to, f)
    <3>0. "name" \notin torn'
      OBVIOUS
    <3>1. RenameFails(name, to, own, f) = {}
      BY <2>2, <3>0 DEF storage_rename_table, Torn
    <3>2. Before(own, RenameFails(name, to, own, f)) = own
      BY <3>1 DEF Before
    <3> QED
      BY <1>1, <2>2, <3>1, <3>2 DEF storage_rename_table, Torn
  <2> QED
    BY <2>1, <2>2
<1>3. /\ Own(dict, grn) /\ ref \subseteq {name}
      /\ dict.mode = "wrapper" => lexicon.cols = {} /\ ref = {} /\ grn[name].cols = {}
  BY <1>1, <1>2 DEF CleanOK, Clean, name
<1>4. /\ moved \in Objs
      /\ \A m \in Names :
           /\ moved[m].table <=> grn[m].table
           /\ moved[m].cols = grn[m].cols
           /\ \A k \in Keys : moved[m].index[k] =
                IF m = name /\ k \in own THEN "none"
                ELSE IF m = to /\ k \in own /\ grn[name].index[k] # "none"
                THEN grn[name].index[k] ELSE grn[m].index[k]
  BY <1>1, MoveIndexFacts
<1> HIDE DEF moved
<1>5. /\ dict'.mode = dict.mode /\ dict'.name = to /\ dict'.keys = dict.keys
  BY <1>1, <1>2
<1>6. /\ \A m \in Names \ {to, name} : grn'[m] = moved[m]
      /\ ~grn'[name].table /\ grn'[name].cols = {} /\ grn'[name].index = moved[name].index
      /\ grn'[to].table /\ grn'[to].index = moved[to].index
      /\ dict.mode = "wrapper" => grn'[to].cols = {}
  <2>1. CASE /\ dict.mode = "wrapper"
             /\ grn' = [moved EXCEPT ![to].table = TRUE, ![name].table = FALSE]
    <3>1. moved[name].cols = {} /\ moved[to].cols = {}
      BY <1>1, <1>3, <1>4, <2>1 DEF Own, Bare, name
    <3> DEFINE g == [moved EXCEPT ![to].table = TRUE]
    <3>2. /\ g \in Objs /\ g[to].table /\ g[to].cols = {} /\ g[to].index = moved[to].index
          /\ \A m \in Names \ {to} : g[m] = moved[m]
      BY <1>4, <3>1 DEF Objs
    <3>3. grn' = [g EXCEPT ![name].table = FALSE]
      BY <1>1, <1>4, <2>1 DEF Objs
    <3> HIDE DEF g
    <3> QED
      BY <1>1, <3>1, <3>2, <3>3 DEF Objs
  <2>2. CASE /\ dict.mode # "wrapper"
             /\ grn' = [moved EXCEPT ![to].table = TRUE, ![to].cols = grn[name].cols,
                                     ![name].table = FALSE, ![name].cols = {}]
    BY <1>1, <1>4, <2>2 DEF Objs
  <2> QED
    BY <1>2, <2>1, <2>2
<1>7. \A m \in Names \ {to} : Bare(grn', m)
  <2>1. Bare(grn', name)
    BY <1>1, <1>3, <1>4, <1>6 DEF Own, Bare, name
  <2>2. \A m \in Names \ {to, name} : Bare(grn', m)
    BY <1>3, <1>4, <1>6 DEF Own, Bare, name
  <2> QED
    BY <2>1, <2>2
<1>8. \A k \in Keys : \/ grn'[to].index[k] = "none"
                      \/ grn'[to].index[k] = "full" /\ k \in dict.keys \ Lexicon
  <2>1. \A k \in Keys :
           /\ grn[to].index[k] = "none"
           /\ \/ grn[name].index[k] = "none"
              \/ grn[name].index[k] = "full" /\ k \in own
    BY <1>1, <1>3 DEF Own, Bare, name
  <2> HIDE DEF own
  <2>2. \A k \in Keys : moved[to].index[k] = "none" \/ (moved[to].index[k] = "full" /\ k \in own)
    BY <1>1, <1>4, <2>1
  <2> QED
    BY <1>6, <2>2 DEF own
<1>9. Own(dict', grn')
  BY <1>5, <1>6, <1>7, <1>8 DEF Own
<1> QED
  BY <1>1, <1>2, <1>3, <1>5, <1>6, <1>9 DEF Clean

\* A statement that keeps the dictionary's name and mode, and all other names.
LEMMA KeptClean ==
    ASSUME TypeInv, CleanOK, torn \subseteq {"table"}, dict.mode # "none",
           dict'.mode = dict.mode, dict'.name = dict.name,
           \A n \in Names \ {name} : Bare(grn, n) => Bare(grn', n),
           grn'[name].table, grn'[name].cols = grn[name].cols \/ dict.mode = "storage",
           \A k \in Keys : \/ grn'[name].index[k] = "none"
                           \/ grn'[name].index[k] = "full" /\ k \in dict'.keys \ Lexicon,
           ref' = ref, lexicon' = lexicon \/ dict.mode = "storage"
    PROVE  Clean(dict', grn', lexicon', ref')
<1>1. /\ Own(dict, grn) /\ ref \subseteq {name}
      /\ dict.mode = "wrapper" => lexicon.cols = {} /\ ref = {} /\ grn[name].cols = {}
  BY DEF CleanOK, Clean, name
<1>2. Own(dict', grn')
  BY <1>1 DEF Own, name
<1> QED
  BY <1>1, <1>2 DEF Clean, name

\* What CleanOK says of the table of the dictionary.
LEMMA OwnIndexes ==
    ASSUME TypeInv, CleanOK, torn \subseteq {"table"}, dict.mode # "none"
    PROVE  /\ name \in Names /\ grn \in Objs /\ lexicon \in Lex /\ grn[name].table = TRUE
           /\ \A k \in Keys : \/ grn[name].index[k] = "none"
                              \/ grn[name].index[k] = "full" /\ k \in dict.keys \ Lexicon
           /\ dict.mode = "wrapper" => dict.keys \ Lexicon = dict.keys
           /\ dict.keys \subseteq Keys
<1>1. name \in Names /\ grn \in Objs /\ lexicon \in Lex /\ dict.keys \subseteq Keys
  BY DEF TypeInv, ModeOK, TypesOK
<1>2. Own(dict, grn)
  BY DEF CleanOK, Clean
<1>3. dict.mode = "wrapper" => dict.keys \ Lexicon = dict.keys
  BY WrapperAssumption DEF TypeInv, ModeOK
<1> QED
  BY <1>1, <1>2, <1>3 DEF Own, Objs, name

\* DISABLE KEYS.
LEMMA DisableClean ==
    ASSUME TypeInv, CleanOK, wrapper_disable_indexes \/ storage_disable_indexes
    PROVE  CleanOK'
<1> SUFFICES ASSUME torn' \subseteq {"table"} PROVE Clean(dict', grn', lexicon', ref')
  BY DEF CleanOK
<1>1. PICK K : grn' = SetIndex(grn, name, K, "none")
  BY DEF wrapper_disable_indexes, storage_disable_indexes
<1>2. /\ torn \subseteq {"table"} /\ dict.mode # "none" /\ UNCHANGED <<dict, ref>>
      /\ lexicon' = lexicon \/ dict.mode = "storage"
  BY DEF wrapper_disable_indexes, storage_disable_indexes, WrapperOpens, StorageOpens
<1>3. /\ name \in Names /\ grn \in Objs /\ grn[name].table = TRUE
      /\ \A k \in Keys : \/ grn[name].index[k] = "none"
                         \/ grn[name].index[k] = "full" /\ k \in dict.keys \ Lexicon
  BY <1>2, OwnIndexes
<1>4. \A m \in Names :
         /\ grn'[m].table <=> grn[m].table
         /\ grn'[m].cols = grn[m].cols
         /\ \A k \in Keys : grn'[m].index[k] =
              IF m = name /\ k \in K THEN "none" ELSE grn[m].index[k]
  BY <1>1, <1>3, SetIndexFacts DEF IndexStates
<1>5. \A n \in Names \ {name} : Bare(grn, n) => Bare(grn', n)
  BY <1>4 DEF Bare
<1> QED
  BY <1>2, <1>3, <1>4, <1>5, KeptClean

\* ENABLE KEYS of wrapper mode.
LEMMA WrapperEnableClean ==
    ASSUME TypeInv, CleanOK, NEW f, wrapper_enable_indexes(f)
    PROVE  CleanOK'
<1> DEFINE missing == {k \in dict.keys : ~IndexColumn(k)}
           bad == CreateFails(grn, name, missing, f)
           tried == UpToFirst(missing, bad)
<1> SUFFICES ASSUME torn' \subseteq {"table"} PROVE Clean(dict', grn', lexicon', ref')
  BY DEF CleanOK
<1>1. "index" \notin torn'
  OBVIOUS
<1>2. bad = {}
  BY <1>1 DEF wrapper_enable_indexes, Torn
<1>3. /\ torn \subseteq {"table"} /\ dict.mode = "wrapper" /\ UNCHANGED <<dict, lexicon, ref>>
      /\ grn' = wrapper_create_index_fulltext(grn, name, tried, f)
  BY DEF wrapper_enable_indexes, WrapperOpens, Torn
<1>4. /\ name \in Names /\ grn \in Objs /\ grn[name].table = TRUE
      /\ \A k \in Keys : \/ grn[name].index[k] = "none"
                         \/ grn[name].index[k] = "full" /\ k \in dict.keys
      /\ dict.keys \ Lexicon = dict.keys
  BY <1>3, OwnIndexes
<1>5. tried \subseteq dict.keys /\ \A k \in tried : f # <<"index_column", k>>
  BY <1>2 DEF UpToFirst, CreateFails
<1> HIDE DEF tried
<1>6. \A m \in Names :
         /\ grn'[m].table <=> grn[m].table
         /\ grn'[m].cols = grn[m].cols
         /\ \A k \in Keys : grn'[m].index[k] =
              IF m = name /\ k \in tried /\ grn[m].index[k] = "none" /\ f # <<"index_table", k>>
              THEN IF f = <<"index_column", k>> THEN "table" ELSE "full"
              ELSE grn[m].index[k]
  BY <1>3, <1>4, FulltextFacts
<1>7. \A n \in Names \ {name} : Bare(grn, n) => Bare(grn', n)
  BY <1>6 DEF Bare
<1>8. \A k \in Keys : \/ grn'[name].index[k] = "none"
                      \/ grn'[name].index[k] = "full" /\ k \in dict.keys
  BY <1>4, <1>5, <1>6
<1> QED
  BY <1>3, <1>4, <1>6, <1>7, <1>8, KeptClean

\* REPAIR TABLE of wrapper mode.
LEMMA WrapperRepairClean ==
    ASSUME TypeInv, CleanOK, NEW f, wrapper_repair(f)
    PROVE  CleanOK'
<1> DEFINE g == remove_grn_obj_force(grn, name, dict.keys)
           gone == [g EXCEPT ![name].table = FALSE]
           c == wrapper_create_index(gone, name, dict.keys, f)
           made == {k \in dict.keys : c.grn[name].index[k] = "full"}
<1> SUFFICES ASSUME torn' \subseteq {"table"} PROVE Clean(dict', grn', lexicon', ref')
  BY DEF CleanOK
<1>1. "index" \notin torn'
  OBVIOUS
<1>2. /\ ~c.error /\ made = dict.keys /\ torn' = torn \ {"table"} /\ grn' = c.grn
      /\ dict.mode = "wrapper" /\ UNCHANGED <<dict, lexicon, ref>>
  BY <1>1 DEF wrapper_repair, Torn
<1>3. torn \subseteq {"table"}
  BY <1>2
<1>4. /\ name \in Names /\ grn \in Objs /\ grn[name].table = TRUE
      /\ \A k \in Keys : \/ grn[name].index[k] = "none"
                         \/ grn[name].index[k] = "full" /\ k \in dict.keys
      /\ dict.keys \ Lexicon = dict.keys
  BY <1>2, <1>3, OwnIndexes
<1>5. /\ g \in Objs
      /\ \A m \in Names :
           /\ g[m].table <=> grn[m].table
           /\ g[m].cols = grn[m].cols
           /\ \A k \in Keys : g[m].index[k] =
                IF m = name /\ k \in dict.keys THEN "none" ELSE grn[m].index[k]
  BY <1>4, SetIndexFacts DEF remove_grn_obj_force, IndexStates
<1> HIDE DEF g
<1>6. /\ gone \in Objs
      /\ \A m \in Names : /\ gone[m].table <=> m # name /\ grn[m].table
                          /\ gone[m].cols = grn[m].cols
                          /\ gone[m].index = g[m].index
  <2>0. name \in Names /\ g \in Objs
    BY <1>4, <1>5
  <2>1. /\ gone \in Objs
        /\ gone[name].table = FALSE /\ gone[name].cols = g[name].cols
        /\ gone[name].index = g[name].index
        /\ \A m \in Names \ {name} : gone[m] = g[m]
    BY <2>0 DEF Objs
  <2> HIDE DEF gone
  <2> QED
    BY <1>4, <1>5, <2>1
<1> HIDE DEF gone
<1>7. \A m \in Names :
        /\ c.grn[m].cols = gone[m].cols
        /\ c.grn[m].table <=> gone[m].table \/ (m = name /\ ~c.error)
        /\ \A k \in Keys : c.grn[m].index[k] =
             IF ~c.error /\ m = name /\ k \in dict.keys /\ gone[m].index[k] = "none"
                 /\ f # <<"index_table", k>>
             THEN IF f = <<"index_column", k>> THEN "table" ELSE "full"
             ELSE gone[m].index[k]
  BY <1>4, <1>6, WrapperIndexFacts
<1>8. \A k \in dict.keys : grn'[name].index[k] = "full"
  BY <1>2
<1> HIDE DEF c, made
<1>9. \A n \in Names \ {name} : Bare(grn, n) => Bare(grn', n)
  BY <1>2, <1>5, <1>6, <1>7 DEF Bare
<1>10. \A k \in Keys : \/ grn'[name].index[k] = "none"
                       \/ grn'[name].index[k] = "full" /\ k \in dict.keys
  BY <1>2, <1>4, <1>5, <1>6, <1>7, <1>8
<1>11. grn'[name].table /\ grn'[name].cols = grn[name].cols
  BY <1>2, <1>4, <1>5, <1>6, <1>7
<1> QED
  BY <1>2, <1>3, <1>4, <1>9, <1>10, <1>11, KeptClean

\* ALTER TABLE of wrapper mode: an error takes back what was added.
LEMMA WrapperAlterClean ==
    ASSUME TypeInv, CleanOK, NEW D, NEW A, NEW f, wrapper_inplace_alter_table(D, A, f)
    PROVE  CleanOK'
<1> DEFINE add == IF disable_keys THEN {} ELSE A
           g == drop_index(grn, name, D)
           bad == CreateFails(g, name, add, f)
           tried == UpToFirst(add, bad)
           w == wrapper_create_index_fulltext(g, name, tried, f)
           back == {k \in tried : g[name].index[k] = "none"}
<1> SUFFICES ASSUME torn' \subseteq {"table"} PROVE Clean(dict', grn', lexicon', ref')
  BY DEF CleanOK
<1>1. "index" \notin torn'
  OBVIOUS
<1>2. /\ torn \subseteq {"table"} /\ dict.mode = "wrapper" /\ UNCHANGED <<lexicon, ref>>
      /\ A \subseteq WrapperKeys
      /\ \/ D = {} /\ grn' = SetIndex(w, name, back, "none") /\ dict' = dict
         \/ /\ bad = {} /\ grn' = wrapper_create_index_fulltext(g, name, add, f)
            /\ dict' = [dict EXCEPT !.keys = (@ \ D) \cup A]
  BY <1>1 DEF wrapper_inplace_alter_table, WrapperOpens, Torn
<1>3. /\ name \in Names /\ grn \in Objs /\ grn[name].table = TRUE
      /\ \A k \in Keys : \/ grn[name].index[k] = "none"
                         \/ grn[name].index[k] = "full" /\ k \in dict.keys
      /\ dict.keys \ Lexicon = dict.keys
  BY <1>2, OwnIndexes
<1>4. /\ g \in Objs
      /\ \A m \in Names :
           /\ g[m].table <=> grn[m].table
           /\ g[m].cols = grn[m].cols
           /\ \A k \in Keys : g[m].index[k] =
                IF m = name /\ k \in D \ Lexicon THEN "none" ELSE grn[m].index[k]
  BY <1>3, SetIndexFacts DEF drop_index, IndexStates
<1> HIDE DEF g
<1>5. \A T : LET v == wrapper_create_index_fulltext(g, name, T, f) IN
        /\ v \in Objs
        /\ \A m \in Names :
             /\ v[m].table <=> g[m].table
             /\ v[m].cols = g[m].cols
             /\ \A k \in Keys : v[m].index[k] =
                  IF m = name /\ k \in T /\ g[m].index[k] = "none" /\ f # <<"index_table", k>>
                  THEN IF f = <<"index_column", k>> THEN "table" ELSE "full"
                  ELSE g[m].index[k]
  BY <1>3, <1>4, FulltextFacts
<1>6. CASE D = {} /\ grn' = SetIndex(w, name, back, "none") /\ dict' = dict
  <2>1. /\ w \in Objs
        /\ \A m \in Names :
             /\ w[m].table <=> g[m].table
             /\ w[m].cols = g[m].cols
             /\ \A k \in Keys : (m = name /\ k \in back) \/ w[m].index[k] = g[m].index[k]
    BY <1>5
  <2> HIDE DEF w
  <2>2. \A m \in Names :
           /\ grn'[m].table <=> w[m].table
           /\ grn'[m].cols = w[m].cols
           /\ \A k \in Keys : grn'[m].index[k] =
                IF m = name /\ k \in back THEN "none" ELSE w[m].index[k]
    BY <1>3, <1>6, <2>1, SetIndexFacts DEF IndexStates
  <2>3. \A n \in Names \ {name} : Bare(grn, n) => Bare(grn', n)
    BY <1>4, <2>1, <2>2 DEF Bare
  <2>4. \A k \in Keys : \/ grn'[name].index[k] = "none"
                        \/ grn'[name].index[k] = "full" /\ k \in dict'.keys
    BY <1>3, <1>4, <1>6, <2>1, <2>2
  <2>5. grn'[name].table /\ grn'[name].cols = grn[name].cols
    BY <1>3, <1>4, <2>1, <2>2
  <2> QED
    BY <1>2, <1>3, <1>6, <2>3, <2>4, <2>5, KeptClean
<1>7. CASE /\ bad = {} /\ grn' = wrapper_create_index_fulltext(g, name, add, f)
           /\ dict' = [dict EXCEPT !.keys = (@ \ D) \cup A]
  <2>1. \A m \in Names :
           /\ grn'[m].table <=> g[m].table
           /\ grn'[m].cols = g[m].cols
           /\ \A k \in Keys : grn'[m].index[k] =
                IF m = name /\ k \in add /\ g[m].index[k] = "none" /\ f # <<"index_table", k>>
                THEN IF f = <<"index_column", k>> THEN "table" ELSE "full"
                ELSE g[m].index[k]
    BY <1>5, <1>7
  <2>2. /\ add \subseteq A /\ \A k \in add : f # <<"index_column", k>>
    BY <1>7 DEF CreateFails
  <2> HIDE DEF add
  <2>3. /\ dict'.keys = (dict.keys \ D) \cup A /\ dict'.mode = dict.mode
        /\ dict'.name = dict.name /\ dict'.keys \ Lexicon = dict'.keys
    BY <1>2, <1>3, <1>7, WrapperAssumption DEF TypeInv, TypesOK
  <2>4. \A n \in Names \ {name} : Bare(grn, n) => Bare(grn', n)
    BY <1>4, <2>1 DEF Bare
  <2>5. \A k \in Keys : \/ grn'[name].index[k] = "none"
                        \/ grn'[name].index[k] = "full" /\ k \in dict'.keys
    BY <1>3, <1>4, <2>1, <2>2, <2>3
  <2>6. grn'[name].table /\ grn'[name].cols = grn[name].cols
    BY <1>3, <1>4, <2>1
  <2> QED
    BY <1>2, <2>3, <2>4, <2>5, <2>6, KeptClean
<1> QED
  BY <1>2, <1>6, <1>7

\* A statement of storage mode that made the indexes of K, in objects g.
LEMMA StorageClean ==
    ASSUME TypeInv, CleanOK, torn \subseteq {"table"}, dict.mode = "storage",
           NEW g \in Objs, NEW l, NEW K, NEW f, NEW o, NEW made,
           IndexCreated(g, l, name, K, f, o, made), o.grn[name].table,
           \A n \in Names \ {name} : Bare(grn, n) => Bare(g, n),
           \A k \in Keys : \/ g[name].index[k] = "none"
                           \/ g[name].index[k] = "full" /\ k \in dict'.keys \ Lexicon,
           NEW h, h \in Objs,
           \A n \in Names : /\ h[n].table <=> o.grn[n].table
                            /\ h[n].cols = o.grn[n].cols
                            /\ \A k \in Keys : \/ h[n].index[k] = o.grn[n].index[k]
                                               \/ n = name /\ h[n].index[k] = "none",
           \A k \in Keys : k \in made \ Lexicon => k \in dict'.keys \/ h[name].index[k] = "none",
           grn' = h, dict'.mode = dict.mode, dict'.name = dict.name, ref' = ref
    PROVE  Clean(dict', grn', lexicon', ref')
<1>1. name \in Names
  BY OwnIndexes
<1>2. \A m \in Names :
         /\ o.grn[m].table <=> g[m].table
         /\ o.grn[m].cols = g[m].cols
         /\ \A k \in Keys : o.grn[m].index[k] =
              IF m = name /\ k \in made \ Lexicon THEN "full" ELSE g[m].index[k]
  BY DEF IndexCreated
<1>3. \A n \in Names \ {name} : Bare(grn, n) => Bare(grn', n)
  BY <1>2 DEF Bare
<1>4. \A k \in Keys : \/ grn'[name].index[k] = "none"
                      \/ grn'[name].index[k] = "full" /\ k \in dict'.keys \ Lexicon
  BY <1>1, <1>2
<1>5. grn'[name].table
  BY <1>1
<1> QED
  BY <1>3, <1>4, <1>5, KeptClean

\* ENABLE KEYS of storage mode.
LEMMA StorageEnableClean ==
    ASSUME TypeInv, CleanOK, NEW f, storage_enable_indexes(f)
    PROVE  CleanOK'
<1> DEFINE missing == {k \in dict.keys \ Unique : ~IndexColumn(k)}
           o == storage_create_index(grn, lexicon, name, missing, f)
           made == Made(grn, lexicon, name, missing, f)
<1> SUFFICES ASSUME torn' \subseteq {"table"} PROVE Clean(dict', grn', lexicon', ref')
  BY DEF CleanOK
<1>1. "index" \notin torn'
  OBVIOUS
<1>2. /\ ~o.error /\ torn' = torn /\ grn' = o.grn /\ UNCHANGED <<dict, ref>>
      /\ dict.mode = "storage"
  BY <1>1 DEF storage_enable_indexes, Torn, StorageOpens
<1>3. /\ name \in Names /\ grn \in Objs /\ lexicon \in Lex /\ grn[name].table = TRUE
      /\ \A k \in Keys : \/ grn[name].index[k] = "none"
                         \/ grn[name].index[k] = "full" /\ k \in dict.keys \ Lexicon
  BY <1>2, OwnIndexes
<1>4. missing \subseteq dict.keys
  OBVIOUS
<1> HIDE DEF missing
<1>5. IndexCreated(grn, lexicon, name, missing, f, o, made)
  BY <1>3, StorageIndexFacts
<1> HIDE DEF o, made
<1>6. o.grn \in Objs /\ o.grn[name].table /\ made \subseteq dict.keys
  BY <1>2, <1>4, <1>5 DEF IndexCreated
<1> QED
  BY <1>2, <1>3, <1>5, <1>6, StorageClean

\* REPAIR TABLE of storage mode.
LEMMA StorageRepairClean ==
    ASSUME TypeInv, CleanOK, NEW f, storage_recreate_indexes(f)
    PROVE  CleanOK'
<1> DEFINE gone == remove_grn_obj_force(grn, name, dict.keys \ Lexicon)
           c == storage_create_indexes(gone, lexicon, name, dict.keys, f)
           o == storage_create_index(gone, lexicon, name, dict.keys, f)
           made == Made(gone, lexicon, name, dict.keys, f)
<1> SUFFICES ASSUME torn' \subseteq {"table"} PROVE Clean(dict', grn', lexicon', ref')
  BY DEF CleanOK
<1>1. "index" \notin torn'
  OBVIOUS
<1>2. /\ ~c.error /\ torn' = torn /\ grn' = c.grn /\ UNCHANGED <<dict, ref>>
      /\ dict.mode = "storage"
  BY <1>1 DEF storage_recreate_indexes, Torn, StorageOpens
<1>3. /\ name \in Names /\ grn \in Objs /\ lexicon \in Lex /\ grn[name].table = TRUE
      /\ \A k \in Keys : \/ grn[name].index[k] = "none"
                         \/ grn[name].index[k] = "full" /\ k \in dict.keys \ Lexicon
  BY <1>2, OwnIndexes
<1>4. /\ gone \in Objs
      /\ \A m \in Names :
           /\ gone[m].table <=> grn[m].table
           /\ gone[m].cols = grn[m].cols
           /\ \A k \in Keys : gone[m].index[k] =
                IF m = name /\ k \in dict.keys \ Lexicon THEN "none" ELSE grn[m].index[k]
  BY <1>3, SetIndexFacts DEF remove_grn_obj_force, IndexStates
<1> HIDE DEF gone
<1>5. gone[name].table = TRUE
  BY <1>3, <1>4 DEF Objs
<1>6. /\ IndexCreated(gone, lexicon, name, dict.keys, f, o, made)
      /\ IndexesCreated(name, c, o, made)
  BY <1>3, <1>4, <1>5, StorageIndexFacts, StorageIndexesFacts
<1> HIDE DEF c, o, made
<1>7. /\ c.grn = o.grn /\ ~o.error /\ o.grn \in Objs
      /\ o.grn[name].table /\ made \subseteq dict.keys
  BY <1>2, <1>6 DEF IndexCreated, IndexesCreated
<1>8. \A n \in Names \ {name} : Bare(grn, n) => Bare(gone, n)
  BY <1>4 DEF Bare
<1>9. \A k \in Keys : \/ gone[name].index[k] = "none"
                      \/ gone[name].index[k] = "full" /\ k \in dict.keys \ Lexicon
  BY <1>3, <1>4
<1> QED
  BY <1>2, <1>4, <1>6, <1>7, <1>8, <1>9, StorageClean

\* ALTER TABLE of storage mode.
LEMMA StorageAlterClean ==
    ASSUME TypeInv, CleanOK, NEW D, NEW A, NEW change, NEW f,
           storage_inplace_alter_table(D, A, change, f)
    PROVE  CleanOK'
<1> DEFINE o == AlterOutcome(D, A, change, f)
<1>0. AlterStep(D, A, change, f, o)
  BY AlterSteps
<1> HIDE DEF o
<1> SUFFICES ASSUME torn' \subseteq {"table"} PROVE Clean(dict', grn', lexicon', ref')
  BY DEF CleanOK
<1>1. "index" \notin torn'
  OBVIOUS
<1>2. /\ dict.mode = "storage" /\ change \in ColumnChanges
      /\ grn' = o.grn /\ ref' = ref
      /\ o.error => torn' = torn \cup AlterTorn(D, change, f, o) /\ dict' = dict
      /\ ~o.error => /\ torn' = torn
                     /\ dict' = [dict EXCEPT !.keys = (@ \ D) \cup A,
                                             !.cols = ChangeColumns(@, change)]
  BY <1>0 DEF AlterStep, StorageOpens
<1>3. /\ torn \subseteq {"table"}
      /\ o.error => D = {} /\ o.grn[name].table
  BY <1>1, <1>2 DEF AlterTorn, LossOf
<1>4. /\ name \in Names /\ grn \in Objs /\ lexicon \in Lex /\ grn[name].table = TRUE
      /\ \A k \in Keys : \/ grn[name].index[k] = "none"
                         \/ grn[name].index[k] = "full" /\ k \in dict.keys \ Lexicon
  BY <1>2, <1>3, OwnIndexes
<1>5. /\ dict'.mode = dict.mode /\ dict'.name = dict.name
      /\ ~o.error => dict'.keys = (dict.keys \ D) \cup A
      /\ o.error => dict'.keys = dict.keys
  BY <1>2 DEF TypeInv, TypesOK
<1> DEFINE d == Dropped(D)
           g == Altered(D, change)
           l == DroppedLex(D)
<1>6. /\ d \in Objs /\ l \in Lex /\ g \in Objs
      /\ d[name].cols = grn[name].cols
      /\ \A m \in Names :
           /\ d[m].table <=> grn[m].table
           /\ g[m].table <=> grn[m].table
           /\ m # name => d[m].cols = grn[m].cols
           /\ m # name => g[m].cols = grn[m].cols
           /\ \A k \in Keys :
                /\ d[m].index[k] =
                     IF m = name /\ k \in D \ Lexicon THEN "none" ELSE grn[m].index[k]
                /\ g[m].index[k] = d[m].index[k]
  <2>1. TypesOK
    BY DEF TypeInv
  <2>2. ColumnsAltered(D, change, d, g, l)
    BY <1>2, <1>4, <2>1, AlteredFacts
  <2> QED
    BY <2>2 DEF ColumnsAltered
<1>7. o = IF AlterFailed(D, change, f) THEN Objects(d, l, TRUE)
          ELSE storage_inplace_alter_table_add_index(g, l, Added(A), f)
  BY DEF o, AlterOutcome
<1> HIDE DEF d, g, l
<1>8. /\ \A n \in Names \ {name} : Bare(grn, n) => Bare(d, n) /\ Bare(g, n)
      /\ \A k \in Keys :
           /\ \/ d[name].index[k] = "none"
              \/ d[name].index[k] = "full" /\ k \in (dict.keys \ D) \ Lexicon
           /\ g[name].index[k] = d[name].index[k]
  BY <1>4, <1>6 DEF Bare
<1>9. d[name].table = TRUE /\ g[name].table = TRUE
  BY <1>4, <1>6 DEF Objs
<1>10. CASE AlterFailed(D, change, f)
  <2>1. o.grn = d /\ o.error = TRUE
    BY <1>7, <1>10 DEF Objects
  <2>2. D = {} /\ dict'.keys = dict.keys /\ grn' = d
    BY <1>2, <1>3, <1>5, <2>1
  <2>3. \A k \in Keys : \/ grn'[name].index[k] = "none"
                        \/ grn'[name].index[k] = "full" /\ k \in dict'.keys \ Lexicon
    BY <1>8, <2>2
  <2> QED
    BY <1>2, <1>3, <1>5, <1>6, <1>8, <1>9, <2>2, <2>3, KeptClean
<1>11. CASE ~AlterFailed(D, change, f)
  <2> DEFINE c == storage_create_index(g, l, name, Tried(Added(A)), f)
             made == Made(g, l, name, Tried(Added(A)), f)
  <2>1. IndexAdded(g, l, Added(A), f, o, c, made)
    BY <1>4, <1>6, <1>7, <1>9, <1>11, AddIndexFacts
  <2> HIDE DEF c, made
  <2>2. /\ IndexCreated(g, l, name, Tried(Added(A)), f, c, made)
        /\ o.grn \in Objs /\ o.error \in BOOLEAN
        /\ ~o.error => c = o /\ ~c.error /\ made = Added(A) \ Foreign
        /\ \A m \in Names :
             /\ o.grn[m].table <=> c.grn[m].table
             /\ o.grn[m].cols = c.grn[m].cols
             /\ \A k \in Keys : o.grn[m].index[k] =
                  IF o.error /\ m = name /\ k \in made \ Lexicon THEN "none"
                  ELSE c.grn[m].index[k]
    BY <2>1 DEF IndexAdded
  <2>3. c.grn[name].table
    BY <1>3, <1>4, <2>2 DEF IndexCreated
  <2>4. \A k \in Keys : \/ g[name].index[k] = "none"
                        \/ g[name].index[k] = "full" /\ k \in dict'.keys \ Lexicon
    BY <1>3, <1>5, <1>8, <2>2
  <2>5. \A k \in Keys : k \in made \ Lexicon =>
                        k \in dict'.keys \/ o.grn[name].index[k] = "none"
    <3>1. Added(A) \subseteq A
      BY DEF Added
    <3> QED
      BY <1>4, <1>5, <2>2, <3>1
  <2>6. \A n \in Names : /\ o.grn[n].table <=> c.grn[n].table
                         /\ o.grn[n].cols = c.grn[n].cols
                         /\ \A k \in Keys : \/ o.grn[n].index[k] = c.grn[n].index[k]
                                            \/ n = name /\ o.grn[n].index[k] = "none"
    BY <2>2
  <2> QED
    BY <1>2, <1>3, <1>5, <1>6, <1>8, <2>2, <2>3, <2>4, <2>5, <2>6, StorageClean
<1> QED
  BY <1>10, <1>11

\* The row statements leave every object as it is.
LEMMA RowsKeepTable ==
    ASSUME write_row \/ update_row \/ delete_row \/ delete_all_rows \/ truncate
    PROVE  SameTable
<1>1. CASE write_row
  BY <1>1, ZenonT(60) DEF write_row, wrapper_write_row, storage_write_row, RowStatement, SameTable
<1>2. CASE update_row
  BY <1>2 DEF update_row, wrapper_update_row, storage_update_row, RowStatement, SameTable
<1>3. CASE delete_row
  BY <1>3 DEF delete_row, wrapper_delete_row, storage_delete_row, RowStatement, SameTable
<1>4. CASE delete_all_rows
  BY <1>4 DEF delete_all_rows, wrapper_delete_all_rows, storage_delete_all_rows,
              RowStatement, SameTable
<1>5. CASE truncate
  BY <1>5 DEF truncate, wrapper_truncate, storage_truncate, RowStatement, SameTable
<1> QED
  BY <1>1, <1>2, <1>3, <1>4, <1>5

\* Every statement preserves CleanOK.
LEMMA CleanStep == TypeInv /\ CleanOK /\ [Next]_vars => CleanOK'
<1> SUFFICES ASSUME TypeInv, CleanOK, [Next]_vars PROVE CleanOK'
  OBVIOUS
<1>1. CASE create
  BY <1>1, WrapperCreateClean, StorageCreateClean DEF create
<1>2. CASE delete_table
  BY <1>2, DeleteClean DEF delete_table
<1>3. CASE rename_table
  BY <1>3, RenameClean DEF rename_table
<1>4. CASE write_row \/ update_row \/ delete_row \/ delete_all_rows \/ truncate
  BY <1>4, RowsKeepTable DEF SameTable, CleanOK
<1>5. CASE disable_indexes
  BY <1>5, DisableClean DEF disable_indexes
<1>6. CASE enable_indexes
  BY <1>6, WrapperEnableClean, StorageEnableClean DEF enable_indexes
<1>7. CASE repair
  BY <1>7, WrapperRepairClean, StorageRepairClean DEF repair
<1>8. CASE inplace_alter_table
  BY <1>8, WrapperAlterClean, StorageAlterClean DEF inplace_alter_table
<1>9. CASE create_lexicon
  <2>1. lexicon'.cols = {} /\ UNCHANGED <<dict, grn, ref, torn>>
    BY <1>9 DEF create_lexicon
  <2> QED
    BY <2>1 DEF CleanOK, Clean
<1>10. CASE UNCHANGED vars
  BY <1>10 DEF vars, CleanOK
<1> QED
  BY <1>1, <1>2, <1>3, <1>4, <1>5, <1>6, <1>7, <1>8, <1>9, <1>10 DEF Next

\* DROP TABLE leaves no object behind, and neither does a CREATE that fails:
\* drop_indexes finds every index table of the table, since each still has its
\* index column, and RENAME, ALTER, ENABLE KEYS and REPAIR leave no index table
\* under another name or of a key the table does not have.
THEOREM NothingLeftCorrect == Spec => []NothingLeft
<1>1. Init => CleanOK
  <2> SUFFICES ASSUME Init PROVE Clean(dict, grn, lexicon, ref)
    BY DEF CleanOK
  <2>1. \A n \in Names : Bare(grn, n)
    BY DEF Init, Bare, NoObjects
  <2> QED
    BY <2>1 DEF Init, Clean, NoTable
<1>2. TypeInv /\ CleanOK => NothingLeft
  <2> SUFFICES ASSUME TypeInv, CleanOK, dict.mode = "none", torn = {}
               PROVE  (\A n \in Names : grn[n] = NoObjects) /\ lexicon.cols = {} /\ ref = {}
    BY DEF NothingLeft
  <2>1. (\A n \in Names : Bare(grn, n)) /\ lexicon.cols = {} /\ ref = {}
    BY DEF CleanOK, Clean
  <2> QED
    BY <2>1, BareIsNoObjects DEF TypeInv, TypesOK
<1> QED
  BY <1>1, <1>2, TypeInit, TypeStep, CleanStep, PTL DEF Spec

-----------------------------------------------------------------------------
(* The invariant.                                                          *)

\* The postings a multiple column key of storage mode must have for the rows R,
\* and a key of wrapper mode for the rows R with the records S.
RowsPosted(k, R) == {Posting(k, i, R[i]) : i \in DOMAIN R}
PartsPosted(k, S, R) == UNION {RowPostings(k, S[p], R[p]) : p \in DOMAIN R}

\* No two of the rows R have the same value of k.
UniqueRows(k, R) ==
    \A i, j \in DOMAIN R : HasKey(k, R[i]) /\ KeyOf(k, R[i]) = KeyOf(k, R[j]) => i = j

\* An index table that is not there has no postings.
AbsentOK ==
    \A n \in Names, k \in Keys :
        dict.mode = "none" \/ grn[n].index[k] = "none" => post[n][k] = {}

\* A key whose index must answer has its index column.
ExactOK == \A k \in exact : IndexColumn(k)

\* The index columns of the lexicon are there only with the lexicon.
LexiconOK == lexicon.cols # {} => lexicon.table

\* Storage mode: a multiple column index that must answer has exactly the
\* postings of the rows, and rows differ in a UNIQUE key.
StorageOK ==
    dict.mode = "storage" =>
        \A k \in exact : /\ Multiple(k) => post[name][k] = RowsPosted(k, rows)
                         /\ k \in Unique => UniqueRows(k, rows)

\* Wrapper mode: every row has a record, and a key that must answer has exactly
\* the postings of the rows under their records.
WrapperOK ==
    dict.mode = "wrapper" =>
        \A k \in exact : /\ DOMAIN rows \subseteq DOMAIN rec
                         /\ post[name][k] = PartsPosted(k, rec, rows)

IndexInv == AbsentOK /\ ExactOK /\ LexiconOK /\ StorageOK /\ WrapperOK

\* What storage_create_index has made it could make.
LEMMA MadeFacts ==
    ASSUME NEW g, NEW l, NEW n, NEW K, K \subseteq Keys, NEW f, NEW k \in Made(g, l, n, K, f)
    PROVE  /\ k \in K \ Foreign
           /\ k \in Lexicon => l.table /\ k \notin l.cols
           /\ k \notin Lexicon => g[n].index[k] = "none"
<1>1. k \in K \ Foreign /\ k \in Nat /\ \A b \in Bad(g, l, n, K, f) : k < b
  BY ObjectsAssumption DEF Made, MadeIndexes, Before
<1>2. k \notin Bad(g, l, n, K, f)
  BY <1>1
<1> QED
  BY <1>1, <1>2 DEF Bad, CreateIndexFails

\* Its objects, when it has not removed the table.
ObjectsMade(g, l, n, o, made) ==
    /\ o.lexicon.cols # {} => o.lexicon.table
    /\ o.grn[n].table =>
         /\ o.lexicon.table => o.lexicon.cols = l.cols \cup (made \cap Lexicon)
         /\ \A m \in Names, k \in Keys : o.grn[m].index[k] =
              IF m = n /\ k \in made \ Lexicon THEN "full" ELSE g[m].index[k]

\* The lexicon and the index tables after storage_create_index: those made are
\* added, unless it failed at one and removed the table.
LEMMA CreatedFacts ==
    ASSUME NEW g, NEW l \in Lex, l.cols # {} => l.table, NEW n,
           NEW K, K \subseteq Keys, NEW f, NEW o,
           IndexCreated(g, l, n, K, f, o, Made(g, l, n, K, f))
    PROVE  ObjectsMade(g, l, n, o, Made(g, l, n, K, f))
<1> DEFINE made == Made(g, l, n, K, f)
<1>1. \A k \in made \cap Lexicon : l.table
  BY MadeFacts
<1> HIDE DEF made
<1>2. CASE ~o.grn[n].table
  BY <1>2 DEF IndexCreated, ObjectsMade, made
<1>3. CASE o.grn[n].table
  <2>1. o.lexicon = [l EXCEPT !.cols = @ \cup (made \cap Lexicon)]
        \/ o.lexicon = [table |-> FALSE, cols |-> {}]
    BY <1>3 DEF IndexCreated, made
  <2>2. /\ o.lexicon.cols # {} => o.lexicon.table
        /\ o.lexicon.table => o.lexicon.cols = l.cols \cup (made \cap Lexicon)
    BY <1>1, <2>1 DEF Lex
  <2> QED
    BY <1>3, <2>2 DEF IndexCreated, ObjectsMade, made
<1> QED
  BY <1>2, <1>3

-----------------------------------------------------------------------------
(* Rows.                                                                   *)

\* A row statement: the objects stay, so the keys that must answer have what
\* they had.
LEMMA RowsFrame ==
    ASSUME TypeInv, IndexInv, SameTable, dict.mode # "none", exact' \subseteq exact,
           \A n \in Names, k \in Keys : grn[n].index[k] = "none" => post'[n][k] = {},
           \A k \in exact' : dict.mode = "storage" =>
               /\ Multiple(k) => post'[name][k] = RowsPosted(k, rows')
               /\ k \in Unique => UniqueRows(k, rows'),
           \A k \in exact' : dict.mode = "wrapper" =>
               /\ DOMAIN rows' \subseteq DOMAIN rec'
               /\ post'[name][k] = PartsPosted(k, rec', rows')
    PROVE  IndexInv'
<1>1. dict' = dict /\ grn' = grn /\ lexicon' = lexicon
  BY DEF SameTable
<1>2. AbsentOK' /\ LexiconOK'
  BY <1>1 DEF AbsentOK, LexiconOK, IndexInv
<1>3. ExactOK'
  BY <1>1 DEF ExactOK, IndexInv, IndexColumn, name
<1>4. StorageOK' /\ WrapperOK'
  BY <1>1 DEF StorageOK, WrapperOK, name
<1> QED
  BY <1>2, <1>3, <1>4 DEF IndexInv

\* The keys that must answer are among those the handler changes.
LEMMA ExactIndexed ==
    ASSUME TypeInv, IndexInv, dict.mode = "storage"
    PROVE  /\ name \in Names
           /\ \A k \in exact : k \in Keys /\ k \in dict.keys /\ IndexColumn(k) /\ IndexTable(k)
           /\ \A k \in exact : Multiple(k) => k \in MultipleIndexes
           /\ \A k \in exact \cap Unique : k \in UniqueIndexes
           /\ \A k \in MultipleIndexes : grn[name].index[k] # "none" /\ k \in Keys
<1>1. /\ name \in Names /\ exact \subseteq dict.keys /\ dict.keys \subseteq Keys
  BY DEF TypeInv, ModeOK, TypesOK
<1>2. \A k \in exact : IndexColumn(k) /\ IndexTable(k)
  BY DEF IndexInv, ExactOK, LexiconOK, IndexColumn, IndexTable
<1>3. \A k \in Keys : Multiple(k) => k \notin Lexicon
  BY StorageAssumption
<1> QED
  BY <1>1, <1>2, <1>3 DEF MultipleIndexes, UniqueIndexes, IndexColumn

\* A key of rows that are unique, and of one more.
LEMMA UniqueWith ==
    ASSUME NEW k, NEW R, NEW T, NEW i, UniqueRows(k, R),
           DOMAIN T \subseteq DOMAIN R \cup {i},
           \A j \in DOMAIN T \ {i} : T[j] = R[j],
           HasKey(k, T[i]) => \A j \in DOMAIN T \ {i} : KeyOf(k, T[j]) # KeyOf(k, T[i])
    PROVE  UniqueRows(k, T)
<1> SUFFICES ASSUME NEW a \in DOMAIN T, NEW b \in DOMAIN T, HasKey(k, T[a]),
                    KeyOf(k, T[a]) = KeyOf(k, T[b])
             PROVE  a = b
  BY DEF UniqueRows
<1>1. HasKey(k, T[b])
  BY DEF HasKey
<1>2. CASE a = i \/ b = i
  BY <1>1, <1>2
<1>3. CASE a # i /\ b # i
  BY <1>3 DEF UniqueRows
<1> QED
  BY <1>2, <1>3

\* INSERT, storage mode: the duplicate check keeps UNIQUE rows apart and each
\* multiple column index gets the row's posting.
LEMMA StorageWriteIndex ==
    ASSUME TypeInv, IndexInv, NEW i \in Ids, NEW r \in Rows, storage_write_row(i, r)
    PROVE  IndexInv'
<1>1. /\ dict.mode = "storage" /\ SameTable /\ exact' = exact /\ i \notin DOMAIN rows
      /\ rows' = With(rows, i, r)
      /\ \A k \in UniqueIndexes : HasKey(k, r) /\ k \in exact => ~Duplicate(k, r)
      /\ post' = [post EXCEPT ![name] = [k \in Keys |->
                   IF k \in MultipleIndexes THEN @[k] \cup {Posting(k, i, r)} ELSE @[k]]]
  BY DEF storage_write_row, StorageOpens, SameTable, With
<1>2. /\ name \in Names
      /\ \A k \in exact : k \in Keys /\ k \in dict.keys
      /\ \A k \in exact : Multiple(k) => k \in MultipleIndexes
      /\ \A k \in exact \cap Unique : k \in UniqueIndexes
      /\ \A k \in MultipleIndexes : grn[name].index[k] # "none" /\ k \in Keys
  BY <1>1, ExactIndexed
<1>3. DOMAIN post = Names /\ DOMAIN post[name] = Keys
  BY <1>2 DEF TypeInv, TypesOK
<1>4. \A n \in Names, k \in Keys : post'[n][k] =
         IF n = name /\ k \in MultipleIndexes THEN post[n][k] \cup {Posting(k, i, r)}
         ELSE post[n][k]
  BY <1>1, <1>2, <1>3
<1>5. \A n \in Names, k \in Keys : grn[n].index[k] = "none" => post'[n][k] = {}
  BY <1>2, <1>4, ZenonT(60) DEF IndexInv, AbsentOK
<1>6. /\ DOMAIN rows' = DOMAIN rows \cup {i} /\ rows'[i] = r
      /\ \A j \in DOMAIN rows : rows'[j] = rows[j]
  BY <1>1 DEF With
<1>7. ASSUME NEW k \in exact, Multiple(k)
      PROVE  post'[name][k] = RowsPosted(k, rows')
  <2>1. post[name][k] = RowsPosted(k, rows)
    BY <1>1, <1>7 DEF IndexInv, StorageOK
  <2>2. RowsPosted(k, rows') = RowsPosted(k, rows) \cup {Posting(k, i, r)}
    BY <1>6 DEF RowsPosted
  <2> QED
    BY <1>2, <1>4, <1>7, <2>1, <2>2
<1>8. ASSUME NEW k \in exact, k \in Unique
      PROVE  UniqueRows(k, rows')
  <2>1. UniqueRows(k, rows)
    BY <1>1, <1>8 DEF IndexInv, StorageOK
  <2>2. ASSUME HasKey(k, r), NEW j \in DOMAIN rows PROVE KeyOf(k, rows[j]) # KeyOf(k, r)
    <3>1. ~Duplicate(k, r)
      BY <1>1, <1>2, <1>8, <2>2
    <3>2. CASE ~Multiple(k)
      BY <3>1, <3>2 DEF Duplicate
    <3>3. CASE Multiple(k)
      <4>1. Posting(k, j, rows[j]) \in post[name][k]
        BY <1>1, <1>8, <3>3 DEF IndexInv, StorageOK, RowsPosted
      <4>2. Posting(k, j, rows[j])[3] = KeyOf(k, rows[j])
        BY DEF Posting
      <4> QED
        BY <3>1, <3>3, <4>1, <4>2 DEF Duplicate
    <3> QED
      BY <3>2, <3>3
  <2> QED
    BY <1>1, <1>6, <2>1, <2>2, UniqueWith
<1> QED
  BY <1>1, <1>5, <1>7, <1>8, RowsFrame

\* UPDATE, storage mode: a value that the row had itself is no duplicate, and the
\* old posting goes before the new one comes.
LEMMA StorageUpdateIndex ==
    ASSUME TypeInv, IndexInv, NEW i \in Ids, NEW r \in Rows, storage_update_row(i, r)
    PROVE  IndexInv'
<1>1. /\ dict.mode = "storage" /\ SameTable /\ exact' = exact /\ i \in DOMAIN rows
      /\ rows' = [rows EXCEPT ![i] = r]
      /\ \A k \in UniqueIndexes : HasKey(k, r) /\ k \in exact =>
            KeyOf(k, r) = KeyOf(k, rows[i]) \/ ~Duplicate(k, r)
      /\ post' = [post EXCEPT ![name] = [k \in Keys |->
                   IF k \in MultipleIndexes
                   THEN (@[k] \ {Posting(k, i, rows[i])}) \cup {Posting(k, i, r)}
                   ELSE @[k]]]
  BY DEF storage_update_row, StorageOpens, SameTable
<1>2. /\ name \in Names
      /\ \A k \in exact : k \in Keys /\ k \in dict.keys
      /\ \A k \in exact : Multiple(k) => k \in MultipleIndexes
      /\ \A k \in exact \cap Unique : k \in UniqueIndexes
      /\ \A k \in MultipleIndexes : grn[name].index[k] # "none" /\ k \in Keys
  BY <1>1, ExactIndexed
<1>3. DOMAIN post = Names /\ DOMAIN post[name] = Keys
  BY <1>2 DEF TypeInv, TypesOK
<1>4. \A n \in Names, k \in Keys : post'[n][k] =
         IF n = name /\ k \in MultipleIndexes
         THEN (post[n][k] \ {Posting(k, i, rows[i])}) \cup {Posting(k, i, r)}
         ELSE post[n][k]
  BY <1>1, <1>2, <1>3
<1>5. \A n \in Names, k \in Keys : grn[n].index[k] = "none" => post'[n][k] = {}
  BY <1>2, <1>4, ZenonT(60) DEF IndexInv, AbsentOK
<1>6. /\ DOMAIN rows' = DOMAIN rows /\ rows'[i] = r
      /\ \A j \in DOMAIN rows \ {i} : rows'[j] = rows[j]
  BY <1>1
<1>7. ASSUME NEW k \in exact, Multiple(k)
      PROVE  post'[name][k] = RowsPosted(k, rows')
  <2>1. post[name][k] = RowsPosted(k, rows)
    BY <1>1, <1>7 DEF IndexInv, StorageOK
  <2>2. RowsPosted(k, rows') =
           (RowsPosted(k, rows) \ {Posting(k, i, rows[i])}) \cup {Posting(k, i, r)}
    BY <1>1, <1>6 DEF RowsPosted, Posting
  <2> QED
    BY <1>2, <1>4, <1>7, <2>1, <2>2
<1>8. ASSUME NEW k \in exact, k \in Unique
      PROVE  UniqueRows(k, rows')
  <2>1. UniqueRows(k, rows)
    BY <1>1, <1>8 DEF IndexInv, StorageOK
  <2>2. ASSUME HasKey(k, r), NEW j \in DOMAIN rows \ {i} PROVE KeyOf(k, rows[j]) # KeyOf(k, r)
    <3>1. CASE KeyOf(k, r) = KeyOf(k, rows[i])
      <4>1. HasKey(k, rows[i])
        BY <2>2, <3>1 DEF HasKey
      <4> QED
        BY <1>1, <2>1, <2>2, <3>1, <4>1 DEF UniqueRows
    <3>2. CASE ~Duplicate(k, r) /\ ~Multiple(k)
      BY <3>2 DEF Duplicate
    <3>3. CASE ~Duplicate(k, r) /\ Multiple(k)
      <4>1. Posting(k, j, rows[j]) \in post[name][k]
        BY <1>1, <1>8, <3>3 DEF IndexInv, StorageOK, RowsPosted
      <4>2. Posting(k, j, rows[j])[3] = KeyOf(k, rows[j])
        BY DEF Posting
      <4> QED
        BY <3>3, <4>1, <4>2 DEF Duplicate
    <3> QED
      BY <1>1, <1>2, <1>8, <2>2, <3>1, <3>2, <3>3
  <2> QED
    BY <1>1, <1>6, <2>1, <2>2, UniqueWith
<1> QED
  BY <1>1, <1>5, <1>7, <1>8, RowsFrame

\* DELETE, storage mode.
LEMMA StorageDeleteIndex ==
    ASSUME TypeInv, IndexInv, NEW i \in Ids, storage_delete_row(i)
    PROVE  IndexInv'
<1>1. /\ dict.mode = "storage" /\ SameTable /\ exact' = exact /\ i \in DOMAIN rows
      /\ rows' = Without(rows, i)
      /\ post' = [post EXCEPT ![name] = [k \in Keys |->
                   IF k \in MultipleIndexes THEN @[k] \ {Posting(k, i, rows[i])} ELSE @[k]]]
  BY DEF storage_delete_row, StorageOpens, SameTable, Without
<1>2. /\ name \in Names
      /\ \A k \in exact : k \in Keys /\ k \in dict.keys
      /\ \A k \in exact : Multiple(k) => k \in MultipleIndexes
  BY <1>1, ExactIndexed
<1>3. DOMAIN post = Names /\ DOMAIN post[name] = Keys
  BY <1>2 DEF TypeInv, TypesOK
<1>4. \A n \in Names, k \in Keys : post'[n][k] =
         IF n = name /\ k \in MultipleIndexes THEN post[n][k] \ {Posting(k, i, rows[i])}
         ELSE post[n][k]
  BY <1>1, <1>2, <1>3
<1>5. \A n \in Names, k \in Keys : grn[n].index[k] = "none" => post'[n][k] = {}
  BY <1>2, <1>4 DEF IndexInv, AbsentOK
<1>6. /\ DOMAIN rows' = DOMAIN rows \ {i}
      /\ \A j \in DOMAIN rows \ {i} : rows'[j] = rows[j]
  BY <1>1 DEF Without
<1>7. ASSUME NEW k \in exact, Multiple(k)
      PROVE  post'[name][k] = RowsPosted(k, rows')
  <2>1. post[name][k] = RowsPosted(k, rows)
    BY <1>1, <1>7 DEF IndexInv, StorageOK
  <2>2. RowsPosted(k, rows') = RowsPosted(k, rows) \ {Posting(k, i, rows[i])}
    BY <1>1, <1>6 DEF RowsPosted, Posting
  <2> QED
    BY <1>2, <1>4, <1>7, <2>1, <2>2
<1>8. ASSUME NEW k \in exact, k \in Unique
      PROVE  UniqueRows(k, rows')
  <2>1. UniqueRows(k, rows)
    BY <1>1, <1>8 DEF IndexInv, StorageOK
  <2> QED
    BY <1>6, <2>1 DEF UniqueRows
<1> QED
  BY <1>1, <1>5, <1>7, <1>8, RowsFrame

\* Of no rows.
LEMMA NoRowsPosted ==
    ASSUME NEW k
    PROVE  RowsPosted(k, << >>) = {} /\ UniqueRows(k, << >>)
           /\ \A S : PartsPosted(k, S, << >>) = {}
  BY NoRows DEF RowsPosted, UniqueRows, PartsPosted

\* DELETE of all rows and TRUNCATE, storage mode: a key that keeps postings no
\* longer has to answer.
LEMMA StorageClearIndex ==
    ASSUME TypeInv, IndexInv, storage_delete_all_rows \/ storage_truncate
    PROVE  IndexInv'
<1>1. /\ dict.mode = "storage" /\ SameTable /\ exact' \subseteq exact /\ rows' = << >>
      /\ \E K : /\ post' = Emptied(post, name, K)
                /\ \A k \in exact' : Multiple(k) /\ IndexTable(k) /\ k \in dict.keys =>
                       k \in K \/ post[name][k] = {}
  BY DEF storage_delete_all_rows, storage_truncate, StorageOpens, SameTable
<1>2. PICK K : /\ post' = Emptied(post, name, K)
               /\ \A k \in exact' : Multiple(k) /\ IndexTable(k) /\ k \in dict.keys =>
                       k \in K \/ post[name][k] = {}
  BY <1>1
<1>3. /\ name \in Names
      /\ \A k \in exact : k \in Keys /\ k \in dict.keys /\ IndexTable(k)
  BY <1>1, ExactIndexed
<1>4. \A n \in Names, k \in Keys : post'[n][k] = IF n = name /\ k \in K THEN {} ELSE post[n][k]
  BY <1>2, <1>3, EmptiedFacts DEF TypeInv, TypesOK
<1>5. \A n \in Names, k \in Keys : grn[n].index[k] = "none" => post'[n][k] = {}
  BY <1>4 DEF IndexInv, AbsentOK
<1>6. \A k \in exact' : Multiple(k) => post'[name][k] = {}
  BY <1>1, <1>2, <1>3, <1>4
<1> QED
  BY <1>1, <1>5, <1>6, NoRowsPosted, RowsFrame

-----------------------------------------------------------------------------
(* DDL of storage mode.                                                    *)

\* The postings P fit the objects o, and the keys E answer.
Fitting(o, P, E) ==
    /\ \A n \in Names, k \in Keys : o.grn[n].index[k] = "none" => P[n][k] = {}
    /\ \A k \in E : /\ k \in Keys
                    /\ k \in Lexicon /\ o.lexicon.table => k \in o.lexicon.cols
                    /\ k \notin Lexicon => o.grn[name].index[k] = "full"
                    /\ Multiple(k) => P[name][k] = RowsPosted(k, rows)
                    /\ k \in Unique => UniqueRows(k, rows)

\* A statement that keeps the name and leaves the objects o, the postings P
\* and the keys E that must answer, if it has not removed the table.
LEMMA StorageDdlIndex ==
    ASSUME name \in Names, NEW o, NEW P, NEW E, Survives(o, P, E),
           grn' = o.grn, lexicon' = o.lexicon,
           dict'.mode = "storage", dict'.name = name,
           o.lexicon.cols # {} => o.lexicon.table,
           o.grn[name].table => Fitting(o, P, E)
    PROVE  IndexInv'
<1>1. CASE ~o.grn[name].table
  <2>1. post' = [n \in Names |-> [k \in Keys |-> {}]] /\ exact' = {}
    BY <1>1 DEF Survives
  <2>2. AbsentOK'
    BY <2>1 DEF AbsentOK
  <2> QED
    BY <2>1, <2>2 DEF IndexInv, ExactOK, LexiconOK, StorageOK, WrapperOK
<1>2. CASE o.grn[name].table
  <2>1. /\ post' = P /\ rows' = rows /\ exact' = IF o.lexicon.table THEN E ELSE E \ Lexicon
    BY <1>2 DEF Survives
  <2>2. AbsentOK'
    BY <1>2, <2>1 DEF AbsentOK, Fitting
  <2>3. ExactOK'
    BY <1>2, <2>1 DEF ExactOK, IndexColumn, name, Fitting
  <2>4. LexiconOK' /\ WrapperOK'
    BY DEF LexiconOK, WrapperOK
  <2>5. StorageOK'
    BY <1>2, <2>1 DEF StorageOK, name, Fitting
  <2> QED
    BY <2>2, <2>3, <2>4, <2>5 DEF IndexInv
<1> QED
  BY <1>1, <1>2

\* CREATE TABLE, storage mode, whichever index cannot be made.
LEMMA StorageCreateIndex ==
    ASSUME TypeInv, IndexInv, NEW n \in Names, NEW f, NEW K, storage_create(n, K, f)
    PROVE  IndexInv'
<1> DEFINE with == [grn EXCEPT ![n].table = TRUE]
           c == storage_create_indexes(with, lexicon, n, K, f)
           o == storage_create_index(with, lexicon, n, K, f)
           made == Made(with, lexicon, n, K, f)
<1>1. /\ with \in Objs /\ with[n].table = TRUE /\ lexicon \in Lex
      /\ lexicon.cols # {} => lexicon.table
  BY DEF TypeInv, TypesOK, Objs, IndexInv, LexiconOK
<1> HIDE DEF with
<1>2. /\ IndexCreated(with, lexicon, n, K, f, o, made)
      /\ IndexesCreated(n, c, o, made)
  BY <1>1, StorageIndexFacts, StorageIndexesFacts
<1>3. /\ dict.mode = "none" /\ post' = post /\ rows' = << >> /\ K \subseteq StorageKeys
      /\ \/ /\ dict' = dict /\ exact' = exact
            /\ lexicon' = lexicon \/ lexicon' = [c.lexicon EXCEPT !.cols = {}]
         \/ /\ dict' = [mode |-> "storage", name |-> n, keys |-> K, cols |-> {}]
            /\ grn' = c.grn /\ lexicon' = c.lexicon /\ ~c.error
            /\ exact' = K \ Foreign
  BY DEF storage_create, c, with
<1> HIDE DEF c, o
<1>4. K \subseteq Keys
  BY <1>3, StorageAssumption
<1>5. /\ o.lexicon.cols # {} => o.lexicon.table
      /\ o.grn[n].table =>
           /\ o.lexicon.table => o.lexicon.cols = lexicon.cols \cup (made \cap Lexicon)
           /\ \A m \in Names, k \in Keys : o.grn[m].index[k] =
                IF m = n /\ k \in made \ Lexicon THEN "full" ELSE with[m].index[k]
  <2>1. ObjectsMade(with, lexicon, n, o, made)
    BY <1>1, <1>2, <1>4, CreatedFacts
  <2> QED
    BY <2>1 DEF ObjectsMade
<1>6. /\ o.grn \in Objs /\ o.lexicon \in Lex /\ c.lexicon = o.lexicon
      /\ ~c.error => c.grn = o.grn /\ made = K \ Foreign /\ o.grn[n].table
  BY <1>2 DEF IndexCreated, IndexesCreated
<1>7. \A k \in made \cap Lexicon : lexicon.table
  BY <1>4, MadeFacts
<1> HIDE DEF made
<1>8. /\ \A m \in Names, k \in Keys : post'[m][k] = {}
      /\ exact = {}
  <2>1. exact \subseteq dict.keys /\ dict = NoTable
    BY <1>3 DEF TypeInv, ModeOK, TypesOK
  <2> QED
    BY <1>3, <2>1 DEF IndexInv, AbsentOK, NoTable
<1>9. AbsentOK'
  BY <1>8 DEF AbsentOK
<1>10. CASE /\ dict' = dict /\ exact' = exact
            /\ lexicon' = lexicon \/ lexicon' = [c.lexicon EXCEPT !.cols = {}]
  <2>1. LexiconOK'
    BY <1>1, <1>6, <1>10 DEF LexiconOK, Lex
  <2>2. ExactOK' /\ StorageOK' /\ WrapperOK'
    BY <1>8, <1>10 DEF ExactOK, StorageOK, WrapperOK
  <2> QED
    BY <1>9, <2>1, <2>2 DEF IndexInv
<1>11. CASE /\ dict' = [mode |-> "storage", name |-> n, keys |-> K, cols |-> {}]
            /\ grn' = c.grn /\ lexicon' = c.lexicon /\ ~c.error
            /\ exact' = K \ Foreign
  <2>1. dict'.mode = "storage" /\ dict'.name = n /\ grn' = o.grn /\ lexicon' = o.lexicon
    BY <1>6, <1>11
  <2>2. LexiconOK' /\ WrapperOK'
    BY <1>5, <2>1 DEF LexiconOK, WrapperOK
  <2>3. ExactOK'
    <3> SUFFICES ASSUME NEW k \in made PROVE IndexColumn(k)'
      BY <1>6, <1>11 DEF ExactOK
    <3>1. k \in Keys
      BY <1>4, <1>6, <1>11
    <3>2. CASE k \in Lexicon
      <4>1. o.lexicon.table
        BY <1>2, <1>6, <1>7, <1>11, <3>2 DEF IndexCreated, IndexesCreated, Lex
      <4> QED
        BY <1>5, <1>6, <1>11, <2>1, <3>2, <4>1 DEF IndexColumn
    <3>3. CASE k \notin Lexicon
      BY <1>5, <1>6, <1>11, <2>1, <3>1, <3>3 DEF IndexColumn, name
    <3> QED
      BY <3>2, <3>3
  <2>4. StorageOK'
    BY <1>3, <1>4, <1>8, <1>11, <2>1, NoRowsPosted DEF StorageOK, name
  <2> QED
    BY <1>9, <2>2, <2>3, <2>4 DEF IndexInv
<1> QED
  BY <1>3, <1>10, <1>11

\* DROP TABLE in both modes: no postings stay.
LEMMA DeleteIndex ==
    ASSUME TypeInv, IndexInv, wrapper_delete_table \/ storage_delete_table
    PROVE  IndexInv'
<1>1. /\ post' = [n \in Names |-> [k \in Keys |-> {}]] /\ exact' = {} /\ dict' = NoTable
      /\ lexicon' = lexicon \/ lexicon' = [lexicon EXCEPT !.cols = {}]
  BY DEF wrapper_delete_table, storage_delete_table
<1>2. AbsentOK'
  BY <1>1 DEF AbsentOK
<1>3. LexiconOK'
  BY <1>1 DEF LexiconOK, IndexInv, TypeInv, TypesOK, Lex
<1>4. ExactOK' /\ StorageOK' /\ WrapperOK'
  BY <1>1 DEF ExactOK, StorageOK, WrapperOK
<1> QED
  BY <1>2, <1>3, <1>4 DEF IndexInv

\* RENAME TABLE: an index table takes its postings along.
LEMMA MoveAbsent ==
    ASSUME TypeInv, IndexInv, NEW from \in Names, NEW to \in Names, from # to, NEW K,
           dict.mode # "none"
    PROVE  \A n \in Names, k \in Keys :
             MoveIndex(grn, from, to, K)[n].index[k] = "none" =>
               MovePost(grn, post, from, to, K)[n][k] = {}
<1>1. grn \in Objs /\ DOMAIN post = Names /\ \A m \in Names : DOMAIN post[m] = Keys
  BY DEF TypeInv, TypesOK
<1>2. \A m \in Names, k \in Keys : MoveIndex(grn, from, to, K)[m].index[k] =
         IF m = from /\ k \in K THEN "none"
         ELSE IF m = to /\ k \in K /\ grn[from].index[k] # "none"
         THEN grn[from].index[k] ELSE grn[m].index[k]
  BY <1>1, MoveIndexFacts
<1>3. \A m \in Names, k \in Keys : MovePost(grn, post, from, to, K)[m][k] =
         IF k \in K /\ grn[from].index[k] # "none"
         THEN IF m = from THEN {} ELSE IF m = to THEN post[from][k] ELSE post[m][k]
         ELSE post[m][k]
  BY <1>1, MovePostFacts
<1>4. \A m \in Names, k \in Keys : grn[m].index[k] = "none" => post[m][k] = {}
  BY DEF IndexInv, AbsentOK
<1> QED
  BY <1>2, <1>3, <1>4

\* The index tables of K and their postings are under the new name; what must
\* answer answers there.
LEMMA RenameIndex ==
    ASSUME TypeInv, IndexInv, NEW to \in Names, NEW f,
           wrapper_rename_table(to, f) \/ storage_rename_table(to, f)
    PROVE  IndexInv'
<1>1. /\ name \in Names /\ to # name /\ dict.mode # "none" /\ grn \in Objs
      /\ DOMAIN post = Names /\ \A m \in Names : DOMAIN post[m] = Keys
      /\ exact \subseteq dict.keys /\ dict.keys \subseteq Keys
      /\ dict \in [mode : {"none", "wrapper", "storage"}, name : Names \cup {NoName},
                   keys : SUBSET Keys, cols : SUBSET Columns]
  BY DEF TypeInv, ModeOK, TypesOK, wrapper_rename_table, storage_rename_table
<1>2. PICK K :
        /\ UNCHANGED <<lexicon, rows, rec>>
        /\ post' = MovePost(grn, post, name, to, K)
        /\ \/ /\ grn' = MoveIndex(grn, name, to, K) /\ dict' = dict
              /\ exact' \subseteq exact \ K
           \/ /\ dict' = [dict EXCEPT !.name = to] /\ exact' = exact
              /\ exact \ Lexicon \subseteq K
              /\ K \cap Lexicon = {}
              /\ \/ grn' = [MoveIndex(grn, name, to, K) EXCEPT
                               ![to].table = TRUE, ![name].table = FALSE]
                 \/ grn' = [MoveIndex(grn, name, to, K) EXCEPT
                               ![to].table = TRUE, ![to].cols = grn[name].cols,
                               ![name].table = FALSE, ![name].cols = {}]
  <2>1. CASE wrapper_rename_table(to, f)
    <3> DEFINE bad == RenameFails(name, to, dict.keys, f)
               done == Before(dict.keys, bad)
    <3>1. bad = {} => done = dict.keys
      BY DEF Before
    <3>2. dict.keys \cap Lexicon = {}
      BY <2>1, WrapperAssumption DEF TypeInv, ModeOK, wrapper_rename_table
    <3> HIDE DEF bad
    <3> QED
      BY <1>1, <2>1, <3>1, <3>2 DEF wrapper_rename_table, bad
  <2>2. CASE storage_rename_table(to, f)
    <3> DEFINE own == dict.keys \ Lexicon
               bad == RenameFails(name, to, own, f)
               done == Before(own, bad)
    <3>1. bad = {} => done = own
      BY DEF Before
    <3> HIDE DEF bad
    <3> QED
      BY <1>1, <2>2, <3>1, ZenonT(60) DEF storage_rename_table, bad
  <2> QED
    BY <2>1, <2>2
<1> DEFINE moved == MoveIndex(grn, name, to, K)
<1>3. /\ moved \in Objs
      /\ \A m \in Names, k \in Keys : moved[m].index[k] =
           IF m = name /\ k \in K THEN "none"
           ELSE IF m = to /\ k \in K /\ grn[name].index[k] # "none"
           THEN grn[name].index[k] ELSE grn[m].index[k]
  BY <1>1, MoveIndexFacts
<1>4. \A m \in Names, k \in Keys : post'[m][k] =
         IF k \in K /\ grn[name].index[k] # "none"
         THEN IF m = name THEN {} ELSE IF m = to THEN post[name][k] ELSE post[m][k]
         ELSE post[m][k]
  BY <1>1, <1>2, MovePostFacts
<1>5. \A m \in Names, k \in Keys : moved[m].index[k] = "none" => post'[m][k] = {}
  BY <1>1, <1>2, MoveAbsent
<1> HIDE DEF moved
<1>6. \A m \in Names : grn'[m].index = moved[m].index
  <2>1. CASE grn' = moved
    BY <2>1
  <2>2. CASE grn' = [moved EXCEPT ![to].table = TRUE, ![name].table = FALSE]
    BY <1>1, <1>3, <2>2 DEF Objs
  <2>3. CASE grn' = [moved EXCEPT ![to].table = TRUE, ![to].cols = grn[name].cols,
                                  ![name].table = FALSE, ![name].cols = {}]
    BY <1>1, <1>3, <2>3 DEF Objs
  <2> QED
    BY <1>2, <2>1, <2>2, <2>3 DEF moved
<1>7. AbsentOK'
  <2>1. dict'.mode # "none"
    BY <1>1, <1>2
  <2> QED
    BY <1>5, <1>6, <2>1 DEF AbsentOK
<1>8. LexiconOK'
  BY <1>2 DEF LexiconOK, IndexInv
<1>9. \A k \in exact : k \in Keys /\ (k \notin Lexicon => grn[name].index[k] = "full")
                       /\ (k \in Lexicon => k \in lexicon.cols)
  BY <1>1 DEF IndexInv, ExactOK, IndexColumn
<1>10. CASE dict' = dict /\ exact' \subseteq exact \ K
  <2>1. \A k \in exact' : /\ k \in exact /\ k \in Keys /\ post'[name][k] = post[name][k]
                          /\ grn'[name].index[k] = grn[name].index[k]
    BY <1>1, <1>3, <1>4, <1>6, <1>9, <1>10
  <2>2. ExactOK'
    BY <1>2, <1>9, <1>10, <2>1 DEF ExactOK, IndexColumn, name
  <2>3. StorageOK' /\ WrapperOK'
    BY <1>2, <1>10, <2>1 DEF StorageOK, WrapperOK, name, IndexInv
  <2> QED
    BY <1>7, <1>8, <2>2, <2>3 DEF IndexInv
<1>11. CASE /\ dict' = [dict EXCEPT !.name = to] /\ exact' = exact
            /\ exact \ Lexicon \subseteq K
            /\ K \cap Lexicon = {}
  <2>1. dict'.name = to /\ dict'.mode = dict.mode
    BY <1>1, <1>11
  <2>2. \A k \in exact \ Lexicon : /\ post'[to][k] = post[name][k]
                                   /\ grn'[to].index[k] = "full"
    BY <1>1, <1>3, <1>4, <1>6, <1>9, <1>11
  <2>3. ExactOK'
    BY <1>2, <1>9, <1>11, <2>1, <2>2 DEF ExactOK, IndexColumn, name
  <2>4. \A k \in exact : Multiple(k) \/ dict.mode = "wrapper" => k \notin Lexicon
    BY <1>1, WrapperAssumption, StorageAssumption DEF TypeInv, ModeOK
  <2>5. StorageOK' /\ WrapperOK'
    BY <1>2, <1>11, <2>1, <2>2, <2>4, SMTT(30) DEF StorageOK, WrapperOK, name, IndexInv
  <2> QED
    BY <1>7, <1>8, <2>3, <2>5 DEF IndexInv
<1> QED
  BY <1>2, <1>10, <1>11

\* DISABLE KEYS, storage mode: the UNIQUE keys stay as they are.
LEMMA StorageDisableIndex ==
    ASSUME TypeInv, IndexInv, storage_disable_indexes
    PROVE  IndexInv'
<1> DEFINE off == dict.keys \ Unique
<1>1. /\ dict.mode = "storage" /\ UNCHANGED <<dict, rows>>
      /\ grn' = SetIndex(grn, name, off \ Lexicon, "none")
      /\ lexicon' = [lexicon EXCEPT !.cols = @ \ off]
      /\ post' = Emptied(post, name, off)
      /\ exact' = exact \ off
  BY DEF storage_disable_indexes, StorageOpens
<1>2. /\ name \in Names /\ grn \in Objs /\ lexicon \in Lex /\ exact \subseteq Keys
      /\ DOMAIN post = Names /\ \A m \in Names : DOMAIN post[m] = Keys
  BY <1>1 DEF TypeInv, ModeOK, TypesOK
<1> HIDE DEF off
<1>3. \A m \in Names, k \in Keys :
         /\ grn'[m].index[k] = IF m = name /\ k \in off \ Lexicon THEN "none" ELSE grn[m].index[k]
         /\ post'[m][k] = IF m = name /\ k \in off THEN {} ELSE post[m][k]
  BY <1>1, <1>2, SetIndexFacts, EmptiedFacts DEF IndexStates
<1>4. lexicon'.table = lexicon.table /\ lexicon'.cols = lexicon.cols \ off
  BY <1>1, <1>2 DEF Lex
<1>5. AbsentOK'
  BY <1>1, <1>3 DEF AbsentOK, IndexInv
<1>6. LexiconOK'
  BY <1>4 DEF LexiconOK, IndexInv
<1>7. ExactOK'
  BY <1>1, <1>2, <1>3, <1>4 DEF ExactOK, IndexColumn, name, IndexInv
<1>8. StorageOK' /\ WrapperOK'
  BY <1>1, <1>2, <1>3 DEF StorageOK, WrapperOK, name, IndexInv
<1> QED
  BY <1>5, <1>6, <1>7, <1>8 DEF IndexInv

\* storage_add_index_multiple_columns of keys that had no postings: all rows
\* are posted unless one was a duplicate.
LEMMA AddedPosts ==
    ASSUME NEW P, PostOK(P), name \in Names, NEW K
    PROVE  /\ \A n \in Names, k \in Keys : n # name \/ k \notin K =>
                storage_add_index_multiple_columns(P, K)[n][k] = P[n][k]
           /\ \A k \in Keys \cap K :
                P[name][k] = {} /\ (\A u \in K \cap Unique : Repeated(u) = {}) =>
                  storage_add_index_multiple_columns(P, K)[name][k] = RowsPosted(k, rows)
<1>1. \A n \in Names, k \in Keys : n # name \/ k \notin K =>
         storage_add_index_multiple_columns(P, K)[n][k] = P[n][k]
  BY DEF storage_add_index_multiple_columns, PostOK
<1>2. ASSUME NEW k \in Keys \cap K, P[name][k] = {}, \A u \in K \cap Unique : Repeated(u) = {}
      PROVE  storage_add_index_multiple_columns(P, K)[name][k] = RowsPosted(k, rows)
  <2> DEFINE Ok == {j \in DOMAIN rows : \A u \in K \cap Unique : u <= k => j \notin Repeated(u)}
  <2>1. storage_add_index_multiple_columns(P, K)[name][k] =
           P[name][k] \cup {Posting(k, i, rows[i]) : i \in Ok}
    BY DEF storage_add_index_multiple_columns, PostOK
  <2>2. Ok = DOMAIN rows
    BY <1>2
  <2> HIDE DEF Ok
  <2> QED
    BY <1>2, <2>1, <2>2 DEF RowsPosted
<1> QED
  BY <1>1, <1>2

\* ENABLE KEYS, storage mode: a multiple column key is filled from the rows, and
\* a failure leaves out those it had made and not filled.
LEMMA StorageEnableIndex ==
    ASSUME TypeInv, IndexInv, NEW f, storage_enable_indexes(f)
    PROVE  IndexInv'
<1> DEFINE missing == {k \in dict.keys \ Unique : ~IndexColumn(k)}
           o == storage_create_index(grn, lexicon, name, missing, f)
           made == Made(grn, lexicon, name, missing, f)
           filled == {k \in missing : Multiple(k)}
           P == storage_add_index_multiple_columns(post, filled)
<1>1. /\ name \in Names /\ dict.mode = "storage" /\ grn \in Objs /\ lexicon \in Lex
      /\ grn[name].table = TRUE /\ dict.keys \subseteq Keys /\ exact \subseteq dict.keys
      /\ lexicon.cols # {} => lexicon.table
  BY DEF TypeInv, ModeOK, TypesOK, Objs, StorageOpens, storage_enable_indexes, IndexInv, LexiconOK
<1>2. /\ grn' = o.grn /\ lexicon' = o.lexicon /\ dict' = dict
      /\ o.error => Survives(o, post, exact \cup {k \in made : ~Multiple(k)})
      /\ ~o.error => Survives(o, P, exact \cup made)
  BY DEF storage_enable_indexes, Made, Bad
<1>3. /\ missing \subseteq Keys /\ missing \cap Unique = {} /\ filled \subseteq missing
      /\ \A k \in filled : Multiple(k)
      /\ \A k \in missing : ~Multiple(k) => k \notin filled
      /\ \A k \in exact : k \notin missing
  BY <1>1 DEF IndexInv, ExactOK
<1> HIDE DEF missing, filled
<1>4. IndexCreated(grn, lexicon, name, missing, f, o, made)
  BY <1>1, StorageIndexFacts
<1>5. ObjectsMade(grn, lexicon, name, o, made)
  BY <1>1, <1>3, <1>4, CreatedFacts
<1>6. \A k \in made : /\ k \in missing /\ k \notin Foreign
                      /\ k \notin Lexicon => grn[name].index[k] = "none"
  BY <1>3, MadeFacts
<1>7. o.grn[name].table /\ ~o.error => made = missing \ Foreign
  BY <1>4 DEF IndexCreated
<1> HIDE DEF o, made
<1>8. \A k \in exact : /\ k \in Keys
                       /\ k \in Lexicon => k \in lexicon.cols
                       /\ k \notin Lexicon => grn[name].index[k] = "full"
                       /\ Multiple(k) => post[name][k] = RowsPosted(k, rows)
                       /\ k \in Unique => UniqueRows(k, rows)
  BY <1>1 DEF IndexInv, ExactOK, IndexColumn, StorageOK
<1>9. \A n \in Names, k \in Keys : grn[n].index[k] = "none" => post[n][k] = {}
  BY DEF IndexInv, AbsentOK
<1>10. o.grn[name].table =>
         \A k \in exact \cup made :
             /\ k \in Lexicon /\ o.lexicon.table => k \in o.lexicon.cols
             /\ k \notin Lexicon => o.grn[name].index[k] = "full"
  BY <1>1, <1>3, <1>5, <1>6, <1>8 DEF ObjectsMade
<1>11. o.grn[name].table =>
         \A n \in Names, k \in Keys : o.grn[n].index[k] = "none" =>
             /\ grn[n].index[k] = "none" /\ post[n][k] = {}
             /\ n = name => k \notin made \ Lexicon
  BY <1>1, <1>5, <1>9 DEF ObjectsMade
<1>12. o.lexicon.cols # {} => o.lexicon.table
  BY <1>5 DEF ObjectsMade
<1>13. dict'.mode = "storage" /\ dict'.name = name
  BY <1>1, <1>2 DEF name
<1>14. CASE o.error
  <2> DEFINE E == exact \cup {k \in made : ~Multiple(k)}
  <2>1. \A k \in E : /\ k \in exact \cup made /\ k \in Keys
                     /\ Multiple(k) => post[name][k] = RowsPosted(k, rows)
                     /\ k \in Unique => UniqueRows(k, rows)
    BY <1>3, <1>6, <1>8
  <2>2. Survives(o, post, E)
    BY <1>2, <1>14
  <2> HIDE DEF E
  <2>3. o.grn[name].table => Fitting(o, post, E)
    BY <1>10, <1>11, <2>1 DEF Fitting
  <2> QED
    BY <1>1, <1>2, <1>12, <1>13, <2>2, <2>3, StorageDdlIndex
<1>15. CASE ~o.error
  <2> DEFINE E == exact \cup made
  <2>1. PostOK(post) /\ filled \cap Unique = {}
    BY <1>3 DEF TypeInv, TypesOK, PostOK
  <2>2. /\ \A n \in Names, k \in Keys : n # name \/ k \notin filled => P[n][k] = post[n][k]
        /\ \A k \in Keys \cap filled : post[name][k] = {} => P[name][k] = RowsPosted(k, rows)
    BY <1>1, <2>1, AddedPosts
  <2>3. Survives(o, P, E)
    BY <1>2, <1>15
  <2> HIDE DEF E, P
  <2>4. \A k \in Keys : Multiple(k) => k \notin Lexicon \cup Foreign
    BY StorageAssumption
  <2>5. o.grn[name].table => filled \subseteq made \ Lexicon
    BY <1>3, <1>7, <1>15, <2>4
  <2>6. o.grn[name].table => \A k \in E :
                     /\ k \in exact \cup made /\ k \in Keys
                     /\ Multiple(k) => P[name][k] = RowsPosted(k, rows)
                     /\ k \in Unique => UniqueRows(k, rows)
    <3> SUFFICES ASSUME o.grn[name].table, NEW k \in E
                 PROVE  /\ k \in exact \cup made /\ k \in Keys
                        /\ Multiple(k) => P[name][k] = RowsPosted(k, rows)
                        /\ k \in Unique => UniqueRows(k, rows)
      OBVIOUS
    <3>1. CASE k \in exact
      BY <1>1, <1>3, <1>8, <2>2, <3>1
    <3>2. CASE k \in made
      <4>1. k \in missing /\ k \in Keys /\ k \notin Unique
        BY <1>3, <1>6, <3>2
      <4>2. Multiple(k) => k \in filled
        BY <1>3, <4>1 DEF filled
      <4> QED
        BY <1>1, <1>6, <1>9, <2>2, <2>4, <3>2, <4>1, <4>2
    <3> QED
      BY <3>1, <3>2 DEF E
  <2>7. o.grn[name].table =>
         \A n \in Names, k \in Keys : o.grn[n].index[k] = "none" => P[n][k] = {}
    BY <1>11, <2>2, <2>5
  <2>8. E \subseteq Keys
    BY <1>1, <1>3, <1>6 DEF E
  <2>9. \A k \in E : k \in exact \cup made
    BY DEF E
  <2>10. o.grn[name].table => Fitting(o, P, E)
    BY <1>10, <2>6, <2>7, <2>8, <2>9 DEF Fitting
  <2> QED
    BY <1>1, <1>2, <1>12, <1>13, <2>3, <2>10, StorageDdlIndex
<1> QED
  BY <1>14, <1>15

\* REPAIR, storage mode: multiple column keys come back empty, so only those of
\* an empty table answer.
LEMMA StorageRepairIndex ==
    ASSUME TypeInv, IndexInv, NEW f, storage_recreate_indexes(f)
    PROVE  IndexInv'
<1> DEFINE gone == remove_grn_obj_force(grn, name, dict.keys \ Lexicon)
           c == storage_create_indexes(gone, lexicon, name, dict.keys, f)
           o == storage_create_index(gone, lexicon, name, dict.keys, f)
           made == Made(gone, lexicon, name, dict.keys, f)
           P == Emptied(post, name, dict.keys)
           single == {k \in dict.keys \ Foreign : ~Multiple(k) \/ rows = << >>}
           E == {k \in single : k \in Unique => k \in exact \/ rows = << >>}
<1>1. /\ name \in Names /\ dict.mode = "storage" /\ grn \in Objs /\ lexicon \in Lex
      /\ grn[name].table = TRUE /\ dict.keys \subseteq Keys
      /\ lexicon.cols # {} => lexicon.table
      /\ DOMAIN post = Names /\ \A m \in Names : DOMAIN post[m] = Keys
  BY DEF TypeInv, ModeOK, TypesOK, Objs, StorageOpens, storage_recreate_indexes, IndexInv, LexiconOK
<1>2. /\ grn' = c.grn /\ lexicon' = c.lexicon /\ dict' = dict
      /\ c.error => Survives(c, P, {})
      /\ ~c.error => Survives(c, P, E)
  BY DEF storage_recreate_indexes
<1>3. /\ gone \in Objs
      /\ \A m \in Names :
           /\ gone[m].table <=> grn[m].table
           /\ \A k \in Keys : gone[m].index[k] =
                IF m = name /\ k \in dict.keys \ Lexicon THEN "none" ELSE grn[m].index[k]
  BY <1>1, SetIndexFacts DEF remove_grn_obj_force, IndexStates
<1>4. \A m \in Names, k \in Keys : P[m][k] = IF m = name /\ k \in dict.keys THEN {} ELSE post[m][k]
  BY <1>1, EmptiedFacts
<1>5. \A k \in E : /\ k \in dict.keys \ Foreign
                   /\ Multiple(k) => rows = << >>
                   /\ k \in Unique => k \in exact \/ rows = << >>
  OBVIOUS
<1> HIDE DEF gone, P, E
<1>6. gone[name].table = TRUE
  BY <1>1, <1>3 DEF Objs
<1>7. /\ IndexCreated(gone, lexicon, name, dict.keys, f, o, made)
      /\ IndexesCreated(name, c, o, made)
  BY <1>1, <1>3, <1>6, StorageIndexFacts, StorageIndexesFacts
<1>8. ObjectsMade(gone, lexicon, name, o, made)
  BY <1>1, <1>7, CreatedFacts
<1>9. \A k \in made : k \in dict.keys \ Foreign
  BY <1>1, MadeFacts
<1> HIDE DEF c, o, made
<1>10. /\ c.lexicon = o.lexicon /\ c.error = o.error /\ (c.grn[name].table <=> o.grn[name].table)
       /\ ~c.error => c.grn = o.grn /\ made = dict.keys \ Foreign
       /\ \A m \in Names, k \in Keys : c.grn[m].index[k] =
              IF c.error /\ m = name /\ k \in made \ Lexicon THEN "none"
              ELSE o.grn[m].index[k]
  BY <1>1, <1>7 DEF IndexesCreated, IndexCreated
<1>11. \A n \in Names, k \in Keys : grn[n].index[k] = "none" => post[n][k] = {}
  BY DEF IndexInv, AbsentOK
<1>12. c.grn[name].table =>
         \A n \in Names, k \in Keys : c.grn[n].index[k] = "none" => P[n][k] = {}
  <2> SUFFICES ASSUME o.grn[name].table, NEW n \in Names, NEW k \in Keys,
                      c.grn[n].index[k] = "none"
               PROVE  P[n][k] = {}
    BY <1>10
  <2>1. (n = name /\ k \in made) \/ gone[n].index[k] = "none"
    BY <1>8, <1>10 DEF ObjectsMade
  <2> QED
    BY <1>3, <1>4, <1>9, <1>11, <2>1
<1>13. c.lexicon.cols # {} => c.lexicon.table
  BY <1>8, <1>10 DEF ObjectsMade
<1>14. dict'.mode = "storage" /\ dict'.name = name
  BY <1>1, <1>2 DEF name
<1>15. CASE c.error
  <2>1. c.grn[name].table => Fitting(c, P, {})
    BY <1>12 DEF Fitting
  <2> QED
    BY <1>1, <1>2, <1>13, <1>15, <1>14, <2>1, StorageDdlIndex
<1>16. CASE ~c.error
  <2>1. c.grn[name].table =>
          \A k \in E : /\ k \in Lexicon /\ c.lexicon.table => k \in c.lexicon.cols
                       /\ k \notin Lexicon => c.grn[name].index[k] = "full"
    BY <1>1, <1>5, <1>8, <1>10, <1>16 DEF ObjectsMade
  <2>2. \A k \in E : /\ Multiple(k) => P[name][k] = RowsPosted(k, rows)
                     /\ k \in Unique => UniqueRows(k, rows)
    BY <1>1, <1>4, <1>5, NoRowsPosted DEF IndexInv, StorageOK
  <2>3. E \subseteq Keys
    BY <1>1, <1>5
  <2>4. c.grn[name].table => Fitting(c, P, E)
    BY <1>12, <2>1, <2>2, <2>3 DEF Fitting
  <2> QED
    BY <1>1, <1>2, <1>13, <1>16, <1>14, <2>3, <2>4, StorageDdlIndex
<1> QED
  BY <1>15, <1>16

\* ADD UNIQUE INDEX of a single column: table and index table have the same
\* size only if no value occurs twice.
LEMMA SameSizes ==
    ASSUME IsFiniteSet(DOMAIN rows), NEW k, ~SizesDiffer(k)
    PROVE  UniqueRows(k, rows)
<1> DEFINE S == {j \in DOMAIN rows : HasKey(k, rows[j])}
           T == {KeyOf(k, rows[i]) : i \in S}
           g == [i \in S |-> KeyOf(k, rows[i])]
<1>1. IsFiniteSet(S) /\ Cardinality(S) <= Cardinality(DOMAIN rows)
  BY FS_Subset
<1>2. g \in Surjection(S, T)
  BY DEF Surjection
<1>3. Cardinality(DOMAIN rows) = Cardinality(T)
  BY DEF SizesDiffer
<1>4. \A i \in S : g[i] = KeyOf(k, rows[i])
  OBVIOUS
<1>5. \A i \in DOMAIN rows : i \in S <=> HasKey(k, rows[i])
  OBVIOUS
<1> HIDE DEF S, T, g
<1>6. /\ Cardinality(T) <= Cardinality(S)
      /\ Cardinality(T) = Cardinality(S) <=> g \in Injection(S, T)
  BY <1>1, <1>2, FS_Surjection
<1>7. Cardinality(S) \in Nat /\ Cardinality(DOMAIN rows) \in Nat
  BY <1>1, FS_CardinalityType
<1>8. g \in Injection(S, T)
  BY <1>1, <1>3, <1>6, <1>7
<1>9. \A i, j \in S : g[i] = g[j] => i = j
  BY <1>8 DEF Injection, IsInjective
<1> SUFFICES ASSUME NEW i \in DOMAIN rows, NEW j \in DOMAIN rows, HasKey(k, rows[i]),
                    KeyOf(k, rows[i]) = KeyOf(k, rows[j])
             PROVE  i = j
  BY DEF UniqueRows
<1>10. HasKey(k, rows[j])
  BY DEF HasKey
<1> QED
  BY <1>4, <1>5, <1>9, <1>10

\* ADD UNIQUE INDEX of several columns: no row repeats the value of an earlier.
LEMMA NoneRepeated ==
    ASSUME DOMAIN rows \subseteq Nat, NEW k, Repeated(k) = {}
    PROVE  UniqueRows(k, rows)
<1> SUFFICES ASSUME NEW i \in DOMAIN rows, NEW j \in DOMAIN rows,
                    KeyOf(k, rows[i]) = KeyOf(k, rows[j])
             PROVE  i = j
  BY DEF UniqueRows
<1>1. ~(j < i) /\ ~(i < j)
  BY DEF Repeated
<1> QED
  BY <1>1

\* In-place ALTER TABLE, storage mode: the dropped keys lose their postings, an
\* added UNIQUE key is checked by size or row by row, and a failure takes back
\* what was added.
LEMMA StorageAlterIndex ==
    ASSUME TypeInv, IndexInv, NEW D, NEW A, NEW change, NEW f,
           storage_inplace_alter_table(D, A, change, f)
    PROVE  IndexInv'
<1> DEFINE o == AlterOutcome(D, A, change, f)
           d == Dropped(D)
           g == Altered(D, change)
           l == DroppedLex(D)
           add == Added(A)
           many == Many(add)
           P == Emptied(post, name, D)
           Q == storage_add_index_multiple_columns(P, many)
           E == (exact \ D) \cup (IF DuplicateAccepted(many) THEN {} ELSE add)
<1>1. AlterStep(D, A, change, f, o)
  BY AlterSteps
<1>2. o = IF AlterFailed(D, change, f) THEN Objects(d, l, TRUE)
          ELSE storage_inplace_alter_table_add_index(g, l, add, f)
  BY DEF AlterOutcome
<1> HIDE DEF o
<1>3. /\ name \in Names /\ dict.mode = "storage" /\ grn \in Objs /\ lexicon \in Lex
      /\ grn[name].table = TRUE /\ dict.keys \subseteq Keys /\ exact \subseteq dict.keys
      /\ lexicon.cols # {} => lexicon.table
      /\ TypesOK /\ PostOK(post) /\ IsFiniteSet(DOMAIN rows) /\ DOMAIN rows \subseteq Ids
  BY <1>1 DEF AlterStep, TypeInv, ModeOK, RowsOK, TypesOK, Objs, StorageOpens, IndexInv,
              LexiconOK, PostOK
<1>4. /\ grn' = o.grn /\ lexicon' = o.lexicon /\ change \in ColumnChanges
      /\ D \subseteq dict.keys /\ A \subseteq StorageKeys \ (dict.keys \cup Foreign)
      /\ o.error => Survives(o, P, exact \ D) /\ dict' = dict
      /\ ~o.error =>
           /\ Survives(o, Q, E)
           /\ dict' = [dict EXCEPT !.keys = (@ \ D) \cup A, !.cols = ChangeColumns(@, change)]
  BY <1>1 DEF AlterStep, SupportedInplace
<1>5. /\ add \subseteq Keys /\ add \cap Foreign = {} /\ add \cap exact = {}
      /\ many \subseteq add /\ \A k \in add : k \in many <=> Multiple(k)
  BY <1>3, <1>4, StorageAssumption DEF Added, Many
<1>6. dict'.mode = "storage" /\ dict'.name = name
  <2>1. dict \in [mode : {"none", "wrapper", "storage"}, name : Names \cup {NoName},
                  keys : SUBSET Keys, cols : SUBSET Columns]
    BY <1>3 DEF TypesOK
  <2> QED
    BY <1>3, <1>4, <2>1 DEF name
<1>7. /\ d \in Objs /\ l \in Lex /\ g \in Objs
      /\ l.table = lexicon.table /\ l.cols = lexicon.cols \ D
      /\ d[name].table <=> grn[name].table
      /\ g[name].table <=> grn[name].table
      /\ \A m \in Names, k \in Keys :
           /\ d[m].index[k] =
                IF m = name /\ k \in D \ Lexicon THEN "none" ELSE grn[m].index[k]
           /\ g[m].index[k] = d[m].index[k]
  <2>1. ColumnsAltered(D, change, d, g, l)
    BY <1>3, <1>4, AlteredFacts
  <2> HIDE DEF d, g, l
  <2> QED
    BY <1>3, <2>1 DEF ColumnsAltered
<1>8. /\ PostOK(P)
      /\ \A m \in Names, k \in Keys : P[m][k] = IF m = name /\ k \in D THEN {} ELSE post[m][k]
  BY <1>3, EmptiedFacts DEF PostOK
<1> HIDE DEF d, g, l, add, many, P, Q, E
<1>9. /\ d[name].table = TRUE /\ g[name].table = TRUE
      /\ l.cols # {} => l.table
  BY <1>3, <1>7 DEF Objs
<1>10. \A m \in Names, k \in Keys :
        d[m].index[k] = "none" => P[m][k] = {} /\ g[m].index[k] = "none"
  BY <1>7, <1>8 DEF IndexInv, AbsentOK
<1>11. \A k \in exact \ D : /\ k \in Keys /\ k \notin add
                            /\ k \in Lexicon => k \in l.cols
                            /\ k \notin Lexicon => g[name].index[k] = "full"
                            /\ k \notin Lexicon => d[name].index[k] = "full"
                            /\ Multiple(k) => P[name][k] = RowsPosted(k, rows)
                            /\ k \in Unique => UniqueRows(k, rows)
  BY <1>3, <1>5, <1>7, <1>8 DEF IndexInv, ExactOK, IndexColumn, StorageOK
<1>12. CASE AlterFailed(D, change, f)
  <2>1. o.grn = d /\ o.lexicon = l /\ o.error = TRUE
    BY <1>2, <1>12 DEF Objects
  <2>2. Fitting(o, P, exact \ D)
    BY <1>10, <1>11, <2>1 DEF Fitting
  <2> QED
    BY <1>3, <1>4, <1>6, <1>9, <2>1, <2>2, StorageDdlIndex
<1>13. CASE ~AlterFailed(D, change, f)
  <2> DEFINE K == Tried(add)
             c == storage_create_index(g, l, name, K, f)
             made == Made(g, l, name, K, f)
  <2>1. IndexAdded(g, l, add, f, o, c, made)
    BY <1>2, <1>3, <1>7, <1>9, <1>13, AddIndexFacts
  <2>2. K \subseteq Keys /\ K \subseteq add
    BY <1>5 DEF Tried, UpToFirst
  <2> HIDE DEF K
  <2>3. ObjectsMade(g, l, name, c, made)
    <3>1. IndexCreated(g, l, name, K, f, c, made)
      BY <2>1 DEF IndexAdded, K
    <3> QED
      BY <1>7, <1>9, <2>2, <3>1, CreatedFacts
  <2>4. \A k \in made : /\ k \in add /\ k \in Keys
                        /\ k \notin Lexicon => g[name].index[k] = "none"
    BY <2>2, MadeFacts
  <2> HIDE DEF c, made
  <2>5. /\ o.error \in BOOLEAN /\ o.lexicon \in Lex
        /\ ~o.error => o = c /\ made = add \ Foreign
                       /\ Differ(add) = {} /\ ~DuplicateReported(Many(made))
        /\ o.error => o.lexicon = IF made \cap Lexicon = {} THEN c.lexicon
                                  ELSE [table |-> FALSE, cols |-> {}]
        /\ o.grn[name].table <=> c.grn[name].table
        /\ \A m \in Names, k \in Keys : o.grn[m].index[k] =
              IF o.error /\ m = name /\ k \in made \ Lexicon THEN "none"
              ELSE c.grn[m].index[k]
    BY <1>3, <2>1 DEF IndexAdded
  <2>6. o.lexicon.cols # {} => o.lexicon.table
    BY <2>3, <2>5 DEF ObjectsMade
  <2>7. o.grn[name].table => \A m \in Names, k \in Keys :
            o.grn[m].index[k] = "none" =>
              P[m][k] = {} /\ (m = name /\ k \in made \ Lexicon => o.error)
    BY <1>7, <1>10, <2>3, <2>4, <2>5 DEF ObjectsMade
  <2>8. o.grn[name].table => \A k \in exact \ D :
           /\ k \in Lexicon /\ o.lexicon.table => k \in o.lexicon.cols
           /\ k \notin Lexicon => o.grn[name].index[k] = "full"
    BY <1>3, <1>11, <2>3, <2>4, <2>5 DEF ObjectsMade
  <2>9. CASE o.error
    <3>1. o.grn[name].table => Fitting(o, P, exact \ D)
      BY <1>11, <2>7, <2>8 DEF Fitting
    <3> QED
      BY <1>3, <1>4, <1>6, <2>6, <2>9, <3>1, StorageDdlIndex
  <2>10. CASE ~o.error
    <3>1. made = add /\ Many(made) = many
      BY <1>5, <2>5, <2>10 DEF many
    <3>2. /\ \A n \in Names, k \in Keys : n # name \/ k \notin many => Q[n][k] = P[n][k]
          /\ \A k \in Keys \cap many :
               P[name][k] = {} /\ (\A u \in many \cap Unique : Repeated(u) = {}) =>
                 Q[name][k] = RowsPosted(k, rows)
      BY <1>3, <1>8, AddedPosts DEF Q
    <3>3. ~DuplicateAccepted(many) => \A u \in many \cap Unique : Repeated(u) = {}
      BY <2>5, <2>10, <3>1 DEF DuplicateAccepted
    <3>4. ASSUME ~DuplicateAccepted(many), NEW k \in add
          PROVE  /\ Multiple(k) => Q[name][k] = RowsPosted(k, rows)
                 /\ k \in Unique => UniqueRows(k, rows)
      <4>1. CASE Multiple(k)
        <5>1. k \in many /\ k \in Keys /\ k \notin Lexicon
          BY <1>5, <4>1, StorageAssumption
        <5>2. P[name][k] = {}
          BY <1>3, <1>7, <1>10, <2>4, <3>1, <5>1
        <5>3. Q[name][k] = RowsPosted(k, rows)
          BY <3>2, <3>3, <3>4, <5>1, <5>2
        <5>4. k \in Unique => UniqueRows(k, rows)
          BY <1>3, <3>3, <3>4, <5>1, NoneRepeated, ObjectsAssumption
        <5> QED
          BY <5>3, <5>4
      <4>2. CASE ~Multiple(k)
        <5>1. k \in Unique => ~SizesDiffer(k)
          BY <2>5, <2>10, <3>4, <4>2 DEF Differ
        <5> QED
          BY <1>3, <4>2, <5>1, SameSizes
      <4> QED
        BY <4>1, <4>2
    <3>5. o.grn[name].table => \A k \in made :
             /\ k \in Lexicon /\ o.lexicon.table => k \in o.lexicon.cols
             /\ k \notin Lexicon => o.grn[name].index[k] = "full"
      BY <1>3, <2>3, <2>4, <2>5, <2>10 DEF ObjectsMade
    <3>6. o.grn[name].table => \A m \in Names, k \in Keys :
             o.grn[m].index[k] = "none" => Q[m][k] = {}
      <4> SUFFICES ASSUME o.grn[name].table, NEW m \in Names, NEW k \in Keys,
                          o.grn[m].index[k] = "none"
                   PROVE  Q[m][k] = {}
        OBVIOUS
      <4>1. m # name \/ k \notin many
        BY <1>5, <2>7, <2>10, <3>1, StorageAssumption
      <4> QED
        BY <2>7, <3>2, <4>1
    <3>7. \A k \in exact \ D : k \in Keys /\ Q[name][k] = P[name][k]
      BY <1>3, <1>5, <1>11, <3>2
    <3>8. \A k \in E : \/ k \in exact \ D
                       \/ k \in add /\ ~DuplicateAccepted(many)
      BY DEF E
    <3>9. o.grn[name].table => Fitting(o, Q, E)
      BY <1>5, <1>11, <2>8, <3>1, <3>4, <3>5, <3>6, <3>7, <3>8 DEF Fitting
    <3> QED
      BY <1>3, <1>4, <1>6, <2>6, <2>10, <3>9, StorageDdlIndex
  <2> QED
    BY <2>5, <2>9, <2>10
<1> QED
  BY <1>12, <1>13

-----------------------------------------------------------------------------
(* Rows of wrapper mode.                                                   *)

\* What the index part of a row statement leaves fits the rows new.
Agreeing(o, new) ==
    /\ \A n \in Names, k \in Keys : grn[n].index[k] = "none" => o.post[n][k] = {}
    /\ ~o.error /\ ~o.stale =>
         \A k \in exact : /\ DOMAIN new \subseteq DOMAIN o.rec
                          /\ o.post[name][k] = PartsPosted(k, o.rec, new)

\* The keys that must answer are those whose index column the handler has.
LEMMA WrapperExact ==
    ASSUME TypeInv, IndexInv, WrapperOpens
    PROVE  /\ name \in Names /\ dict.mode = "wrapper" /\ exact \subseteq Indexed
           /\ PostOK(post) /\ RecOK(rec) /\ IsFiniteSet(Indexed)
           /\ \A n \in Names, k \in Keys : grn[n].index[k] = "none" => post[n][k] = {}
           /\ \A k \in Indexed : /\ k \in Keys /\ k \in dict.keys
                                 /\ grn[name].index[k] = "full"
           /\ \A k \in exact : /\ DOMAIN rows \subseteq DOMAIN rec
                               /\ post[name][k] = PartsPosted(k, rec, rows)
<1>1. /\ name \in Names /\ dict.mode = "wrapper" /\ exact \subseteq dict.keys
      /\ dict.keys \subseteq Keys /\ PostOK(post) /\ RecOK(rec)
      /\ dict.keys \subseteq WrapperKeys
  BY DEF TypeInv, ModeOK, TypesOK, RowsOK, WrapperOpens, PostOK, RecOK
<1>2. exact \subseteq Indexed
  BY <1>1 DEF IndexInv, ExactOK, Indexed
<1>3. \A k \in Indexed : k \in Keys /\ k \in dict.keys /\ grn[name].index[k] = "full"
  BY <1>1, WrapperAssumption DEF Indexed, IndexColumn
<1>4. IsFiniteSet(Indexed)
  BY <1>3, FS_Subset, ObjectsAssumption
<1> QED
  BY <1>1, <1>2, <1>3, <1>4 DEF IndexInv, AbsentOK, WrapperOK

\* A row statement of wrapper mode whose index outcome agrees with the new rows.
LEMMA RowStatementIndex ==
    ASSUME TypeInv, IndexInv, WrapperOpens, NEW new, NEW o, NEW f, NEW b,
           RowStatement(new, o, f, b), Agreeing(o, new)
    PROVE  IndexInv'
<1>1. dict.mode = "wrapper" /\ exact \subseteq Indexed
  BY WrapperExact
<1>2. /\ SameTable /\ post' = o.post /\ rec' = o.rec
      /\ \/ exact' = {}
         \/ ~o.error /\ ~o.stale /\ rows' = new /\ exact' = exact
  BY <1>1 DEF RowStatement, SameTable
<1>3. \A n \in Names, k \in Keys : grn[n].index[k] = "none" => post'[n][k] = {}
  BY <1>2 DEF Agreeing
<1>4. \A k \in exact' : /\ DOMAIN rows' \subseteq DOMAIN rec'
                        /\ post'[name][k] = PartsPosted(k, rec', rows')
  BY <1>2 DEF Agreeing
<1>5. exact' \subseteq exact
  BY <1>2
<1> QED
  BY <1>1, <1>2, <1>3, <1>4, <1>5, RowsFrame

\* A statement that did not get to the index.
LEMMA UntouchedIndex ==
    ASSUME TypeInv, IndexInv, WrapperOpens, NEW new, NEW o, o.post = post,
           o.error \/ o.stale \/ ~have_target_index
    PROVE  Agreeing(o, new)
<1>1. ~have_target_index => exact = {}
  BY DEF have_target_index, TypeInv, TypesOK
<1> QED
  BY <1>1, WrapperExact DEF Agreeing

\* Without a failure the loop reaches every key.
LEMMA AllKeys ==
    ASSUME NEW f, BadKey(f) = {}
    PROVE  Before(Indexed, BadKey(f)) = Indexed
  BY DEF Before

\* INSERT, wrapper mode: a record is made and each key gets the row's postings.
LEMMA WrapperWriteIndex ==
    ASSUME TypeInv, IndexInv, NEW p \in Pks, NEW r \in Rows, NEW f, NEW b,
           wrapper_write_row(p, r, f, b)
    PROVE  IndexInv'
<1>1. WrapperOpens /\ p \notin DOMAIN rows
  BY DEF wrapper_write_row
<1>2. PICK o \in wrapper_write_row_index(p, r, f) : RowStatement(With(rows, p, r), o, f, b)
  BY DEF wrapper_write_row
<1>3. Agreeing(o, With(rows, p, r))
  <2>1. CASE ~have_target_index /\ o = Unchanged
    BY <1>1, <2>1, UntouchedIndex DEF Unchanged, Outcome
  <2>2. CASE o = Outcome(rec, post, FALSE, TRUE)
    BY <1>1, <2>2, UntouchedIndex DEF Outcome
  <2>3. CASE ~(~have_target_index /\ o = Unchanged) /\ o # Outcome(rec, post, FALSE, TRUE)
    <3> DEFINE B == Before(Indexed, BadKey(f))
    <3>1. PICK i \in AddIds(rec, p) :
               o = Outcome(With(rec, p, i),
                  Posted(LAMBDA k : IF k \in B
                                    THEN Old(k) \cup RowPostings(k, i, r) ELSE Old(k)),
                  BadKey(f) # {}, FALSE)
      BY <1>2, <2>3 DEF wrapper_write_row_index
    <3>2. B \subseteq Indexed /\ (BadKey(f) = {} => B = Indexed)
      BY AllKeys DEF Before
    <3> HIDE DEF B
    <3>3. /\ o.rec = With(rec, p, i) /\ (~o.error => BadKey(f) = {})
          /\ \A n \in Names, k \in Keys : o.post[n][k] =
               IF n = name /\ k \in B THEN post[n][k] \cup RowPostings(k, i, r) ELSE post[n][k]
      BY <1>1, <3>1, WrapperExact DEF Outcome, Posted, Old, PostOK
    <3>4. \A n \in Names, k \in Keys : grn[n].index[k] = "none" => o.post[n][k] = {}
      BY <1>1, <3>2, <3>3, WrapperExact
    <3>5. ASSUME ~o.error, NEW k \in exact
          PROVE  /\ DOMAIN With(rows, p, r) \subseteq DOMAIN o.rec
                 /\ o.post[name][k] = PartsPosted(k, o.rec, With(rows, p, r))
      <4>1. /\ k \in Keys /\ k \in B /\ DOMAIN rows \subseteq DOMAIN rec /\ name \in Names
            /\ post[name][k] = PartsPosted(k, rec, rows)
        BY <1>1, <3>2, <3>3, <3>5, WrapperExact
      <4>2. DOMAIN With(rows, p, r) = DOMAIN rows \cup {p} /\ DOMAIN o.rec = DOMAIN rec \cup {p}
        BY <3>3 DEF With
      <4>3. /\ With(rows, p, r)[p] = r /\ o.rec[p] = i
            /\ \A q \in DOMAIN rows : With(rows, p, r)[q] = rows[q] /\ o.rec[q] = rec[q]
        BY <1>1, <3>3, <4>1 DEF With
      <4>4. PartsPosted(k, o.rec, With(rows, p, r)) =
               PartsPosted(k, rec, rows) \cup RowPostings(k, i, r)
        BY <4>2, <4>3 DEF PartsPosted
      <4> QED
        BY <3>3, <4>1, <4>2, <4>4
    <3> QED
      BY <3>4, <3>5 DEF Agreeing
  <2> QED
    BY <1>2, <2>1, <2>2, <2>3
<1> QED
  BY <1>1, <1>2, <1>3, RowStatementIndex

\* Two records have no posting in common.
LEMMA PostingsApart ==
    ASSUME NEW k, NEW i, NEW j, i # j, NEW r, NEW s
    PROVE  RowPostings(k, i, r) \cap RowPostings(k, j, s) = {}
  BY DEF RowPostings

\* DELETE, wrapper mode: the row's postings go from each key, then its record.
LEMMA WrapperDeleteIndex ==
    ASSUME TypeInv, IndexInv, NEW p \in Pks, NEW f, NEW b, wrapper_delete_row(p, f, b)
    PROVE  IndexInv'
<1>1. WrapperOpens /\ p \in DOMAIN rows
  BY DEF wrapper_delete_row
<1>2. PICK o \in wrapper_delete_row_index(p, f) : RowStatement(Without(rows, p), o, f, b)
  BY DEF wrapper_delete_row
<1>3. Agreeing(o, Without(rows, p))
  <2>1. CASE ~have_target_index /\ o = Unchanged
    BY <1>1, <2>1, UntouchedIndex DEF Unchanged, Outcome
  <2>2. CASE o = Outcome(rec, post, FALSE, TRUE)
    BY <1>1, <2>2, UntouchedIndex DEF Outcome
  <2>3. CASE ~(~have_target_index /\ o = Unchanged) /\ o # Outcome(rec, post, FALSE, TRUE)
    <3> DEFINE B == Before(Indexed, BadKey(f))
    <3>1. o = Outcome(Without(rec, p),
                  Posted(LAMBDA k : IF k \in B
                                    THEN Old(k) \ RowPostings(k, rec[p], rows[p])
                                    ELSE Old(k)),
                  BadKey(f) # {}, FALSE)
      BY <1>2, <2>3 DEF wrapper_delete_row_index
    <3>2. B \subseteq Indexed /\ (BadKey(f) = {} => B = Indexed)
      BY AllKeys DEF Before
    <3> HIDE DEF B
    <3>3. /\ o.rec = Without(rec, p) /\ (~o.error => BadKey(f) = {})
          /\ \A n \in Names, k \in Keys : o.post[n][k] =
               IF n = name /\ k \in B THEN post[n][k] \ RowPostings(k, rec[p], rows[p])
               ELSE post[n][k]
      BY <1>1, <3>1, WrapperExact DEF Outcome, Posted, Old, PostOK
    <3>4. \A n \in Names, k \in Keys : grn[n].index[k] = "none" => o.post[n][k] = {}
      BY <1>1, <3>2, <3>3, WrapperExact
    <3>5. ASSUME ~o.error, NEW k \in exact
          PROVE  /\ DOMAIN Without(rows, p) \subseteq DOMAIN o.rec
                 /\ o.post[name][k] = PartsPosted(k, o.rec, Without(rows, p))
      <4>1. /\ k \in Keys /\ k \in B /\ DOMAIN rows \subseteq DOMAIN rec /\ name \in Names
            /\ post[name][k] = PartsPosted(k, rec, rows) /\ IsInjective(rec)
        BY <1>1, <3>2, <3>3, <3>5, WrapperExact DEF RecOK
      <4>2. /\ DOMAIN Without(rows, p) = DOMAIN rows \ {p} /\ DOMAIN o.rec = DOMAIN rec \ {p}
            /\ \A q \in DOMAIN rows \ {p} : Without(rows, p)[q] = rows[q] /\ o.rec[q] = rec[q]
        BY <3>3, <4>1 DEF Without
      <4>3. \A q \in DOMAIN rows \ {p} : rec[q] # rec[p]
        BY <1>1, <4>1 DEF IsInjective
      <4>4. \A q \in DOMAIN rows \ {p} :
               RowPostings(k, rec[q], rows[q]) \cap RowPostings(k, rec[p], rows[p]) = {}
        BY <4>3, PostingsApart
      <4>5. PartsPosted(k, o.rec, Without(rows, p)) =
               PartsPosted(k, rec, rows) \ RowPostings(k, rec[p], rows[p])
        BY <1>1, <4>2, <4>4 DEF PartsPosted
      <4> QED
        BY <3>3, <4>1, <4>2, <4>5
    <3> QED
      BY <3>4, <3>5 DEF Agreeing
  <2> QED
    BY <1>2, <2>1, <2>2, <2>3 DEF wrapper_delete_row_index
<1> QED
  BY <1>1, <1>2, <1>3, RowStatementIndex

\* DELETE of all rows and TRUNCATE, wrapper mode: the index tables are emptied.
LEMMA WrapperClearIndex ==
    ASSUME TypeInv, IndexInv, NEW b, wrapper_delete_all_rows(b) \/ wrapper_truncate
    PROVE  IndexInv'
<1>1. WrapperOpens /\ \E c : RowStatement(<< >>, ClearedIndexes, None, c)
  BY DEF wrapper_delete_all_rows, wrapper_truncate
<1>2. PICK c : RowStatement(<< >>, ClearedIndexes, None, c)
  BY <1>1
<1> DEFINE o == ClearedIndexes
           K == {k \in dict.keys : IndexTable(k)}
<1>3. Agreeing(o, << >>)
  <2>1. CASE ~have_target_index
    BY <1>1, <2>1, UntouchedIndex DEF ClearedIndexes, Unchanged, Outcome
  <2>2. CASE have_target_index
    <3>1. o.rec = << >> /\ o.post = Emptied(post, name, K)
      BY <2>2 DEF ClearedIndexes, Outcome
    <3>2. Indexed \subseteq K
      BY <1>1, WrapperExact, WrapperAssumption DEF Indexed, IndexTable, TypeInv, ModeOK
    <3> HIDE DEF o, K
    <3>3. \A n \in Names, k \in Keys : o.post[n][k] =
             IF n = name /\ k \in K THEN {} ELSE post[n][k]
      BY <1>1, <3>1, WrapperExact, EmptiedFacts DEF PostOK
    <3>4. \A n \in Names, k \in Keys : grn[n].index[k] = "none" => o.post[n][k] = {}
      BY <1>1, <3>3, WrapperExact
    <3>5. \A k \in exact : o.post[name][k] = {}
      BY <1>1, <3>2, <3>3, WrapperExact
    <3>6. DOMAIN << >> \subseteq DOMAIN o.rec /\ \A k : PartsPosted(k, o.rec, << >>) = {}
      BY NoRows, NoRowsPosted
    <3> QED
      BY <3>4, <3>5, <3>6 DEF Agreeing
  <2> QED
    BY <2>1, <2>2
<1> QED
  BY <1>1, <1>2, <1>3, RowStatementIndex

\* wrapper_update_row_index that does not fail changes every part of every key:
\* the last of them is at position Cardinality(KeyParts).
LEMMA AllParts ==
    ASSUME IsFiniteSet(Indexed), Indexed \subseteq Keys, NEW k \in Indexed
    PROVE  /\ PartsDone(k, Cardinality(KeyParts)) = DOMAIN Parts[k]
           /\ Cardinality(KeyParts) # 0
<1>1. \A h \in Indexed : /\ Parts[h] # << >> /\ h \in Nat
                         /\ Len(Parts[h]) \in Nat /\ DOMAIN Parts[h] = 1 .. Len(Parts[h])
  BY ObjectsAssumption
<1> DEFINE F(h) == {h} \X DOMAIN Parts[h]
<1>2. \A h \in Indexed : IsFiniteSet(F(h))
  <2> SUFFICES ASSUME NEW h \in Indexed PROVE IsFiniteSet({h} \X DOMAIN Parts[h])
    OBVIOUS
  <2>1. IsFiniteSet({h})
    BY FS_Singleton
  <2>2. Len(Parts[h]) \in Int /\ 1 \in Int /\ DOMAIN Parts[h] = 1 .. Len(Parts[h])
    BY <1>1
  <2>3. IsFiniteSet(1 .. Len(Parts[h]))
    BY <2>2, FS_Interval
  <2> QED
    BY <2>1, <2>2, <2>3, FS_Product
<1> DEFINE C == {F(h) : h \in Indexed}
           s == [h \in Indexed |-> F(h)]
<1>3. KeyParts = UNION C
  BY DEF KeyParts
<1>4. IsFiniteSet(C)
  <2>1. s \in Surjection(Indexed, C)
    BY DEF Surjection
  <2> HIDE DEF s, C
  <2> QED
    BY <2>1, FS_Surjection
<1>5. IsFiniteSet(KeyParts)
  <2>1. \A T \in C : IsFiniteSet(T)
    BY <1>2
  <2> HIDE DEF C
  <2> QED
    BY <1>3, <1>4, <2>1, FS_UNION
<1>6. ASSUME NEW t \in DOMAIN Parts[k]
      PROVE  Position(<<k, t>>) <= Cardinality(KeyParts) /\ Cardinality(KeyParts) # 0
  <2> DEFINE x == <<k, t>>
             Y == {y \in KeyParts : Earlier(y, x)}
  <2>1. x \in KeyParts
    BY DEF KeyParts
  <2>2. x \notin Y
    BY <1>1 DEF Earlier
  <2>3. Y \subseteq KeyParts \ {x}
    BY <2>2
  <2>4. /\ IsFiniteSet(KeyParts \ {x})
        /\ Cardinality(KeyParts \ {x}) = Cardinality(KeyParts) - 1
    BY <1>5, <2>1, FS_RemoveElement
  <2>5. Position(x) = Cardinality(Y) + 1
    BY DEF Position
  <2> HIDE DEF x, Y
  <2>6. IsFiniteSet(Y) /\ Cardinality(Y) <= Cardinality(KeyParts \ {x})
    BY <2>3, <2>4, FS_Subset
  <2>7. Cardinality(Y) \in Nat /\ Cardinality(KeyParts) \in Nat
        /\ Cardinality(KeyParts \ {x}) \in Nat
    BY <1>5, <2>4, <2>6, FS_CardinalityType
  <2>8. Position(x) <= Cardinality(KeyParts) /\ Cardinality(KeyParts) # 0
    BY <2>4, <2>5, <2>6, <2>7
  <2> QED
    BY <2>8 DEF x
<1>7. 1 \in DOMAIN Parts[k]
  BY <1>1, ObjectsAssumption
<1> QED
  BY <1>6, <1>7 DEF PartsDone

\* All parts replaced: the old row's postings go, the new row's come.
LEMMA AllReplaced ==
    ASSUME NEW k, NEW i, NEW old, NEW j, NEW r
    PROVE  Replaced(k, i, old, j, r, DOMAIN Parts[k]) =
              (Old(k) \ RowPostings(k, i, old)) \cup RowPostings(k, j, r)
  BY DEF Replaced, RowPostings

\* UPDATE, wrapper mode: the row keeps its record, or gets a new one when its
\* primary key changed, and each part is replaced in its turn.
LEMMA WrapperUpdateIndex ==
    ASSUME TypeInv, IndexInv, NEW p \in Pks, NEW q \in Pks, NEW r \in Rows, NEW f, NEW b,
           wrapper_update_row(p, q, r, f, b)
    PROVE  IndexInv'
<1> DEFINE new == With(Without(rows, p), q, r)
<1>1. WrapperOpens /\ p \in DOMAIN rows /\ (q = p \/ q \notin DOMAIN rows)
  BY DEF wrapper_update_row
<1>2. PICK o \in wrapper_update_row_index(p, q, r, f) : RowStatement(new, o, f, b)
  BY DEF wrapper_update_row
<1>3. /\ DOMAIN new = (DOMAIN rows \ {p}) \cup {q} /\ new[q] = r
      /\ \A t \in DOMAIN rows \ {p, q} : new[t] = rows[t]
  BY DEF With, Without
<1> HIDE DEF new
<1>4. ASSUME NEW j \in AddIds(rec, q), Updated(p, q, r, j, o)
      PROVE  Agreeing(o, new)
  <2> DEFINE R == With(rec, q, j)
  <2>1. RecOK(R) /\ DOMAIN R = DOMAIN rec \cup {q} /\ R[q] = j
        /\ \A t \in DOMAIN rec : R[t] = rec[t]
    <3>1. RecOK(R)
      BY <1>1, RecAdded, WrapperExact
    <3> QED
      BY <3>1 DEF With, AddIds
  <2> HIDE DEF R
  <2>2. CASE o.post = post /\ o.stale
    BY <1>1, <2>2, UntouchedIndex
  <2>3. ASSUME NEW n, p \in DOMAIN R, o.error \/ n = Cardinality(KeyParts),
               (R[p] = j /\ o.rec = R) \/ (R[p] # j /\ o.rec = Without(R, p)),
               o.post = UpdatedPost(p, R[p], j, r, n)
        PROVE  Agreeing(o, new)
    <3>1. \A m \in Names, k \in Keys : o.post[m][k] =
             IF m = name /\ k \in Indexed
             THEN Replaced(k, R[p], rows[p], j, r, PartsDone(k, n)) ELSE post[m][k]
      BY <1>1, <2>3, WrapperExact DEF UpdatedPost, Posted, Old, PostOK
    <3>2. \A m \in Names, k \in Keys : grn[m].index[k] = "none" => o.post[m][k] = {}
      BY <1>1, <3>1, WrapperExact
    <3>3. ASSUME ~o.error, NEW k \in exact
          PROVE  /\ DOMAIN new \subseteq DOMAIN o.rec
                 /\ o.post[name][k] = PartsPosted(k, o.rec, new)
      <4>1. /\ k \in Keys /\ k \in Indexed /\ DOMAIN rows \subseteq DOMAIN rec /\ name \in Names
            /\ post[name][k] = PartsPosted(k, rec, rows)
            /\ IsFiniteSet(Indexed) /\ Indexed \subseteq Keys
        BY <1>1, <3>3, WrapperExact
      <4>2. PartsDone(k, n) = DOMAIN Parts[k]
        BY <2>3, <3>3, <4>1, AllParts
      <4>3. o.post[name][k] =
               (post[name][k] \ RowPostings(k, R[p], rows[p])) \cup RowPostings(k, j, r)
        BY <3>1, <4>1, <4>2, AllReplaced DEF Old
      <4>4. \A t, u \in DOMAIN R : R[t] = R[u] => t = u
        BY <2>1 DEF RecOK, IsInjective
      <4>5. \/ q = p /\ o.rec = R
            \/ q # p /\ o.rec = Without(R, p)
        BY <2>1, <2>3, <4>4
      <4>6. /\ q \in DOMAIN o.rec /\ o.rec[q] = j
            /\ \A t \in DOMAIN rows \ {p, q} : t \in DOMAIN o.rec /\ o.rec[t] = rec[t]
        BY <2>1, <4>1, <4>5 DEF Without
      <4>7. /\ DOMAIN new \subseteq DOMAIN o.rec
            /\ DOMAIN new = (DOMAIN rows \ {p, q}) \cup {q}
        BY <1>1, <1>3, <4>6
      <4>8. \A t \in DOMAIN rows \ {p, q} :
               RowPostings(k, rec[t], rows[t]) \cap RowPostings(k, R[p], rows[p]) = {}
        BY <2>1, <2>3, <4>1, <4>4, PostingsApart
      <4>9. R[p] = rec[p] /\ DOMAIN rows = (DOMAIN rows \ {p, q}) \cup {p}
        BY <1>1, <2>1, <4>1
      <4> DEFINE Rest == UNION {RowPostings(k, rec[t], rows[t]) : t \in DOMAIN rows \ {p, q}}
      <4>10. PartsPosted(k, rec, rows) = Rest \cup RowPostings(k, rec[p], rows[p])
        BY <4>9 DEF PartsPosted
      <4>11. PartsPosted(k, o.rec, new) = Rest \cup RowPostings(k, j, r)
        BY <1>3, <4>6, <4>7 DEF PartsPosted
      <4>12. Rest \cap RowPostings(k, R[p], rows[p]) = {}
        BY <4>8
      <4> HIDE DEF Rest
      <4> QED
        BY <4>1, <4>3, <4>7, <4>9, <4>10, <4>11, <4>12
    <3> QED
      BY <3>2, <3>3 DEF Agreeing
  <2>4. CASE o.post = post /\ (o.error \/ 0 = Cardinality(KeyParts))
    <3>1. exact # {} => Cardinality(KeyParts) # 0
      BY <1>1, AllParts, WrapperExact
    <3> QED
      BY <1>1, <2>4, <3>1, WrapperExact DEF Agreeing
  <2>5. \/ p \notin DOMAIN R /\ o.rec = R /\ o.post = post /\ o.stale
        \/ /\ p \in DOMAIN R
           /\ \E n :
                /\ o.error \/ n = Cardinality(KeyParts)
                /\ \/ R[p] = j /\ o.rec = R /\ o.post = UpdatedPost(p, R[p], j, r, n)
                   \/ R[p] # j /\ o.rec = Without(R, p) /\ o.post = UpdatedPost(p, R[p], j, r, n)
                   \/ R[p] # j /\ n = 0 /\ o.rec = R /\ o.post = post
    BY <1>4, Zenon DEF Updated, R
  <2>6. CASE p \in DOMAIN R
    <3>1. PICK n :
            /\ o.error \/ n = Cardinality(KeyParts)
            /\ \/ R[p] = j /\ o.rec = R /\ o.post = UpdatedPost(p, R[p], j, r, n)
               \/ R[p] # j /\ o.rec = Without(R, p) /\ o.post = UpdatedPost(p, R[p], j, r, n)
               \/ R[p] # j /\ n = 0 /\ o.rec = R /\ o.post = post
      BY <2>5, <2>6
    <3>2. CASE o.post = UpdatedPost(p, R[p], j, r, n)
               /\ ((R[p] = j /\ o.rec = R) \/ (R[p] # j /\ o.rec = Without(R, p)))
      BY <2>3, <2>6, <3>1, <3>2
    <3>3. CASE n = 0 /\ o.post = post
      BY <2>4, <3>1, <3>3
    <3> QED
      BY <3>1, <3>2, <3>3
  <2> QED
    BY <2>2, <2>5, <2>6
<1>5. Agreeing(o, new)
  <2>1. CASE ~have_target_index /\ o = Unchanged
    BY <1>1, <2>1, UntouchedIndex DEF Unchanged, Outcome
  <2>2. CASE o = Outcome(rec, post, TRUE, FALSE)
    BY <1>1, <2>2, UntouchedIndex DEF Outcome
  <2> QED
    BY <1>2, <1>4, <2>1, <2>2, UpdateCases
<1> QED
  BY <1>1, <1>2, <1>5, RowStatementIndex

-----------------------------------------------------------------------------
(* DDL of wrapper mode.                                                    *)

\* The keys that must answer after a statement have their index column and
\* its postings.
LEMMA WrapperDdlIndex ==
    ASSUME IndexInv, NEW n, dict'.mode = "wrapper", dict'.name = n, lexicon' = lexicon,
           exact' \cap Lexicon = {},
           \A m \in Names, k \in Keys : grn'[m].index[k] = "none" => post'[m][k] = {},
           \A k \in exact' : /\ grn'[n].index[k] = "full"
                             /\ DOMAIN rows' \subseteq DOMAIN rec'
                             /\ post'[n][k] = PartsPosted(k, rec', rows')
    PROVE  IndexInv'
<1>1. AbsentOK' /\ LexiconOK' /\ StorageOK'
  BY DEF AbsentOK, LexiconOK, StorageOK, IndexInv
<1>2. ExactOK'
  BY DEF ExactOK, IndexColumn, name
<1>3. WrapperOK'
  BY DEF WrapperOK, name
<1> QED
  BY <1>1, <1>2, <1>3 DEF IndexInv

\* wrapper_create_index_fulltext of a key that it does not fail for.
LEMMA FulltextMade ==
    ASSUME NEW g \in Objs, NEW n \in Names, NEW K, NEW f
    PROVE  LET w == wrapper_create_index_fulltext(g, n, K, f) IN
           /\ \A m \in Names, k \in Keys :
                /\ w[m].index[k] = "none" => g[m].index[k] = "none"
                /\ m # n \/ k \notin K \/ g[m].index[k] # "none" => w[m].index[k] = g[m].index[k]
           /\ \A k \in K \cap Keys : k \notin CreateFails(g, n, K, f) =>
                g[n].index[k] = "none" /\ w[n].index[k] = "full"
<1> DEFINE w == wrapper_create_index_fulltext(g, n, K, f)
<1>1. \A m \in Names, k \in Keys : w[m].index[k] =
         IF m = n /\ k \in K /\ g[m].index[k] = "none" /\ f # <<"index_table", k>>
         THEN IF f = <<"index_column", k>> THEN "table" ELSE "full"
         ELSE g[m].index[k]
  BY FulltextFacts
<1> HIDE DEF w
<1>2. \A k \in K \cap Keys : k \notin CreateFails(g, n, K, f) =>
         g[n].index[k] = "none" /\ f # <<"index_table", k>> /\ f # <<"index_column", k>>
  BY DEF CreateFails
<1>3. \A m \in Names, k \in Keys :
         /\ w[m].index[k] = "none" => g[m].index[k] = "none"
         /\ m # n \/ k \notin K \/ g[m].index[k] # "none" => w[m].index[k] = g[m].index[k]
  BY <1>1
<1>4. \A k \in K \cap Keys : k \notin CreateFails(g, n, K, f) =>
         g[n].index[k] = "none" /\ w[n].index[k] = "full"
  BY <1>1, <1>2
<1> QED
  BY <1>3, <1>4 DEF w

\* CREATE TABLE, wrapper mode.
LEMMA WrapperCreateIndex ==
    ASSUME TypeInv, IndexInv, NEW n \in Names, NEW f, NEW K, wrapper_create(n, K, f)
    PROVE  IndexInv'
<1> DEFINE c == wrapper_create_index(grn, n, K, f)
<1>1. /\ dict.mode = "none" /\ grn \in Objs /\ K \subseteq WrapperKeys /\ K \subseteq Keys
      /\ PostOK(post)
  BY WrapperAssumption DEF wrapper_create, TypeInv, TypesOK, PostOK
<1>2. /\ rows' = << >> /\ lexicon' = lexicon
      /\ \E L : post' = Emptied(post, n, L)
      /\ \/ dict' = dict /\ exact' = {}
         \/ /\ dict' = [mode |-> "wrapper", name |-> n, keys |-> K, cols |-> {}]
            /\ exact' = {k \in K : k \notin CreateFails(grn, n, K, f)}
            /\ grn' = c.grn /\ ~c.error
  BY DEF wrapper_create
<1>3. ~c.error => \A k \in Keys : c.grn[n].index[k] =
         IF k \in K /\ grn[n].index[k] = "none" /\ f # <<"index_table", k>>
         THEN IF f = <<"index_column", k>> THEN "table" ELSE "full"
         ELSE grn[n].index[k]
  BY <1>1, WrapperIndexFacts
<1> HIDE DEF c
<1>4. PICK L : post' = Emptied(post, n, L)
  BY <1>2
<1>5. \A m \in Names, k \in Keys : post'[m][k] = {}
  BY <1>1, <1>4, EmptiedFacts DEF PostOK, IndexInv, AbsentOK
<1>6. CASE dict' = dict /\ exact' = {}
  <2>1. AbsentOK' /\ LexiconOK'
    BY <1>2, <1>5 DEF AbsentOK, LexiconOK, IndexInv
  <2>2. ExactOK' /\ StorageOK' /\ WrapperOK'
    BY <1>6 DEF ExactOK, StorageOK, WrapperOK
  <2> QED
    BY <2>1, <2>2 DEF IndexInv
<1>7. CASE /\ dict' = [mode |-> "wrapper", name |-> n, keys |-> K, cols |-> {}]
           /\ exact' = {k \in K : k \notin CreateFails(grn, n, K, f)}
           /\ grn' = c.grn /\ ~c.error
  <2>1. dict'.mode = "wrapper" /\ dict'.name = n
    BY <1>7
  <2>2. \A k \in exact' : k \in K /\ grn'[n].index[k] = "full"
    BY <1>1, <1>3, <1>7 DEF CreateFails
  <2>3. exact' \cap Lexicon = {}
    BY <1>1, <2>2, WrapperAssumption
  <2>4. \A k \in exact' : /\ DOMAIN rows' \subseteq DOMAIN rec'
                          /\ post'[n][k] = PartsPosted(k, rec', rows')
    BY <1>1, <1>2, <1>5, <2>2, NoRows, NoRowsPosted
  <2> QED
    BY <1>2, <1>5, <2>1, <2>2, <2>3, <2>4, WrapperDdlIndex
<1> QED
  BY <1>2, <1>6, <1>7

\* DISABLE KEYS, wrapper mode.
LEMMA WrapperDisableIndex ==
    ASSUME TypeInv, IndexInv, wrapper_disable_indexes
    PROVE  IndexInv'
<1>1. /\ WrapperOpens /\ UNCHANGED <<dict, lexicon>> /\ exact' = {}
      /\ grn' = SetIndex(grn, name, dict.keys, "none")
      /\ post' = Emptied(post, name, dict.keys)
  BY DEF wrapper_disable_indexes
<1>2. name \in Names /\ dict.mode = "wrapper" /\ PostOK(post) /\ grn \in Objs
  BY <1>1, WrapperExact DEF TypeInv, TypesOK
<1>3. \A m \in Names, k \in Keys :
         /\ grn'[m].index[k] = IF m = name /\ k \in dict.keys THEN "none" ELSE grn[m].index[k]
         /\ post'[m][k] = IF m = name /\ k \in dict.keys THEN {} ELSE post[m][k]
  BY <1>1, <1>2, SetIndexFacts, EmptiedFacts DEF IndexStates, PostOK
<1>4. \A m \in Names, k \in Keys : grn'[m].index[k] = "none" => post'[m][k] = {}
  BY <1>1, <1>3, WrapperExact
<1>5. dict'.mode = "wrapper" /\ dict'.name = name
  BY <1>1, <1>2 DEF name
<1> QED
  BY <1>1, <1>4, <1>5, WrapperDdlIndex

\* wrapper_fill_indexes adds what the rows need.
LEMMA FilledPosts ==
    ASSUME NEW P, PostOK(P), name \in Names, NEW R, NEW K
    PROVE  \A n \in Names, k \in Keys : wrapper_fill_indexes(R, P, K)[n][k] =
              IF n = name /\ k \in K THEN P[n][k] \cup PartsPosted(k, R, rows) ELSE P[n][k]
  BY DEF wrapper_fill_indexes, PartsPosted, PostOK

\* The records that the rows had they keep.
LEMMA SameRecords ==
    ASSUME DOMAIN rows \subseteq DOMAIN rec, NEW R, \A p \in DOMAIN rec : R[p] = rec[p], NEW k
    PROVE  PartsPosted(k, R, rows) = PartsPosted(k, rec, rows)
  BY DEF PartsPosted

\* ENABLE KEYS, wrapper mode: the rows without a record get one, the others keep
\* theirs, and the missing keys are filled.
LEMMA WrapperEnableIndex ==
    ASSUME TypeInv, IndexInv, NEW f, wrapper_enable_indexes(f)
    PROVE  IndexInv'
<1> DEFINE missing == {k \in dict.keys : ~IndexColumn(k)}
           bad == CreateFails(grn, name, missing, f)
           tried == UpToFirst(missing, bad)
<1>1. /\ WrapperOpens /\ UNCHANGED <<dict, lexicon, rows>>
      /\ grn' = wrapper_create_index_fulltext(grn, name, tried, f)
      /\ \/ UNCHANGED <<rec, post, exact>>
         \/ /\ bad = {}
            /\ \E R \in FilledRecs(rec) : rec' = R /\ post' = wrapper_fill_indexes(R, post, missing)
            /\ exact' = exact \cup missing
  BY DEF wrapper_enable_indexes
<1>2. /\ name \in Names /\ dict.mode = "wrapper" /\ PostOK(post) /\ grn \in Objs
      /\ exact \subseteq Indexed /\ dict.keys \subseteq WrapperKeys
  BY <1>1, WrapperExact DEF TypeInv, TypesOK, ModeOK
<1>3. /\ missing \subseteq Keys /\ missing \cap Lexicon = {} /\ exact \cap Lexicon = {}
      /\ \A k \in exact : k \notin missing
  BY <1>2, WrapperAssumption DEF Indexed
<1>4. bad = {} => tried = missing
  BY DEF UpToFirst
<1> HIDE DEF missing, bad, tried
<1>5. \A m \in Names, k \in Keys :
        /\ grn'[m].index[k] = "none" => grn[m].index[k] = "none"
        /\ grn[m].index[k] # "none" => grn'[m].index[k] = grn[m].index[k]
  BY <1>1, <1>2, FulltextMade
<1>6. \A k \in exact : /\ k \in Keys /\ grn'[name].index[k] = "full"
                       /\ DOMAIN rows \subseteq DOMAIN rec
                       /\ post[name][k] = PartsPosted(k, rec, rows)
  BY <1>1, <1>2, <1>5, WrapperExact
<1>7. dict'.mode = "wrapper" /\ dict'.name = name
  BY <1>1, <1>2 DEF name
<1>8. \A m \in Names, k \in Keys : grn'[m].index[k] = "none" => post[m][k] = {}
  BY <1>1, <1>5, WrapperExact
<1>9. CASE UNCHANGED <<rec, post, exact>>
  BY <1>1, <1>3, <1>6, <1>7, <1>8, <1>9, WrapperDdlIndex
<1>10. CASE /\ bad = {}
            /\ \E R \in FilledRecs(rec) : rec' = R /\ post' = wrapper_fill_indexes(R, post, missing)
            /\ exact' = exact \cup missing
  <2>1. \A k \in missing : grn[name].index[k] = "none" /\ grn'[name].index[k] = "full"
    <3>1. CreateFails(grn, name, missing, f) = {} /\ tried = missing
      BY <1>4, <1>10 DEF bad
    <3> QED
      BY <1>1, <1>2, <1>3, <3>1, FulltextMade
  <2>2. PICK R \in FilledRecs(rec) : rec' = R /\ post' = wrapper_fill_indexes(R, post, missing)
    BY <1>10
  <2>3. /\ DOMAIN rec' = DOMAIN rows \cup DOMAIN rec
        /\ \A p \in DOMAIN rec : rec'[p] = rec[p]
    BY <2>2, FilledFacts
  <2>4. \A m \in Names, k \in Keys : post'[m][k] =
           IF m = name /\ k \in missing THEN post[m][k] \cup PartsPosted(k, rec', rows)
           ELSE post[m][k]
    BY <1>2, <2>2, FilledPosts
  <2>5. \A m \in Names, k \in Keys : grn'[m].index[k] = "none" => post'[m][k] = {}
    BY <1>8, <2>1, <2>4
  <2>6. \A k \in exact' : /\ grn'[name].index[k] = "full"
                          /\ DOMAIN rows' \subseteq DOMAIN rec'
                          /\ post'[name][k] = PartsPosted(k, rec', rows')
    <3> SUFFICES ASSUME NEW k \in exact' PROVE /\ grn'[name].index[k] = "full"
                                               /\ post'[name][k] = PartsPosted(k, rec', rows)
      BY <1>1, <2>3
    <3>1. CASE k \in exact
      <4>1. PartsPosted(k, rec', rows) = PartsPosted(k, rec, rows)
        BY <1>6, <2>3, <3>1, SameRecords
      <4> QED
        BY <1>2, <1>3, <1>6, <2>4, <3>1, <4>1
    <3>2. CASE k \in missing
      <4>1. post[name][k] = {}
        BY <1>1, <1>2, <1>3, <2>1, <3>2, WrapperExact
      <4> QED
        BY <1>2, <1>3, <2>1, <2>4, <3>2, <4>1
    <3> QED
      BY <1>10, <3>1, <3>2
  <2>7. exact' \cap Lexicon = {}
    BY <1>3, <1>10
  <2> QED
    BY <1>1, <1>7, <2>5, <2>6, <2>7, WrapperDdlIndex
<1> QED
  BY <1>1, <1>9, <1>10

\* REPAIR, wrapper mode: all records are made anew and every key filled from the
\* rows.
LEMMA WrapperRepairIndex ==
    ASSUME TypeInv, IndexInv, NEW f, wrapper_repair(f)
    PROVE  IndexInv'
<1> DEFINE g == remove_grn_obj_force(grn, name, dict.keys)
           gone == [g EXCEPT ![name].table = FALSE]
           c == wrapper_create_index(gone, name, dict.keys, f)
           made == {k \in dict.keys : c.grn[name].index[k] = "full"}
           P == Emptied(post, name, dict.keys)
<1>1. /\ dict.mode = "wrapper" /\ UNCHANGED <<dict, lexicon, rows>> /\ grn' = c.grn
      /\ \/ exact' = {} /\ post' = P
         \/ /\ ~c.error
            /\ \E R \in FilledRecs(<< >>) : rec' = R /\ post' = wrapper_fill_indexes(R, P, made)
            /\ exact' = IF f = None THEN dict.keys ELSE made
  BY DEF wrapper_repair
<1>2. /\ name \in Names /\ PostOK(post) /\ grn \in Objs /\ dict.keys \subseteq Keys
      /\ dict.keys \cap Lexicon = {}
      /\ \A m \in Names, k \in Keys : grn[m].index[k] = "none" => post[m][k] = {}
  BY <1>1, WrapperAssumption DEF TypeInv, TypesOK, ModeOK, PostOK, IndexInv, AbsentOK
<1>3. /\ g \in Objs
      /\ \A m \in Names, k \in Keys : g[m].index[k] =
           IF m = name /\ k \in dict.keys THEN "none" ELSE grn[m].index[k]
  BY <1>2, SetIndexFacts DEF remove_grn_obj_force, IndexStates
<1> HIDE DEF g
<1>4. gone \in Objs /\ \A m \in Names, k \in Keys : gone[m].index[k] = g[m].index[k]
  <2>1. g \in Objs
    BY <1>3
  <2>2. gone \in Objs
    BY <2>1 DEF Objs
  <2>3. \A m \in Names : gone[m].index = g[m].index
    BY <1>2, <2>1 DEF Objs
  <2> QED
    BY <2>2, <2>3
<1> HIDE DEF gone
<1>5. \A m \in Names, k \in Keys : c.grn[m].index[k] =
         IF ~c.error /\ m = name /\ k \in dict.keys /\ gone[m].index[k] = "none"
             /\ f # <<"index_table", k>>
         THEN IF f = <<"index_column", k>> THEN "table" ELSE "full"
         ELSE gone[m].index[k]
  BY <1>2, <1>4, WrapperIndexFacts
<1>6. \A k \in made : k \in dict.keys /\ c.grn[name].index[k] = "full"
  OBVIOUS
<1>7. ~c.error /\ f = None => made = dict.keys
  BY <1>2, <1>3, <1>4, <1>5 DEF None
<1>8. /\ PostOK(P)
      /\ \A m \in Names, k \in Keys : P[m][k] =
           IF m = name /\ k \in dict.keys THEN {} ELSE post[m][k]
  BY <1>2, EmptiedTypes, EmptiedFacts DEF PostOK
<1> HIDE DEF c, made, P
<1>9. \A m \in Names, k \in Keys : grn'[m].index[k] = "none" => P[m][k] = {}
  BY <1>1, <1>2, <1>3, <1>4, <1>5, <1>8
<1>10. dict'.mode = "wrapper" /\ dict'.name = name
  BY <1>1 DEF name
<1>11. CASE exact' = {} /\ post' = P
  BY <1>1, <1>9, <1>10, <1>11, WrapperDdlIndex
<1>12. CASE /\ ~c.error
            /\ \E R \in FilledRecs(<< >>) : rec' = R /\ post' = wrapper_fill_indexes(R, P, made)
            /\ exact' = IF f = None THEN dict.keys ELSE made
  <2>1. exact' = made
    BY <1>7, <1>12
  <2>2. PICK R \in FilledRecs(<< >>) : rec' = R /\ post' = wrapper_fill_indexes(R, P, made)
    BY <1>12
  <2>3. DOMAIN rows \subseteq DOMAIN rec'
    BY <2>2, FilledFacts
  <2>4. \A m \in Names, k \in Keys : post'[m][k] =
           IF m = name /\ k \in made THEN P[m][k] \cup PartsPosted(k, rec', rows) ELSE P[m][k]
    <3>1. PostOK(P) /\ name \in Names
      BY <1>2, <1>8
    <3> QED
      BY <2>2, <3>1, FilledPosts
  <2>5. \A m \in Names, k \in Keys : grn'[m].index[k] = "none" => post'[m][k] = {}
    BY <1>1, <1>6, <1>9, <2>4
  <2>6. \A k \in exact' : /\ grn'[name].index[k] = "full"
                          /\ DOMAIN rows' \subseteq DOMAIN rec'
                          /\ post'[name][k] = PartsPosted(k, rec', rows')
    <3> SUFFICES ASSUME NEW k \in made
                 PROVE  /\ grn'[name].index[k] = "full"
                        /\ post'[name][k] = PartsPosted(k, rec', rows)
      BY <1>1, <2>1, <2>3
    <3>1. k \in Keys /\ k \in dict.keys /\ name \in Names
      BY <1>2, <1>6
    <3>2. P[name][k] = {}
      BY <1>8, <3>1
    <3>3. post'[name][k] = P[name][k] \cup PartsPosted(k, rec', rows)
      BY <2>4, <3>1
    <3> QED
      BY <1>1, <1>6, <3>2, <3>3
  <2>7. exact' \cap Lexicon = {}
    BY <1>2, <1>6, <2>1
  <2> QED
    BY <1>1, <1>10, <2>5, <2>6, <2>7, WrapperDdlIndex
<1> QED
  BY <1>1, <1>11, <1>12

\* In-place ALTER TABLE, wrapper mode: the keys that stay keep their postings
\* because the rows keep their records.
LEMMA WrapperAlterIndex ==
    ASSUME TypeInv, IndexInv, NEW D, NEW A, NEW f, wrapper_inplace_alter_table(D, A, f)
    PROVE  IndexInv'
<1> DEFINE add == IF disable_keys THEN {} ELSE A
           g == drop_index(grn, name, D)
           bad == CreateFails(g, name, add, f)
           tried == UpToFirst(add, bad)
           P == Emptied(post, name, D)
<1>1. /\ WrapperOpens /\ UNCHANGED <<lexicon, rows>>
      /\ D \subseteq dict.keys /\ A \subseteq WrapperKeys \ dict.keys
      /\ rec' \in FilledRecs(rec) \/ rec' = rec
      /\ \/ /\ post' = P /\ exact' = exact \ D /\ dict' = dict
            /\ grn' = SetIndex(wrapper_create_index_fulltext(g, name, tried, f),
                               name, {k \in tried : g[name].index[k] = "none"}, "none")
         \/ /\ post' = wrapper_fill_indexes(rec', P, add)
            /\ grn' = wrapper_create_index_fulltext(g, name, add, f)
            /\ bad = {} /\ exact' = (exact \ D) \cup add
            /\ add # {} => rec' \in FilledRecs(rec)
            /\ dict' = [dict EXCEPT !.keys = (@ \ D) \cup A]
  BY DEF wrapper_inplace_alter_table
<1>2. /\ name \in Names /\ dict.mode = "wrapper" /\ PostOK(post) /\ grn \in Objs
      /\ exact \subseteq dict.keys /\ dict.keys \subseteq WrapperKeys
      /\ dict \in [mode : {"none", "wrapper", "storage"}, name : Names \cup {NoName},
                   keys : SUBSET Keys, cols : SUBSET Columns]
      /\ \A m \in Names, k \in Keys : grn[m].index[k] = "none" => post[m][k] = {}
  BY <1>1, WrapperExact DEF TypeInv, TypesOK, ModeOK
<1>3. /\ add \subseteq Keys /\ add \subseteq A /\ add \cap Lexicon = {} /\ add \cap dict.keys = {}
      /\ D \cap Lexicon = {} /\ exact \cap Lexicon = {} /\ exact \subseteq Keys
  BY <1>1, <1>2, WrapperAssumption
<1>4. /\ g \in Objs
      /\ \A m \in Names, k \in Keys : g[m].index[k] =
           IF m = name /\ k \in D THEN "none" ELSE grn[m].index[k]
  BY <1>2, <1>3, SetIndexFacts DEF drop_index, IndexStates
<1>5. /\ PostOK(P)
      /\ \A m \in Names, k \in Keys : P[m][k] = IF m = name /\ k \in D THEN {} ELSE post[m][k]
  BY <1>2, EmptiedTypes, EmptiedFacts DEF PostOK
<1> HIDE DEF add, g, bad, tried, P
<1>6. \A m \in Names, k \in Keys : g[m].index[k] = "none" => P[m][k] = {}
  BY <1>2, <1>4, <1>5
<1>7. dict'.mode = "wrapper" /\ dict'.name = name
  BY <1>1, <1>2 DEF name
<1>8. /\ DOMAIN rec' = DOMAIN rec \/ DOMAIN rec' = DOMAIN rows \cup DOMAIN rec
      /\ \A p \in DOMAIN rec : rec'[p] = rec[p]
      /\ rec' \in FilledRecs(rec) => DOMAIN rows \subseteq DOMAIN rec'
  BY <1>1, FilledFacts
<1>9. \A k \in exact \ D : /\ k \in Keys /\ k \notin add /\ g[name].index[k] = "full"
                           /\ DOMAIN rows \subseteq DOMAIN rec'
                           /\ P[name][k] = PartsPosted(k, rec', rows)
  <2> SUFFICES ASSUME NEW k \in exact \ D
               PROVE  /\ k \in Keys /\ k \notin add /\ g[name].index[k] = "full"
                      /\ DOMAIN rows \subseteq DOMAIN rec'
                      /\ P[name][k] = PartsPosted(k, rec', rows)
    OBVIOUS
  <2>1. /\ DOMAIN rows \subseteq DOMAIN rec /\ grn[name].index[k] = "full"
        /\ post[name][k] = PartsPosted(k, rec, rows)
    BY <1>1, WrapperExact
  <2>2. PartsPosted(k, rec', rows) = PartsPosted(k, rec, rows)
    BY <1>8, <2>1, SameRecords
  <2> QED
    BY <1>2, <1>3, <1>4, <1>5, <1>8, <2>1, <2>2
<1>10. CASE /\ post' = P /\ exact' = exact \ D /\ dict' = dict
            /\ grn' = SetIndex(wrapper_create_index_fulltext(g, name, tried, f),
                               name, {k \in tried : g[name].index[k] = "none"}, "none")
  <2> DEFINE w == wrapper_create_index_fulltext(g, name, tried, f)
             K == {k \in tried : g[name].index[k] = "none"}
  <2>1. /\ w \in Objs
        /\ \A m \in Names, k \in Keys :
             m # name \/ k \notin K => w[m].index[k] = g[m].index[k]
    BY <1>2, <1>4, FulltextFacts, FulltextMade
  <2>2. \A k \in K : g[name].index[k] = "none"
    OBVIOUS
  <2>3. grn' = SetIndex(w, name, K, "none")
    BY <1>10
  <2> HIDE DEF w, K
  <2>4. \A m \in Names, k \in Keys : grn'[m].index[k] =
           IF m = name /\ k \in K THEN "none" ELSE w[m].index[k]
    BY <1>2, <2>1, <2>3, SetIndexFacts DEF IndexStates
  <2>5. \A m \in Names, k \in Keys : grn'[m].index[k] = g[m].index[k]
    BY <2>1, <2>2, <2>4
  <2>6. \A m \in Names, k \in Keys : grn'[m].index[k] = "none" => post'[m][k] = {}
    BY <1>6, <1>10, <2>5
  <2>7. \A k \in exact' : /\ grn'[name].index[k] = "full"
                          /\ DOMAIN rows' \subseteq DOMAIN rec'
                          /\ post'[name][k] = PartsPosted(k, rec', rows')
    BY <1>1, <1>2, <1>9, <1>10, <2>5
  <2>8. exact' \cap Lexicon = {}
    BY <1>3, <1>10
  <2> QED
    BY <1>1, <1>7, <2>6, <2>7, <2>8, WrapperDdlIndex
<1>11. CASE /\ post' = wrapper_fill_indexes(rec', P, add)
            /\ grn' = wrapper_create_index_fulltext(g, name, add, f)
            /\ bad = {} /\ exact' = (exact \ D) \cup add
            /\ add # {} => rec' \in FilledRecs(rec)
  <2>1. \A m \in Names, k \in Keys :
          /\ grn'[m].index[k] = "none" => g[m].index[k] = "none"
          /\ m # name \/ k \notin add => grn'[m].index[k] = g[m].index[k]
    BY <1>2, <1>4, <1>11, FulltextMade
  <2>2. \A k \in add : g[name].index[k] = "none" /\ grn'[name].index[k] = "full"
    BY <1>2, <1>3, <1>4, <1>11, FulltextMade DEF bad
  <2>3. \A m \in Names, k \in Keys : post'[m][k] =
           IF m = name /\ k \in add THEN P[m][k] \cup PartsPosted(k, rec', rows) ELSE P[m][k]
    <3>1. PostOK(P) /\ name \in Names /\ post' = wrapper_fill_indexes(rec', P, add)
      BY <1>2, <1>5, <1>11
    <3> QED
      BY <3>1, FilledPosts
  <2>4. \A m \in Names, k \in Keys : grn'[m].index[k] = "none" => post'[m][k] = {}
    BY <1>6, <2>1, <2>2, <2>3
  <2>5. \A k \in exact' : /\ grn'[name].index[k] = "full"
                          /\ DOMAIN rows \subseteq DOMAIN rec'
                          /\ post'[name][k] = PartsPosted(k, rec', rows)
    <3>1. ASSUME NEW k \in exact \ D
          PROVE  /\ grn'[name].index[k] = "full"
                 /\ DOMAIN rows \subseteq DOMAIN rec'
                 /\ post'[name][k] = PartsPosted(k, rec', rows)
      <4>1. /\ k \in Keys /\ k \notin add /\ g[name].index[k] = "full" /\ name \in Names
            /\ DOMAIN rows \subseteq DOMAIN rec' /\ P[name][k] = PartsPosted(k, rec', rows)
        BY <1>2, <1>9
      <4>2. grn'[name].index[k] = g[name].index[k] /\ post'[name][k] = P[name][k]
        BY <2>1, <2>3, <4>1
      <4> QED
        BY <4>1, <4>2
    <3>2. ASSUME NEW k \in add
          PROVE  /\ grn'[name].index[k] = "full"
                 /\ DOMAIN rows \subseteq DOMAIN rec'
                 /\ post'[name][k] = PartsPosted(k, rec', rows)
      <4>1. k \in Keys /\ name \in Names /\ DOMAIN rows \subseteq DOMAIN rec'
        BY <1>2, <1>3, <1>8, <1>11
      <4>2. P[name][k] = {} /\ post'[name][k] = P[name][k] \cup PartsPosted(k, rec', rows)
        BY <1>6, <2>2, <2>3, <4>1
      <4> QED
        BY <2>2, <4>1, <4>2
    <3> QED
      BY <1>11, <3>1, <3>2
  <2>6. exact' \cap Lexicon = {}
    BY <1>3, <1>11
  <2>7. rows' = rows /\ lexicon' = lexicon
    BY <1>1
  <2> QED
    BY <1>7, <2>4, <2>5, <2>6, <2>7, WrapperDdlIndex
<1> QED
  BY <1>1, <1>10, <1>11

-----------------------------------------------------------------------------
(* The theorems.                                                           *)

\* Every statement preserves IndexInv.
LEMMA IndexStep == TypeInv /\ IndexInv /\ [Next]_vars => IndexInv'
<1> SUFFICES ASSUME TypeInv, IndexInv, [Next]_vars PROVE IndexInv'
  OBVIOUS
<1>1. CASE create
  BY <1>1, WrapperCreateIndex, StorageCreateIndex DEF create
<1>2. CASE delete_table
  BY <1>2, DeleteIndex DEF delete_table
<1>3. CASE rename_table
  BY <1>3, RenameIndex DEF rename_table
<1>4. CASE write_row
  BY <1>4, WrapperWriteIndex, StorageWriteIndex DEF write_row
<1>5. CASE update_row
  BY <1>5, WrapperUpdateIndex, StorageUpdateIndex DEF update_row
<1>6. CASE delete_row
  BY <1>6, WrapperDeleteIndex, StorageDeleteIndex DEF delete_row
<1>7. CASE delete_all_rows \/ truncate
  BY <1>7, WrapperClearIndex, StorageClearIndex DEF delete_all_rows, truncate
<1>8. CASE disable_indexes
  BY <1>8, WrapperDisableIndex, StorageDisableIndex DEF disable_indexes
<1>9. CASE enable_indexes
  BY <1>9, WrapperEnableIndex, StorageEnableIndex DEF enable_indexes
<1>10. CASE repair
  BY <1>10, WrapperRepairIndex, StorageRepairIndex DEF repair
<1>11. CASE inplace_alter_table
  BY <1>11, WrapperAlterIndex, StorageAlterIndex DEF inplace_alter_table
<1>12. CASE create_lexicon
  <2>1. /\ ~lexicon.table /\ lexicon' = [table |-> TRUE, cols |-> {}]
        /\ UNCHANGED <<dict, grn, rows, rec, post, exact>>
    BY <1>12 DEF create_lexicon
  <2>2. lexicon.cols = {}
    BY <2>1 DEF IndexInv, LexiconOK
  <2>3. ExactOK'
    BY <2>1, <2>2 DEF IndexInv, ExactOK, IndexColumn, name
  <2> QED
    BY <2>1, <2>3 DEF IndexInv, AbsentOK, LexiconOK, StorageOK, WrapperOK, name
<1>13. CASE UNCHANGED vars
  BY <1>13 DEF vars, IndexInv, AbsentOK, ExactOK, LexiconOK, StorageOK, WrapperOK, name, IndexColumn
<1> QED
  BY <1>1, <1>2, <1>3, <1>4, <1>5, <1>6, <1>7, <1>8, <1>9, <1>10, <1>11, <1>12, <1>13 DEF Next

\* There is no table at first.
LEMMA IndexInit == Init => IndexInv
<1> SUFFICES ASSUME Init PROVE IndexInv
  OBVIOUS
<1>1. AbsentOK
  BY DEF Init, AbsentOK
<1> QED
  BY <1>1 DEF Init, IndexInv, ExactOK, LexiconOK, StorageOK, WrapperOK, NoTable

\* IndexInv holds through every behaviour.
LEMMA IndexAlways == Spec => [](TypeInv /\ IndexInv)
<1>1. Init => TypeInv /\ IndexInv
  BY TypeInit, IndexInit
<1>2. TypeInv /\ IndexInv /\ [Next]_vars => (TypeInv /\ IndexInv)'
  BY TypeStep, IndexStep
<1> QED
  BY <1>1, <1>2, PTL DEF Spec

\* A word search of wrapper mode finds the rows that have the word.
LEMMA WordsFound ==
    ASSUME NEW k, NEW w, w # Empty, IsInjective(rec), DOMAIN rows \subseteq DOMAIN rec,
           post[name][k] = PartsPosted(k, rec, rows)
    PROVE  wrapper_ft_read(k, w) =
              {p \in DOMAIN rows : \E s \in DOMAIN Parts[k] : rows[p][Parts[k][s]] = w}
<1>1. ASSUME NEW p \in DOMAIN rows, NEW s \in DOMAIN Parts[k]
      PROVE  <<rec[p], s, w>> \in PartsPosted(k, rec, rows) <=> rows[p][Parts[k][s]] = w
  <2>1. ASSUME <<rec[p], s, w>> \in PartsPosted(k, rec, rows)
        PROVE  rows[p][Parts[k][s]] = w
    <3>1. PICK q \in DOMAIN rows : <<rec[p], s, w>> \in RowPostings(k, rec[q], rows[q])
      BY <2>1 DEF PartsPosted
    <3>2. rec[p] = rec[q] /\ rows[q][Parts[k][s]] = w
      BY <3>1 DEF RowPostings
    <3> QED
      BY <3>2 DEF IsInjective
  <2>2. ASSUME rows[p][Parts[k][s]] = w
        PROVE  <<rec[p], s, w>> \in PartsPosted(k, rec, rows)
    <3>1. <<rec[p], s, w>> \in RowPostings(k, rec[p], rows[p])
      BY <2>2 DEF RowPostings
    <3> QED
      BY <3>1 DEF PartsPosted
  <2> QED
    BY <2>1, <2>2
<1> QED
  BY <1>1 DEF wrapper_ft_read

\* An index that must answer answers as the rows do, after every sequence of
\* DDL and row statements in both modes and whichever of their Groonga calls
\* fail: the postings that wrapper_update_row_index, storage_update_row_index
\* and the others change by hand, and those that ALTER TABLE, ENABLE KEYS and
\* REPAIR fill from the rows, are those of the rows.
THEOREM IndexAnswersCorrect == Spec => []IndexAnswers
<1>1. TypeInv /\ IndexInv => IndexAnswers
  <2> SUFFICES ASSUME TypeInv, IndexInv, NEW k \in exact PROVE Answers(k)
    BY DEF IndexAnswers
  <2>1. dict.mode \in {"wrapper", "storage"}
    BY DEF TypeInv, TypesOK, ModeOK, NoTable
  <2>2. CASE dict.mode = "wrapper"
    <3>1. /\ DOMAIN rows \subseteq DOMAIN rec /\ IsInjective(rec)
          /\ post[name][k] = PartsPosted(k, rec, rows)
      BY <2>2 DEF IndexInv, WrapperOK, TypeInv, RowsOK
    <3>2. \A w \in Words : w # Empty
      BY DEF Words
    <3>3. \A w \in Words : wrapper_ft_read(k, w) =
             {p \in DOMAIN rows : \E s \in DOMAIN Parts[k] : rows[p][Parts[k][s]] = w}
      BY <3>1, <3>2, WordsFound
    <3> QED
      BY <2>2, <3>3 DEF Answers
  <2>3. CASE dict.mode = "storage"
    BY <2>3 DEF Answers, IndexInv, ExactOK, StorageOK, RowsPosted
  <2> QED
    BY <2>1, <2>2, <2>3
<1> QED
  BY <1>1, IndexAlways, PTL

\* No two rows of a storage mode table have the same value of a UNIQUE key,
\* whether it was there when they were written (the duplicate check against
\* the index) or added later (storage_inplace_alter_table_add_index, which
\* compares sizes or looks for a repeated value).
THEOREM UniqueCheckedCorrect == Spec => []UniqueChecked
<1>1. TypeInv /\ IndexInv => UniqueChecked
  BY DEF IndexInv, StorageOK, UniqueRows, UniqueChecked
<1> QED
  BY <1>1, IndexAlways, PTL
===============================================================================
