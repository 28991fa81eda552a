------------------------------- MODULE MCSchema -------------------------------
\* Wrapper mode: FULLTEXT keys 1 on (a, b) and 2 on (b).  Storage mode: 3 is
\* UNIQUE (b), 4 is (a, b), 5 UNIQUE (b, a), 6 has a lexicon, 7 a FOREIGN KEY.
EXTENDS TableSchema, TLC

MCParts == << <<"a", "b">>, <<"b">>, <<"b">>, <<"a", "b">>, <<"b", "a">>, <<"b">>, <<"b">> >>
Alike == Permutations(Names) \cup Permutations(Columns)

\* No action and no property reads the postings of a key that need not answer
\* any more, or those under a name the table does not have (a table is renamed
\* only to a name without index tables): states that differ in them only are
\* the same.
ReadPostings == [k \in exact |-> post[name][k]]
Seen == <<dict, grn, lexicon, ref, rows, rec, ReadPostings, exact, torn, mishaps>>

MCRows == {[a |-> 1, b |-> 2], [a |-> 2, b |-> 0]}
===============================================================================
