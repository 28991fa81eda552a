----------------------------- MODULE SelectSpec -----------------------------
(***************************************************************************)
(* What a SELECT promises, whatever the access path: it delivers each row  *)
(* that satisfies the condition once, in the order asked for, and stops    *)
(* when there are no more or LIMIT is reached; COUNT is their number.      *)
(***************************************************************************)
EXTENDS Integers, Sequences, FiniteSets

CONSTANTS
    Selects,        \* the statements a client may send
    Where(_, _),    \* Where(q, row): the condition of q holds for the row
    Before(_, _, _) \* Before(q, row1, row2): ORDER BY puts row1 first

VARIABLES
    table,   \* [record id -> row]
    query,   \* the statement that runs
    out,     \* the rows delivered to the client
    count,   \* the answer of COUNT
    status   \* "idle", "running" or "answered"

specVars == <<table, query, out, count, status>>

Matching(q) == {id \in DOMAIN table : Where(q, table[id])}

\* The client sees the columns it asked for; the primary key is one of them.
Project(q, row) == [c \in q.cols |-> row[c]]
Delivered(q) == {id \in DOMAIN table : \E i \in DOMAIN out : out[i] = Project(q, table[id])}

Start == /\ status = "idle"
         /\ status' = "running"
         /\ query' \in Selects
         /\ out' = <<>>
         /\ count' = 0
         /\ UNCHANGED table

Deliver == /\ status = "running"
           /\ ~query.count
           /\ Len(out) < query.limit
           /\ \E id \in Matching(query) \ Delivered(query) :
                 /\ \A other \in Delivered(query) : ~Before(query, table[id], table[other])
                 /\ out' = Append(out, Project(query, table[id]))
           /\ UNCHANGED <<table, query, count, status>>

\* Nothing is left out: LIMIT is reached or every row was delivered, and no row
\* left behind comes before a delivered one.
Complete ==
    LET left == Matching(query) \ Delivered(query)
    IN  /\ left # {} => Len(out) = query.limit
        /\ \A id \in left, other \in Delivered(query) :
              ~Before(query, table[id], table[other])

Finish == /\ status = "running"
          /\ IF query.count THEN count' = Cardinality(Matching(query))
                            ELSE Complete /\ UNCHANGED count
          /\ status' = "answered"
          /\ UNCHANGED <<table, query, out>>

\* The client has the answer.
Forget == /\ status = "answered"
          /\ status' = "idle"
          /\ out' = <<>>
          /\ count' = 0
          /\ UNCHANGED table

SpecNext == Start \/ Deliver \/ Finish \/ Forget

SpecInit == /\ status = "idle"
            /\ out = <<>>
            /\ count = 0

SelectPromise == SpecInit /\ [][SpecNext]_specVars
=============================================================================
