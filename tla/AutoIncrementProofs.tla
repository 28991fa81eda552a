------------------------ MODULE AutoIncrementProofs ------------------------
(***************************************************************************)
(* Proofs about AutoIncrement, for any set of handlers, any rows of an     *)
(* INSERT and any width of the counter.                                    *)
(*                                                                         *)
(*   AutoIncTypeCorrect     the counter never leaves ulonglong;            *)
(*   CounterAheadCorrect    no row is lost to the counter;                 *)
(*   GeneratedIsNewCorrect  no value asked for is generated twice.         *)
(*                                                                         *)
(* The last two hold as long as the values are not exhausted: the counter  *)
(* wraps silently.                                                         *)
(***************************************************************************)
EXTENDS AutoIncrement, WellFoundedInduction, TLAPS

-----------------------------------------------------------------------------
(* The inductive invariant                                                  *)

\* No value that is in the table or was used since somebody has had it open,
\* and not the counter, is so great that an INSERT makes it wrap.
NotExhausted ==
    /\ auto_inc_value + MaxRows < MaxValue
    /\ \A v \in kept \cup rows : v + MaxRows < MaxValue

\* The labels at which auto_inc_mutex is held between two steps.
Holding == {"ask_set", "info_set", "show_set"}

\* What is known of a handler at each label: the mutex is held only while the
\* counter is uninitialised, and the counter is raised only when it is.
LabelOK ==
    \A h \in Handlers :
        /\ pc[h] \in Holding <=> auto_inc_mutex = h
        /\ pc[h] \in Holding => ~auto_inc_inited
        /\ pc[h] = "bump" => auto_inc_inited
        /\ pc[h] # "idle" => h \in is_open
        /\ pc[h] = "write" => cur[h] # 0
        /\ pc[h] = "row" => ~generated[h]
        /\ pc[h] = "generate" => generated[h]
        /\ pc[h] \in {"ask", "ask_set"} => generated[h]
        /\ pc[h] \in {"idle", "show", "show_set"} => ~generated[h]
        /\ pc[h] \in Noting => cur[h] \in kept

\* The values of the rows that are written and whose INSERT has not returned.
Unsettled == {cur[h] : h \in {g \in Handlers : pc[g] \in Noting}}

\* The counter is ahead of all that was used since somebody has had the table
\* open, deleted rows included; without a counter nothing was.
KeptAhead ==
    /\ auto_inc_inited => \A v \in kept \ Unsettled : v < auto_inc_value
    /\ ~auto_inc_inited => kept \subseteq Unsettled

\* What a holder of the mutex has read is still ahead when it is stored: rows
\* are written meanwhile, but nobody returns before raising the counter.
ReadAhead ==
    \A h \in Handlers :
        /\ pc[h] = "ask_set" => \A v \in rows \ Unsettled : v < cur[h]
        /\ pc[h] \in {"info_set", "show_set"} => \A v \in rows \ Unsettled : v < next[h]

\* What is read is one more than a used value.
ReadBound ==
    \A h \in Handlers :
        /\ pc[h] = "ask_set" => cur[h] + MaxRows <= MaxValue
        /\ pc[h] \in {"info_set", "show_set"} => next[h] < MaxValue

\* An INSERT that has asked for values, and the first one it has not settled.
Active(h) == reserved[h] # 0
HasGenerated(h) == generated[h] /\ pc[h] \in {"write"} \cup Noting
First(h) == IF HasGenerated(h) THEN cur[h] ELSE next[h]

\* Such an INSERT has the values from First(h) to reserved[h], all below the
\* counter and above what it saw when it asked; it does not ask again.
Reserved(h) ==
    /\ auto_inc_inited /\ pc[h] \in {"row", "generate", "write", "note", "bump"}
    /\ reserved[h] <= auto_inc_value
    /\ pc[h] # "generate" => next[h] # 0
    /\ HasGenerated(h) => next[h] = cur[h] + 1
    /\ \A v \in seen[h] : v < First(h)

\* Only an INSERT that has asked generates values; until then next_insert_id is
\* 0, and it has announced a row.
StatementOK(h) ==
    /\ pc[h] = "ask_set" => \A v \in seen[h] : v < cur[h]
    /\ pc[h] = "generate" \/ HasGenerated(h) => Active(h)
    /\ ~Active(h) /\ pc[h] \notin {"info_set", "show_set"} => next[h] = 0
    /\ ~Active(h) /\ pc[h] \notin {"idle", "show", "show_set"} => desired[h] >= 1

ReservedOK ==
    \A h \in Handlers : StatementOK(h) /\ (Active(h) => Reserved(h))

\* Nobody else has one of them.
DisjointOK ==
    \A h, g \in Handlers :
        h # g /\ Active(h) /\ Active(g)
        => reserved[h] <= First(g) \/ reserved[g] <= First(h)

TypeInv == AutoIncTypeOK /\ LabelOK
CounterInv == TypeInv /\ CounterAhead /\ KeptAhead /\ ReadAhead /\ ReadBound
ReservedInv == CounterInv /\ ReservedOK /\ DisjointOK

-----------------------------------------------------------------------------
(* The operators                                                            *)

\* Wrap stays in ulonglong and is the identity there.
LEMMA WrapValue ==
    ASSUME NEW n \in Nat
    PROVE  /\ Wrap(n) \in ULongLong
           /\ n <= MaxValue => Wrap(n) = n
  BY AutoIncrementAssumption DEF Wrap, ULongLong

\* A nonempty set of ulonglongs has a greatest element: the descending order
\* of its values is well-founded.
LEMMA Greatest ==
    ASSUME NEW S, S \subseteq ULongLong, S # {}
    PROVE  \E v \in S : \A w \in S : w <= v
<1> DEFINE D == {MaxValue - v : v \in S}
<1>1. \A v \in S : v \in Nat /\ MaxValue - v \in Nat
  BY AutoIncrementAssumption DEF ULongLong
<1>2. D \subseteq Nat /\ D # {}
  BY <1>1
<1>3. \E x \in D : \A y \in D : ~(<<y, x>> \in OpToRel(<, Nat))
  <2> HIDE DEF D
  <2> QED BY <1>2, NatLessThanWellFounded, WFMin
<1>4. PICK x \in D : \A y \in D : ~(<<y, x>> \in OpToRel(<, Nat))
  BY <1>3
<1>5. \A y \in D : x <= y
  <2> SUFFICES ASSUME NEW y \in D PROVE x <= y
    OBVIOUS
  <2>1. x \in Nat /\ y \in Nat
    BY <1>2, <1>4
  <2>2. ~(<<y, x>> \in {ss \in Nat \X Nat : ss[1] < ss[2]})
    BY <1>4 DEF OpToRel
  <2> QED BY <2>1, <2>2
<1>6. PICK v \in S : x = MaxValue - v
  BY <1>4
<1>7. \A w \in S : w <= v
  BY <1>1, <1>5, <1>6, AutoIncrementAssumption
<1> QED BY <1>7

\* What the server reads from the index is a ulonglong, and one more than the
\* greatest row unless that is the greatest value.
LEMMA NextOfTableValue ==
    ASSUME rows \subseteq ULongLong
    PROVE  /\ NextOfTable \in ULongLong
           /\ (\A v \in rows : v < MaxValue) =>
                /\ \A v \in rows : v < NextOfTable
                /\ NextOfTable = 1 \/ \E v \in rows : NextOfTable = v + 1
<1>1. CASE rows = {}
  BY <1>1, AutoIncrementAssumption DEF NextOfTable, ULongLong
<1>2. CASE rows # {}
  <2> DEFINE m == CHOOSE v \in rows : \A w \in rows : w <= v
  <2>1. m \in rows /\ \A w \in rows : w <= m
    BY <1>2, Greatest
  <2>2. NextOfTable = Wrap(1 + m)
    BY <1>2 DEF NextOfTable
  <2> HIDE DEF m
  <2>3. m \in Nat /\ \A v \in rows : v \in Nat
    BY <2>1 DEF ULongLong
  <2>4. Wrap(1 + m) \in ULongLong /\ (1 + m <= MaxValue => Wrap(1 + m) = 1 + m)
    BY <2>3, WrapValue
  <2> QED BY <2>1, <2>2, <2>3, <2>4, AutoIncrementAssumption
<1> QED BY <1>1, <1>2

\* The values that the counter, the rows and the statements take.
LEMMA Values ==
    ASSUME AutoIncTypeOK, NEW h \in Handlers
    PROVE  /\ auto_inc_value \in Nat /\ cur[h] \in Nat /\ next[h] \in Nat
           /\ cur[h] <= MaxValue /\ next[h] <= MaxValue
           /\ left[h] \in Nat /\ left[h] <= MaxRows
           /\ desired[h] \in Nat /\ desired[h] <= MaxRows
           /\ Wrap(auto_inc_value + desired[h]) \in ULongLong
           /\ Wrap(cur[h] + desired[h]) \in ULongLong
           /\ Wrap(cur[h] + 1) \in ULongLong /\ Wrap(next[h] + 1) \in ULongLong
           /\ NextOfTable \in ULongLong
<1>1. /\ auto_inc_value \in Nat /\ cur[h] \in Nat /\ next[h] \in Nat
      /\ cur[h] <= MaxValue /\ next[h] <= MaxValue
      /\ left[h] \in Nat /\ left[h] <= MaxRows
  BY AutoIncrementAssumption DEF AutoIncTypeOK, ULongLong
<1>2. desired[h] \in Nat /\ desired[h] <= MaxRows
  BY AutoIncrementAssumption DEF AutoIncTypeOK
<1>3. NextOfTable \in ULongLong
  BY NextOfTableValue DEF AutoIncTypeOK
<1>4. /\ auto_inc_value + desired[h] \in Nat /\ cur[h] + desired[h] \in Nat
      /\ cur[h] + 1 \in Nat /\ next[h] + 1 \in Nat
  BY <1>1, <1>2
<1> QED BY <1>1, <1>2, <1>3, <1>4, WrapValue

-----------------------------------------------------------------------------
(* Types and labels                                                         *)

LEMMA TypeInit == AutoIncInit => TypeInv
  BY AutoIncrementAssumption DEF AutoIncInit, TypeInv, AutoIncTypeOK, LabelOK, Labels,
     Noting, Holding, ULongLong

LEMMA TypeStep ==
    ASSUME AutoIncTypeOK, LabelOK, NEW h \in Handlers, AutoIncStep(h)
    PROVE  AutoIncTypeOK'
<1> USE DEF ULongLong
<1>0. /\ auto_inc_value \in Nat /\ cur[h] \in Nat /\ next[h] \in Nat
      /\ left[h] \in Nat /\ left[h] <= MaxRows
      /\ Wrap(auto_inc_value + desired[h]) \in ULongLong
      /\ Wrap(cur[h] + desired[h]) \in ULongLong
      /\ Wrap(cur[h] + 1) \in ULongLong /\ Wrap(next[h] + 1) \in ULongLong
      /\ NextOfTable \in ULongLong
  BY Values
<1>s. Settled(kept \cup rows) \in SUBSET ULongLong
  BY DEF Settled, AutoIncTypeOK
<1> USE AutoIncrementAssumption DEF AutoIncTypeOK, Goto, Labels, Noting, share, stmt
<1>1. CASE Open(h)
  BY <1>1 DEF Open
<1>2. CASE Close(h)
  <2>1. CASE is_open = {h}
    <3>1. auto_inc_value' \in ULongLong /\ kept' \subseteq ULongLong
      BY <1>2, <2>1 DEF Close
    <3>2. auto_inc_inited' \in BOOLEAN
      BY <1>2, <2>1, Zenon DEF Close
    <3> QED BY <1>2, <3>1, <3>2 DEF Close
  <2>2. CASE is_open # {h}
    BY <1>2, <2>2 DEF Close
  <2> QED BY <2>1, <2>2
<1>3. ASSUME NEW n \in 1 .. MaxRows, NEW announced \in {1, n}, Insert(h, n, announced)
      PROVE  AutoIncTypeOK'
  BY <1>3 DEF Insert
<1>4. ASSUME NEW v \in Explicit, ExplicitRow(h, v) PROVE AutoIncTypeOK'
  <2>1. v \in ULongLong /\ next'[h] \in ULongLong
    BY <1>0, <1>4 DEF ExplicitRow
  <2> QED BY <1>4, <2>1 DEF ExplicitRow
<1>19. CASE GeneratedRow(h)
  BY <1>19 DEF GeneratedRow
<1>5. CASE Ask(h)
  <2>1. /\ auto_inc_value' \in ULongLong /\ next'[h] \in ULongLong
        /\ reserved'[h] \in ULongLong /\ seen'[h] \in SUBSET ULongLong
    BY <1>5, <1>0, <1>s DEF Ask
  <2>2. /\ next' = [next EXCEPT ![h] = next'[h]] /\ seen' = [seen EXCEPT ![h] = seen'[h]]
        /\ reserved' = [reserved EXCEPT ![h] = reserved'[h]]
        /\ desired' = [desired EXCEPT ![h] = 0]
        /\ pc' = [pc EXCEPT ![h] = "generate"]
        /\ UNCHANGED <<auto_inc_inited, auto_inc_mutex, rows, is_open, left, cur, generated, kept>>
    BY <1>5 DEF Ask
  <2> HIDE DEF ULongLong, Noting
  <2>3. /\ next' \in [Handlers -> ULongLong] /\ reserved' \in [Handlers -> ULongLong]
        /\ seen' \in [Handlers -> SUBSET ULongLong]
    BY <2>1, <2>2
  <2>4. desired' \in [Handlers -> 0 .. MaxRows] /\ pc' \in [Handlers -> Labels]
    BY <2>2
  <2> QED BY <2>1, <2>2, <2>3, <2>4
<1>6. CASE AskRead(h)
  BY <1>6, <1>0, <1>s DEF AskRead
<1>7. CASE AskSet(h)
  BY <1>7, <1>0 DEF AskSet
<1>8. CASE Generate(h)
  <2>1. CASE next[h] \in {0, MaxValue}
    <3>1. End(h) /\ UNCHANGED <<share, auto_inc_mutex, rows, is_open, kept>>
      BY <1>8, <2>1 DEF Generate
    <3> QED BY <3>1 DEF End
  <2>2. CASE next[h] \notin {0, MaxValue}
    <3>1. /\ cur' = [cur EXCEPT ![h] = next[h]]
          /\ next' = [next EXCEPT ![h] = Wrap(next[h] + 1)]
          /\ Goto(h, "write")
          /\ UNCHANGED <<left, desired, generated, seen, reserved, share, auto_inc_mutex,
                         rows, is_open, kept>>
      BY <1>8, <2>2 DEF Generate
    <3> QED BY <1>0, <3>1
  <2> QED BY <2>1, <2>2
<1>9. CASE WriteRow(h)
  <2>1. cur[h] \in ULongLong \ {0}
    BY <1>9 DEF WriteRow, LabelOK
  <2>2. rows' \subseteq ULongLong \ {0} /\ kept' \subseteq ULongLong
    BY <1>9, <2>1 DEF WriteRow
  <2> QED BY <1>9, <2>2 DEF WriteRow
<1>10. CASE WriteFail(h)
  BY <1>10 DEF WriteFail, End
<1>11. CASE Note(h)
  BY <1>11 DEF Note
<1>12. CASE Bump(h)
  <2>1. auto_inc_value' \in ULongLong
    BY <1>12, <1>0 DEF Bump
  <2>2. CASE left[h] > 1
    <3>1. /\ left' = [left EXCEPT ![h] = left[h] - 1] /\ left[h] - 1 \in 0 .. MaxRows
          /\ cur' = [cur EXCEPT ![h] = 0]
          /\ generated' = [generated EXCEPT ![h] = FALSE]
          /\ pc' = [pc EXCEPT ![h] = "row"]
          /\ UNCHANGED <<desired, next, seen, reserved, auto_inc_inited, auto_inc_mutex,
                          rows, is_open, kept>>
      BY <1>12, <1>0, <2>2 DEF Bump, NextRow
    <3>2. left' \in [Handlers -> 0 .. MaxRows] /\ cur' \in [Handlers -> ULongLong]
      BY <3>1
    <3>3. pc' \in [Handlers -> Labels] /\ generated' \in [Handlers -> BOOLEAN]
      BY <3>1
    <3> HIDE DEF Labels, ULongLong
    <3> QED BY <2>1, <3>1, <3>2, <3>3
  <2>3. CASE ~(left[h] > 1)
    <3>1. End(h) /\ UNCHANGED <<auto_inc_inited, auto_inc_mutex, rows, is_open, kept>>
      BY <1>12, <2>3 DEF Bump, NextRow
    <3> QED BY <2>1, <3>1 DEF End
  <2> QED BY <2>2, <2>3
<1>13. CASE ShowStatus(h)
  BY <1>13 DEF ShowStatus
<1>14. CASE InfoInited(h)
  BY <1>14 DEF InfoInited, AfterInfo
<1>15. CASE InfoRead(h)
  BY <1>15, <1>0 DEF InfoRead
<1>16. CASE InfoSet(h)
  BY <1>16 DEF InfoSet, AfterInfo
<1>17. ASSUME NEW v \in rows, DeleteRow(h, v) PROVE AutoIncTypeOK'
  BY <1>17 DEF DeleteRow
<1>18. CASE Truncate(h)
  <2>1. auto_inc_inited' \in BOOLEAN
    BY <1>18, Zenon DEF Truncate
  <2>2. /\ auto_inc_value' \in ULongLong /\ rows' \subseteq ULongLong \ {0}
        /\ kept' \subseteq ULongLong
    BY <1>18 DEF Truncate
  <2> QED BY <1>18, <2>1, <2>2 DEF Truncate
<1> QED
  BY <1>1, <1>2, <1>3, <1>4, <1>5, <1>6, <1>7, <1>8, <1>9, <1>10, <1>11, <1>12,
     <1>13, <1>14, <1>15, <1>16, <1>17, <1>18, <1>19 DEF AutoIncStep

LEMMA LabelStep ==
    ASSUME AutoIncTypeOK, LabelOK, NEW h \in Handlers, AutoIncStep(h)
    PROVE  LabelOK'
<1> USE AutoIncrementAssumption DEF AutoIncTypeOK, LabelOK, Goto, Labels, Noting, Holding,
        share, stmt, Idle
<1>1. CASE Open(h)
  BY <1>1 DEF Open
<1>2. CASE Close(h)
  BY <1>2 DEF Close
<1>3. ASSUME NEW n \in 1 .. MaxRows, NEW announced \in {1, n}, Insert(h, n, announced)
      PROVE  LabelOK'
  BY <1>3 DEF Insert
<1>4. ASSUME NEW v \in Explicit, ExplicitRow(h, v) PROVE LabelOK'
  BY <1>4 DEF ExplicitRow
<1>19. CASE GeneratedRow(h)
  BY <1>19 DEF GeneratedRow
<1>5. CASE Ask(h)
  BY <1>5 DEF Ask
<1>6. CASE AskRead(h)
  BY <1>6 DEF AskRead
<1>7. CASE AskSet(h)
  BY <1>7 DEF AskSet
<1>8. CASE Generate(h)
  BY <1>8 DEF Generate, End
<1>9. CASE WriteRow(h)
  BY <1>9 DEF WriteRow
<1>10. CASE WriteFail(h)
  BY <1>10 DEF WriteFail, End
<1>11. CASE Note(h)
  BY <1>11 DEF Note
<1>12. CASE Bump(h)
  BY <1>12 DEF Bump, NextRow, End
<1>13. CASE ShowStatus(h)
  BY <1>13 DEF ShowStatus
<1>14. CASE InfoInited(h)
  BY <1>14 DEF InfoInited, AfterInfo
<1>15. CASE InfoRead(h)
  BY <1>15 DEF InfoRead
<1>16. CASE InfoSet(h)
  BY <1>16 DEF InfoSet, AfterInfo
<1>17. ASSUME NEW v \in rows, DeleteRow(h, v) PROVE LabelOK'
  BY <1>17 DEF DeleteRow
<1>18. CASE Truncate(h)
  BY <1>18 DEF Truncate
<1> QED
  BY <1>1, <1>2, <1>3, <1>4, <1>5, <1>6, <1>7, <1>8, <1>9, <1>10, <1>11, <1>12,
     <1>13, <1>14, <1>15, <1>16, <1>17, <1>18, <1>19 DEF AutoIncStep

-----------------------------------------------------------------------------
(* The counter is ahead                                                     *)

\* A step of a handler leaves the others alone.
LEMMA OthersSame ==
    ASSUME AutoIncTypeOK, NEW h \in Handlers, AutoIncStep(h)
    PROVE  \A g \in Handlers \ {h} :
            /\ pc'[g] = pc[g] /\ cur'[g] = cur[g] /\ next'[g] = next[g]
            /\ left'[g] = left[g] /\ seen'[g] = seen[g]
            /\ generated'[g] = generated[g] /\ desired'[g] = desired[g]
            /\ reserved'[g] = reserved[g]
<1> USE DEF AutoIncTypeOK, Goto, stmt, End
<1>1. CASE Open(h) \/ Close(h) \/ \E v \in rows : DeleteRow(h, v)
  BY <1>1 DEF Open, Close, DeleteRow
<1>2. CASE \/ \E n \in 1 .. MaxRows : \E announced \in {1, n} : Insert(h, n, announced)
           \/ (\E v \in Explicit : ExplicitRow(h, v)) \/ GeneratedRow(h)
  BY <1>2 DEF Insert, ExplicitRow, GeneratedRow
<1>3. CASE Ask(h) \/ AskRead(h) \/ AskSet(h)
  BY <1>3 DEF Ask, AskRead, AskSet
<1>4. CASE Generate(h)
  BY <1>4 DEF Generate
<1>5. CASE WriteRow(h) \/ WriteFail(h) \/ Note(h)
  BY <1>5 DEF WriteRow, WriteFail, Note
<1>6. CASE Bump(h)
  BY <1>6 DEF Bump, NextRow
<1>7. CASE ShowStatus(h) \/ InfoInited(h) \/ InfoRead(h) \/ InfoSet(h) \/ Truncate(h)
  BY <1>7 DEF ShowStatus, InfoInited, InfoRead, InfoSet, Truncate
<1> QED BY <1>1, <1>2, <1>3, <1>4, <1>5, <1>6, <1>7 DEF AutoIncStep

\* A row becomes unsettled when it is written and is settled by raising the
\* counter; no other step of a handler changes that.
LEMMA UnsettledStep ==
    ASSUME AutoIncTypeOK, LabelOK, NEW h \in Handlers, AutoIncStep(h)
    PROVE  /\ WriteRow(h) => Unsettled' = Unsettled \cup {cur[h]}
           /\ Bump(h) => Unsettled \subseteq Unsettled' \cup {cur[h]}
           /\ ~WriteRow(h) /\ ~Bump(h) => Unsettled' = Unsettled
<1>1. \A g \in Handlers \ {h} : pc'[g] = pc[g] /\ cur'[g] = cur[g]
  BY OthersSame
<1>2. ASSUME WriteRow(h) PROVE Unsettled' = Unsettled \cup {cur[h]}
  <2>1. pc[h] \notin Noting /\ pc'[h] \in Noting /\ cur'[h] = cur[h]
    BY <1>2 DEF WriteRow, Noting, Goto, AutoIncTypeOK, stmt
  <2> QED BY <1>1, <2>1 DEF Unsettled
<1>3. ASSUME Bump(h) PROVE Unsettled \subseteq Unsettled' \cup {cur[h]}
  BY <1>1 DEF Unsettled
<1>4. ASSUME ~WriteRow(h), ~Bump(h) PROVE Unsettled' = Unsettled
  <2> USE DEF AutoIncTypeOK, LabelOK, Goto, Noting, stmt, Idle
  <2> DEFINE Same == /\ pc[h] \in Noting <=> pc'[h] \in Noting
                     /\ pc[h] \in Noting => cur'[h] = cur[h]
  <2> SUFFICES Same
    BY <1>1 DEF Unsettled
  <2>1. CASE Open(h) \/ Close(h) \/ \E v \in rows : DeleteRow(h, v)
    BY <2>1 DEF Open, Close, DeleteRow
  <2>2. CASE \/ \E n \in 1 .. MaxRows : \E announced \in {1, n} : Insert(h, n, announced)
             \/ (\E v \in Explicit : ExplicitRow(h, v)) \/ GeneratedRow(h)
    BY <2>2 DEF Insert, ExplicitRow, GeneratedRow
  <2>3. CASE Ask(h) \/ AskRead(h) \/ AskSet(h)
    BY <2>3 DEF Ask, AskRead, AskSet
  <2>4. CASE Generate(h)
    BY <2>4 DEF Generate, End
  <2>5. CASE WriteFail(h) \/ Note(h)
    BY <2>5 DEF WriteFail, Note, End
  <2>6. CASE ShowStatus(h) \/ InfoInited(h) \/ InfoRead(h) \/ InfoSet(h) \/ Truncate(h)
    BY <2>6 DEF ShowStatus, InfoInited, InfoRead, InfoSet, AfterInfo, Truncate
  <2> QED BY <1>4, <2>1, <2>2, <2>3, <2>4, <2>5, <2>6 DEF AutoIncStep
<1> QED BY <1>2, <1>3, <1>4

\* The steps that touch neither the counter nor the rows, or only delete.
Quiet ==
    /\ UNCHANGED <<auto_inc_value, auto_inc_inited, kept>>
    /\ rows' \subseteq rows /\ Unsettled' = Unsettled

\* The steps that free the long term share or reset it.
Reset ==
    /\ ~auto_inc_inited' /\ kept' = {}
    /\ auto_inc_mutex = Nil /\ \A g \in Handlers : pc[g] = "idle"

\* The steps that raise an initialised counter, under the mutex.
Raise(h) ==
    /\ auto_inc_mutex = Nil /\ auto_inc_inited /\ auto_inc_inited'
    /\ auto_inc_value \in Nat /\ auto_inc_value' \in Nat
    /\ auto_inc_value <= auto_inc_value'
    /\ UNCHANGED <<rows, kept>>
    /\ Unsettled' = Unsettled \/ (Unsettled \subseteq Unsettled' \cup {cur[h]}
                                  /\ cur[h] < auto_inc_value')

\* The steps that initialise the counter from what was read before.
Store(h) ==
    /\ pc[h] \in Holding /\ auto_inc_inited' /\ auto_inc_value' \in Nat
    /\ pc[h] = "ask_set" => cur[h] <= auto_inc_value'
    /\ pc[h] # "ask_set" => auto_inc_value' = next[h]
    /\ UNCHANGED <<rows, kept>> /\ Unsettled' = Unsettled

Write(h) ==
    /\ UNCHANGED <<auto_inc_value, auto_inc_inited>>
    /\ rows' = rows \cup {cur[h]} /\ kept' = kept \cup {cur[h]}
    /\ Unsettled' = Unsettled \cup {cur[h]}

LEMMA StepCases ==
    ASSUME AutoIncTypeOK, LabelOK, ReadBound, NotExhausted,
           NEW h \in Handlers, AutoIncStep(h)
    PROVE  Quiet \/ Reset \/ Raise(h) \/ Store(h) \/ Write(h)
<1> USE AutoIncrementAssumption DEF share, stmt
<1>0. /\ auto_inc_value \in Nat /\ cur[h] \in Nat /\ next[h] \in Nat
      /\ desired[h] \in Nat /\ desired[h] <= MaxRows
      /\ auto_inc_value + desired[h] \in Nat /\ cur[h] + desired[h] \in Nat
      /\ cur[h] + 1 \in Nat
  BY Values
<1>1. CASE WriteRow(h)
  BY <1>1, UnsettledStep DEF WriteRow, Write
<1>2. CASE Bump(h)
  <2>1. auto_inc_inited /\ cur[h] \in kept
    BY <1>2 DEF Bump, LabelOK, Noting
  <2>2. cur[h] + 1 <= MaxValue
    BY <1>0, <2>1 DEF NotExhausted
  <2>3. Wrap(cur[h] + 1) = cur[h] + 1
    BY <1>0, <2>2, WrapValue
  <2>4. /\ auto_inc_value' \in Nat /\ auto_inc_value <= auto_inc_value'
        /\ cur[h] < auto_inc_value'
    BY <1>0, <1>2, <2>3 DEF Bump
  <2>5. Unsettled \subseteq Unsettled' \cup {cur[h]}
    BY <1>2, UnsettledStep
  <2>6. /\ auto_inc_mutex = Nil /\ auto_inc_inited' = auto_inc_inited
        /\ UNCHANGED <<rows, kept>>
    BY <1>2 DEF Bump
  <2> QED BY <1>0, <2>1, <2>4, <2>5, <2>6 DEF Raise
<1>3. CASE ~WriteRow(h) /\ ~Bump(h)
  <2>0. Unsettled' = Unsettled
    BY <1>3, UnsettledStep
  <2>1. CASE \/ Open(h) \/ \E v \in rows : DeleteRow(h, v)
             \/ \E n \in 1 .. MaxRows : \E announced \in {1, n} : Insert(h, n, announced)
             \/ (\E v \in Explicit : ExplicitRow(h, v)) \/ GeneratedRow(h)
    BY <2>0, <2>1 DEF Open, DeleteRow, Insert, ExplicitRow, GeneratedRow, Quiet
  <2>2. CASE Close(h)
    <3>1. CASE is_open = {h}
      <4>1. \A g \in Handlers : pc[g] = "idle"
        BY <2>2, <3>1 DEF Close, Idle, LabelOK
      <4>2. auto_inc_mutex = Nil
        BY <4>1 DEF LabelOK, Holding, AutoIncTypeOK
      <4> QED BY <2>2, <3>1, <4>1, <4>2 DEF Close, Reset
    <3>2. CASE is_open # {h}
      BY <2>0, <2>2, <3>2 DEF Close, Quiet
    <3> QED BY <3>1, <3>2
  <2>3. CASE Ask(h)
    <3>1. Wrap(auto_inc_value + desired[h]) = auto_inc_value + desired[h]
      BY <1>0, WrapValue DEF NotExhausted
    <3> QED BY <1>0, <2>0, <2>3, <3>1 DEF Ask, Raise
  <2>4. CASE AskRead(h) \/ InfoRead(h) \/ InfoInited(h)
    BY <2>0, <2>4 DEF AskRead, InfoRead, InfoInited, Quiet
  <2>5. CASE AskSet(h)
    <3>0. pc[h] = "ask_set"
      BY <2>5 DEF AskSet
    <3>1. Wrap(cur[h] + desired[h]) = cur[h] + desired[h]
      BY <1>0, <3>0, WrapValue DEF ReadBound
    <3> QED BY <1>0, <2>0, <2>5, <3>0, <3>1 DEF AskSet, Store, Holding
  <2>6. CASE InfoSet(h)
    BY <1>0, <2>0, <2>6 DEF InfoSet, Store, Holding
  <2>7. CASE Generate(h) \/ WriteFail(h) \/ Note(h) \/ ShowStatus(h)
    BY <2>0, <2>7 DEF Generate, WriteFail, Note, ShowStatus, Quiet
  <2>8. CASE Truncate(h)
    <3>1. auto_inc_mutex = Nil
      BY <2>8 DEF Truncate, LabelOK, Holding, AutoIncTypeOK
    <3> QED BY <2>8, <3>1 DEF Truncate, Reset
  <2> QED
    BY <1>3, <2>1, <2>2, <2>3, <2>4, <2>5, <2>6, <2>7, <2>8 DEF AutoIncStep
<1> QED BY <1>1, <1>2, <1>3

LEMMA CounterAheadIs ==
    CounterAhead <=> (auto_inc_inited => \A v \in rows \ Unsettled : v < auto_inc_value)
  BY DEF CounterAhead, Settled, Unsettled

\* What a handler that takes the mutex reads.
LEMMA ReadStep ==
    ASSUME AutoIncTypeOK, LabelOK, NotExhausted, NEW h \in Handlers, AutoIncStep(h),
           pc'[h] \in Holding
    PROVE  /\ UNCHANGED <<rows, auto_inc_inited>> /\ Unsettled' = Unsettled
           /\ \A v \in rows : v < NextOfTable
           /\ NextOfTable + MaxRows <= MaxValue
           /\ pc'[h] = "ask_set" => cur'[h] = NextOfTable
           /\ pc'[h] # "ask_set" => next'[h] = NextOfTable
<1> USE DEF AutoIncTypeOK, Holding, Goto, stmt, share
<1>1. AskRead(h) \/ InfoRead(h)
  <2> USE DEF LabelOK
  <2>1. CASE \/ Open(h) \/ Close(h) \/ Truncate(h) \/ \E v \in rows : DeleteRow(h, v)
             \/ \E n \in 1 .. MaxRows : \E announced \in {1, n} : Insert(h, n, announced)
             \/ (\E v \in Explicit : ExplicitRow(h, v)) \/ GeneratedRow(h)
    BY <2>1 DEF Open, Close, Truncate, DeleteRow, Insert, ExplicitRow, GeneratedRow, Idle
  <2>2. CASE Ask(h) \/ AskSet(h) \/ Generate(h) \/ WriteRow(h) \/ WriteFail(h)
    BY <2>2 DEF Ask, AskSet, Generate, End, WriteRow, WriteFail
  <2>3. CASE Note(h) \/ Bump(h)
    BY <2>3 DEF Note, Bump, NextRow, End
  <2>4. CASE ShowStatus(h) \/ InfoInited(h) \/ InfoSet(h)
    BY <2>4 DEF ShowStatus, InfoInited, InfoSet, AfterInfo
  <2> QED BY <2>1, <2>2, <2>3, <2>4 DEF AutoIncStep
<1>2. UNCHANGED <<rows, auto_inc_inited>> /\ ~WriteRow(h) /\ ~Bump(h)
  BY <1>1 DEF AskRead, InfoRead, WriteRow, Bump
<1>3. Unsettled' = Unsettled
  BY <1>2, UnsettledStep
<1>4. \A v \in rows : v \in Nat /\ v + MaxRows < MaxValue /\ v < MaxValue
  <2>1. \A v \in rows : v \in kept \cup rows /\ v \in Nat
    BY DEF ULongLong
  <2> QED BY <2>1, AutoIncrementAssumption DEF NotExhausted
<1>5. /\ \A v \in rows : v < NextOfTable
      /\ NextOfTable = 1 \/ \E v \in rows : NextOfTable = v + 1
  BY <1>4, NextOfTableValue
<1>6. NextOfTable + MaxRows <= MaxValue
  <2>1. auto_inc_value \in Nat /\ 1 + MaxRows <= MaxValue
    BY AutoIncrementAssumption DEF NotExhausted, ULongLong
  <2>2. \A v \in rows : (v + 1) + MaxRows <= MaxValue
    BY <1>4, AutoIncrementAssumption
  <2> HIDE DEF AutoIncTypeOK
  <2> QED BY <1>5, <2>1, <2>2
<1>7. /\ pc'[h] = "ask_set" => cur'[h] = NextOfTable
      /\ pc'[h] # "ask_set" => next'[h] = NextOfTable
  BY <1>1 DEF AskRead, InfoRead
<1> QED BY <1>2, <1>3, <1>5, <1>6, <1>7

LEMMA CounterStep ==
    ASSUME TypeInv, CounterAhead, KeptAhead, ReadAhead, ReadBound, NotExhausted,
           NEW h \in Handlers, AutoIncStep(h)
    PROVE  CounterAhead' /\ KeptAhead' /\ ReadAhead' /\ ReadBound'
<1> USE AutoIncrementAssumption DEF TypeInv
<1>0. /\ \A v \in rows \cup kept : v \in Nat
      /\ \A g \in Handlers : cur[g] \in Nat /\ next[g] \in Nat
      /\ auto_inc_value \in Nat
  BY DEF AutoIncTypeOK, ULongLong
<1>1. Quiet \/ Reset \/ Raise(h) \/ Store(h) \/ Write(h)
  BY StepCases
<1>2. Store(h) => ~auto_inc_inited
  BY DEF Store, LabelOK
<1>3. auto_inc_inited' => \A v \in rows' \ Unsettled' : v < auto_inc_value'
  <2> USE <1>0, CounterAheadIs
  <2>1. CASE Quiet
    BY <2>1 DEF Quiet
  <2>2. CASE Reset
    BY <2>2 DEF Reset
  <2>3. CASE Raise(h)
    BY <2>3 DEF Raise
  <2>4. CASE Store(h)
    BY <2>4 DEF Store, ReadAhead, Holding
  <2>5. CASE Write(h)
    BY <2>5 DEF Write
  <2> QED BY <1>1, <2>1, <2>2, <2>3, <2>4, <2>5
<1>4. CounterAhead'
  BY <1>3 DEF CounterAhead, Settled, Unsettled
<1>5. KeptAhead'
  <2> USE <1>0 DEF KeptAhead
  <2>1. CASE Quiet
    BY <2>1 DEF Quiet
  <2>2. CASE Reset
    BY <2>2 DEF Reset
  <2>3. CASE Raise(h)
    BY <2>3 DEF Raise
  <2>4. CASE Store(h)
    BY <1>2, <2>4 DEF Store
  <2>5. CASE Write(h)
    BY <2>5 DEF Write
  <2> QED BY <1>1, <2>1, <2>2, <2>3, <2>4, <2>5
<1>6. ASSUME NEW g \in Handlers, pc'[g] \in Holding
      PROVE  /\ pc'[g] = "ask_set" => (\A v \in rows' \ Unsettled' : v < cur'[g])
                                       /\ cur'[g] + MaxRows <= MaxValue
             /\ pc'[g] # "ask_set" => (\A v \in rows' \ Unsettled' : v < next'[g])
                                       /\ next'[g] < MaxValue
  <2>1. CASE g = h
    <3>1. NextOfTable \in Nat
      BY Values DEF ULongLong
    <3> QED BY <1>6, <2>1, <3>1, ReadStep
  <2>2. CASE g # h
    <3>1. pc'[g] = pc[g] /\ cur'[g] = cur[g] /\ next'[g] = next[g]
      BY <2>2, OthersSame
    <3>2. auto_inc_mutex = g
      BY <1>6, <3>1 DEF LabelOK
    <3>3. g # Nil
      OBVIOUS
    <3>4. /\ pc[g] = "ask_set" => cur[g] + MaxRows <= MaxValue
          /\ pc[g] # "ask_set" => next[g] < MaxValue
      BY <1>6, <3>1 DEF ReadBound, Holding
    <3>5. rows' \ Unsettled' \subseteq rows \ Unsettled
      <4>1. ~Raise(h)
        BY <3>2, <3>3 DEF Raise
      <4>2. ~Store(h)
        BY <2>2, <3>2 DEF Store, LabelOK
      <4>3. ~Reset
        BY <3>2, <3>3 DEF Reset
      <4> QED BY <1>1, <4>1, <4>2, <4>3 DEF Quiet, Write
    <3>6. /\ pc[g] = "ask_set" => \A v \in rows \ Unsettled : v < cur[g]
          /\ pc[g] # "ask_set" => \A v \in rows \ Unsettled : v < next[g]
      BY <1>6, <3>1 DEF ReadAhead, Holding
    <3> QED BY <3>1, <3>4, <3>5, <3>6
  <2> QED BY <2>1, <2>2
<1>7. ReadAhead' /\ ReadBound'
  BY <1>6 DEF ReadAhead, ReadBound, Holding
<1> QED BY <1>4, <1>5, <1>7

-----------------------------------------------------------------------------
(* The reserved values                                                      *)

\* What an INSERT sees when it asks is below the counter, or in the table if
\* there is no counter.
LEMMA SeenWhenAsked ==
    ASSUME CounterInv
    PROVE  /\ auto_inc_inited => \A v \in Settled(kept \cup rows) : v < auto_inc_value
           /\ ~auto_inc_inited => Settled(kept \cup rows) \subseteq rows
<1>1. Settled(kept \cup rows) = (kept \cup rows) \ Unsettled
  BY DEF Settled, Unsettled
<1> QED BY <1>1, CounterAheadIs DEF CounterInv, KeptAhead

\* The handler that takes the step keeps its values, gives up the first of
\* them, or gets new ones that start at the counter.
LEMMA OwnStep ==
    ASSUME CounterInv, ReservedOK, NotExhausted,
           NEW h \in Handlers, AutoIncStep(h)
    PROVE  /\ StatementOK(h)'
           /\ Active(h)' =>
                /\ Reserved(h)'
                /\ \/ Active(h) /\ First(h) <= First(h)' /\ reserved'[h] = reserved[h]
                   \/ auto_inc_value <= First(h)'
                   \/ ~auto_inc_inited
<1> USE AutoIncrementAssumption
    DEF CounterInv, TypeInv, AutoIncTypeOK, Goto, Noting, share, stmt, StatementOK,
        Active, Reserved, First, HasGenerated
<1>0. /\ StatementOK(h) /\ (Active(h) => Reserved(h))
      /\ auto_inc_value \in Nat /\ cur[h] \in Nat /\ next[h] \in Nat
      /\ left[h] \in Nat /\ desired[h] \in Nat /\ reserved[h] \in Nat
      /\ \A v \in seen[h] : v \in Nat
  BY Values DEF ReservedOK, ULongLong
<1>1. CASE Open(h) \/ Close(h) \/ Truncate(h) \/ \E v \in rows : DeleteRow(h, v)
  <2>1. pc[h] = "idle" /\ UNCHANGED <<pc, stmt>>
    BY <1>1 DEF Open, Close, Truncate, DeleteRow, Idle, LabelOK
  <2>2. ~Active(h)
    BY <1>0, <2>1
  <2> QED BY <1>0, <2>1, <2>2
<1>2. ASSUME NEW n \in 1 .. MaxRows, NEW announced \in {1, n}, Insert(h, n, announced)
      PROVE  StatementOK(h)' /\ ~Active(h)'
  BY <1>0, <1>2 DEF Insert, Idle
<1>3. ASSUME NEW v \in Explicit, ExplicitRow(h, v)
      PROVE  /\ StatementOK(h)'
             /\ Active(h)' => /\ Reserved(h)' /\ Active(h) /\ First(h) <= First(h)'
                              /\ reserved'[h] = reserved[h]
  <2>1. /\ pc[h] = "row" /\ pc'[h] = "write" /\ cur'[h] = v
        /\ next'[h] = IF next[h] > 0 /\ v >= next[h]
                      THEN IF v = MaxValue THEN v ELSE v + 1
                      ELSE next[h]
        /\ UNCHANGED <<auto_inc_inited, auto_inc_value, generated, desired, seen, reserved>>
    BY <1>3 DEF ExplicitRow
  <2>2. v \in Nat
    BY DEF ULongLong
  <2>3. next[h] <= next'[h] /\ next'[h] \in Nat /\ (next[h] = 0 => next'[h] = 0)
    BY <1>0, <2>1, <2>2
  <2>4. ~generated[h]
    BY <2>1 DEF LabelOK
  <2>5. First(h) = next[h] /\ First(h)' = next'[h]
    BY <2>1, <2>4
  <2>6. StatementOK(h)' /\ (Active(h)' <=> Active(h))
    BY <1>0, <2>1, <2>3, <2>4
  <2>7. ASSUME Active(h) PROVE Reserved(h)'
    <3>1. Reserved(h)
      BY <1>0, <2>7
    <3>2. \A s \in seen[h] : s < next'[h]
      <4>1. \A s \in seen[h] : s < next[h] /\ s \in Nat
        BY <1>0, <2>5, <3>1
      <4> HIDE DEF First, Active, HasGenerated, Reserved, StatementOK, CounterInv
      <4> QED BY <1>0, <2>3, <4>1
    <3> QED BY <1>0, <2>1, <2>3, <2>4, <2>5, <3>1, <3>2
  <2> QED BY <2>1, <2>3, <2>5, <2>6, <2>7
<1>13. CASE GeneratedRow(h)
  BY <1>0, <1>13 DEF GeneratedRow
<1>4. CASE Ask(h)
  <2>1. Wrap(auto_inc_value + desired[h]) = auto_inc_value + desired[h]
    BY <1>0, WrapValue, Values DEF NotExhausted
  <2>2. \A v \in Settled(kept \cup rows) : v < auto_inc_value
    BY <1>4, SeenWhenAsked DEF Ask
  <2>3. /\ pc[h] = "ask" /\ pc'[h] = "generate" /\ next'[h] = auto_inc_value
        /\ auto_inc_value' = auto_inc_value + desired[h]
        /\ reserved'[h] = auto_inc_value + desired[h]
        /\ seen'[h] = Settled(kept \cup rows)
        /\ auto_inc_inited'
    BY <1>4, <2>1 DEF Ask
  <2>4. desired[h] >= 1
    BY <1>0, <2>3
  <2>5. First(h)' = auto_inc_value /\ ~HasGenerated(h)'
    BY <2>3
  <2>6. Active(h)'
    BY <1>0, <2>3, <2>4
  <2> HIDE DEF First, CounterInv, TypeInv, AutoIncTypeOK, HasGenerated
  <2>7. StatementOK(h)'
    BY <2>3, <2>6
  <2>8. Reserved(h)'
    <3>1. \A v \in seen'[h] : v < First(h)'
      BY <2>2, <2>3, <2>5
    <3>2. reserved'[h] <= auto_inc_value' /\ auto_inc_inited' /\ pc'[h] = "generate"
      BY <1>0, <2>3
    <3> QED BY <2>5, <3>1, <3>2
  <2> QED BY <1>0, <2>5, <2>7, <2>8
<1>5. CASE AskRead(h)
  <2>1. \A v \in Settled(kept \cup rows) : v < NextOfTable
    BY <1>5, SeenWhenAsked, ReadStep DEF AskRead, Holding
  <2>2. ~Active(h)
    BY <1>0, <1>5 DEF AskRead
  <2> QED BY <1>0, <1>5, <2>1, <2>2 DEF AskRead
<1>6. CASE AskSet(h)
  <2>0. pc[h] = "ask_set"
    BY <1>6 DEF AskSet
  <2>1. Wrap(cur[h] + desired[h]) = cur[h] + desired[h]
    BY <1>0, <2>0, WrapValue, Values DEF ReadBound
  <2>2. /\ pc'[h] = "generate" /\ next'[h] = cur[h] /\ reserved'[h] = cur[h] + desired[h]
        /\ auto_inc_value' = cur[h] + desired[h] /\ auto_inc_inited' = TRUE
        /\ seen'[h] = seen[h]
    BY <1>6, <2>1 DEF AskSet
  <2>3. desired[h] >= 1 /\ ~auto_inc_inited
    BY <1>0, <2>0 DEF LabelOK, Holding
  <2> QED BY <1>0, <2>0, <2>2, <2>3
<1>7. CASE Generate(h)
  <2>1. CASE next[h] \in {0, MaxValue}
    BY <1>0, <1>7, <2>1 DEF Generate, End
  <2>2. CASE next[h] \notin {0, MaxValue}
    <3>1. Wrap(next[h] + 1) = next[h] + 1
      <4>1. next[h] <= MaxValue
        BY Values
      <4>2. next[h] + 1 \in Nat /\ next[h] + 1 <= MaxValue
        BY <1>0, <2>2, <4>1
      <4> QED BY <4>2, WrapValue
    <3>2. /\ pc'[h] = "write" /\ cur'[h] = next[h] /\ next'[h] = next[h] + 1
          /\ generated'[h] = generated[h] /\ seen'[h] = seen[h]
          /\ reserved'[h] = reserved[h]
          /\ UNCHANGED <<auto_inc_inited, auto_inc_value>>
      BY <1>7, <2>2, <3>1 DEF Generate
    <3>3. pc[h] = "generate" /\ generated[h]
      BY <1>7 DEF Generate, LabelOK
    <3>4. First(h) = next[h] /\ First(h)' = next[h] /\ HasGenerated(h)'
      BY <3>2, <3>3
    <3>5. Active(h) /\ Reserved(h)
      BY <1>0, <3>3
    <3>6. StatementOK(h)' /\ Active(h)'
      BY <1>0, <3>2, <3>3, <3>5
    <3> HIDE DEF First, Active, HasGenerated, CounterInv, TypeInv, AutoIncTypeOK
    <3>7. Reserved(h)'
      BY <1>0, <3>2, <3>3, <3>4, <3>5
    <3> QED BY <1>0, <3>2, <3>4, <3>5, <3>6, <3>7
  <2> QED BY <2>1, <2>2
<1>8. CASE WriteRow(h)
  BY <1>0, <1>8 DEF WriteRow
<1>9. CASE WriteFail(h)
  BY <1>0, <1>9 DEF WriteFail, End
<1>10. CASE Note(h)
  BY <1>0, <1>10 DEF Note
<1>11. CASE Bump(h)
  <2>1. CASE left[h] > 1
    <3>1. /\ pc[h] = "bump" /\ pc'[h] = "row" /\ generated'[h] = FALSE
          /\ UNCHANGED <<desired, next, seen, reserved, auto_inc_inited>>
      BY <1>11, <2>1 DEF Bump, NextRow
    <3>2. StatementOK(h)' /\ (Active(h)' <=> Active(h))
      BY <1>0, <3>1
    <3>3. ASSUME Active(h)
          PROVE  Reserved(h)' /\ First(h) <= First(h)' /\ reserved'[h] = reserved[h]
      <4>1. Reserved(h) /\ First(h)' = next[h] /\ First(h) \in Nat
        BY <1>0, <3>1, <3>3
      <4>2. First(h) <= next[h]
        BY <1>0, <4>1
      <4>3. auto_inc_value <= auto_inc_value' /\ auto_inc_value' \in Nat
        <5>1. cur[h] \in kept /\ cur[h] + 1 \in Nat
          BY <1>0, <3>1 DEF LabelOK
        <5>2. cur[h] + 1 <= MaxValue
          BY <1>0, <5>1 DEF NotExhausted
        <5>3. Wrap(cur[h] + 1) = cur[h] + 1
          BY <5>1, <5>2, WrapValue
        <5> QED BY <1>0, <1>11, <5>3 DEF Bump
      <4> HIDE DEF First
      <4>4. \A v \in seen[h] : v < next[h]
        BY <1>0, <4>1, <4>2
      <4>5. reserved[h] <= auto_inc_value'
        BY <1>0, <4>1, <4>3
      <4>6. next[h] # 0 /\ auto_inc_inited
        BY <3>1, <4>1
      <4> QED BY <3>1, <4>1, <4>2, <4>4, <4>5, <4>6
    <3> QED BY <3>2, <3>3
  <2>2. CASE ~(left[h] > 1)
    BY <1>0, <1>11, <2>2 DEF Bump, NextRow, End
  <2> QED BY <2>1, <2>2
<1>12. CASE ShowStatus(h) \/ InfoInited(h) \/ InfoRead(h) \/ InfoSet(h)
  <2>1. ~Active(h) /\ pc[h] \notin {"write", "note", "bump", "row", "generate"}
    BY <1>0, <1>12 DEF ShowStatus, InfoInited, InfoRead, InfoSet, Idle
  <2>2. CASE ShowStatus(h) \/ InfoInited(h)
    BY <1>0, <2>1, <2>2 DEF ShowStatus, InfoInited, AfterInfo, Idle
  <2>3. CASE InfoRead(h)
    BY <1>0, <2>1, <2>3 DEF InfoRead
  <2>4. CASE InfoSet(h)
    BY <1>0, <2>1, <2>4 DEF InfoSet, AfterInfo
  <2> QED BY <1>12, <2>2, <2>3, <2>4
<1> QED
  BY <1>1, <1>2, <1>3, <1>4, <1>5, <1>6, <1>7, <1>8, <1>9, <1>10, <1>11, <1>12, <1>13
  DEF AutoIncStep

\* Another handler keeps its values: they stay below the counter, which is
\* not reset while somebody has asked for values.
LEMMA OtherStep ==
    ASSUME CounterInv, ReservedOK, NotExhausted,
           NEW h \in Handlers, AutoIncStep(h), NEW g \in Handlers, g # h
    PROVE  /\ StatementOK(g)'
           /\ Active(g)' <=> Active(g)
           /\ First(g)' = First(g) /\ reserved'[g] = reserved[g]
           /\ Active(g) => Reserved(g)'
<1>1. /\ pc'[g] = pc[g] /\ cur'[g] = cur[g] /\ next'[g] = next[g]
      /\ seen'[g] = seen[g] /\ reserved'[g] = reserved[g]
      /\ generated'[g] = generated[g] /\ desired'[g] = desired[g]
  BY OthersSame DEF CounterInv, TypeInv
<1>2. StatementOK(g) /\ (Active(g) => Reserved(g))
  BY DEF ReservedOK
<1>3. First(g)' = First(g) /\ (Active(g)' <=> Active(g))
  BY <1>1 DEF First, Active, HasGenerated
<1>6. HasGenerated(g)' <=> HasGenerated(g)
  BY <1>1 DEF HasGenerated
<1>4. StatementOK(g)'
  BY <1>1, <1>2, <1>3, <1>6 DEF StatementOK
<1>5. ASSUME Active(g) PROVE Reserved(g)'
  <2>1. Reserved(g)
    BY <1>2, <1>5
  <2>2. Quiet \/ Reset \/ Raise(h) \/ Store(h) \/ Write(h)
    BY StepCases DEF CounterInv, TypeInv
  <2>3. ~Reset
    BY <2>1 DEF Reset, Reserved
  <2>4. ~Store(h)
    BY <2>1 DEF Store, Reserved, CounterInv, TypeInv, LabelOK
  <2>5. /\ auto_inc_value \in Nat /\ auto_inc_value' \in Nat
        /\ auto_inc_value <= auto_inc_value' /\ auto_inc_inited'
    <3>1. auto_inc_value \in Nat
      BY DEF CounterInv, TypeInv, AutoIncTypeOK, ULongLong
    <3>2. auto_inc_inited
      BY <2>1 DEF Reserved
    <3>3. CASE Quiet \/ Write(h)
      <4>1. auto_inc_value' = auto_inc_value /\ auto_inc_inited' = auto_inc_inited
        BY <3>3 DEF Quiet, Write
      <4> QED BY <3>1, <3>2, <4>1
    <3>4. CASE Raise(h)
      BY <3>4 DEF Raise
    <3> QED BY <2>2, <2>3, <2>4, <3>3, <3>4
  <2>6. reserved[g] \in Nat
    BY DEF CounterInv, TypeInv, AutoIncTypeOK, ULongLong
  <2>7. reserved'[g] <= auto_inc_value'
    BY <1>1, <2>1, <2>5, <2>6 DEF Reserved
  <2> QED BY <1>1, <1>3, <1>6, <2>1, <2>5, <2>7 DEF Reserved
<1> QED BY <1>1, <1>3, <1>4, <1>5

LEMMA ReservedStep ==
    ASSUME CounterInv, ReservedOK, DisjointOK, NotExhausted, CounterInv',
           NEW h \in Handlers, AutoIncStep(h)
    PROVE  ReservedOK' /\ DisjointOK'
<1>1. ReservedOK'
  BY OwnStep, OtherStep DEF ReservedOK
<1>2. \A g \in Handlers : /\ First(g) \in Nat /\ reserved[g] \in Nat
                          /\ First(g)' \in Nat /\ reserved'[g] \in Nat
  BY DEF CounterInv, TypeInv, AutoIncTypeOK, ULongLong, First
<1>3. ASSUME NEW g \in Handlers, g # h, Active(g)', Active(h)'
      PROVE  reserved'[h] <= First(g)' \/ reserved'[g] <= First(h)'
  <2>1. Active(g) /\ First(g)' = First(g) /\ reserved'[g] = reserved[g]
    BY <1>3, OtherStep
  <2>2. auto_inc_inited /\ reserved[g] <= auto_inc_value
    BY <2>1 DEF ReservedOK, Reserved
  <2>3. CASE auto_inc_value <= First(h)'
    <3>1. auto_inc_value \in Nat
      BY DEF CounterInv, TypeInv, AutoIncTypeOK, ULongLong
    <3> QED BY <1>2, <2>1, <2>2, <2>3, <3>1
  <2>4. CASE Active(h) /\ First(h) <= First(h)' /\ reserved'[h] = reserved[h]
    <3>1. reserved[h] <= First(g) \/ reserved[g] <= First(h)
      BY <1>3, <2>1, <2>4 DEF DisjointOK
    <3> QED BY <1>2, <2>1, <2>4, <3>1
  <2> QED BY <1>3, <2>2, <2>3, <2>4, OwnStep
<1>4. ASSUME NEW f \in Handlers, NEW g \in Handlers, f # g, f # h, g # h,
             Active(f)', Active(g)'
      PROVE  reserved'[f] <= First(g)' \/ reserved'[g] <= First(f)'
  <2>1. /\ Active(f) /\ First(f)' = First(f) /\ reserved'[f] = reserved[f]
        /\ Active(g) /\ First(g)' = First(g) /\ reserved'[g] = reserved[g]
    BY <1>4, OtherStep
  <2> QED BY <1>4, <2>1 DEF DisjointOK
<1>5. DisjointOK'
  BY <1>3, <1>4 DEF DisjointOK
<1> QED BY <1>1, <1>5

-----------------------------------------------------------------------------
(* The theorems                                                             *)

LEMMA TypeInvStep == TypeInv /\ [AutoIncNext]_vars => TypeInv'
<1> SUFFICES ASSUME TypeInv, [AutoIncNext]_vars PROVE TypeInv'
  OBVIOUS
<1>1. CASE UNCHANGED vars
  BY <1>1 DEF TypeInv, AutoIncTypeOK, LabelOK, vars
<1>2. ASSUME NEW h \in Handlers, AutoIncStep(h) PROVE TypeInv'
  BY <1>2, TypeStep, LabelStep DEF TypeInv
<1> QED BY <1>1, <1>2 DEF AutoIncNext

\* The counter stays an unsigned integer of its width, whatever the sessions
\* do and although it wraps: no value in the table or in a statement is ever
\* outside it (storage_get_auto_increment, storage_info, storage_write_row).
THEOREM AutoIncTypeCorrect == AutoIncSpec => []AutoIncTypeOK
<1>1. TypeInv => AutoIncTypeOK
  BY DEF TypeInv
<1> QED BY <1>1, TypeInit, TypeInvStep, PTL DEF AutoIncSpec

LEMMA CounterInit == AutoIncInit => CounterInv
<1> SUFFICES ASSUME AutoIncInit PROVE CounterInv
  OBVIOUS
<1>1. TypeInv
  BY TypeInit
<1>2. CounterAhead /\ KeptAhead /\ ReadAhead /\ ReadBound
  BY CounterAheadIs DEF AutoIncInit, KeptAhead, ReadAhead, ReadBound
<1> QED BY <1>1, <1>2 DEF CounterInv

LEMMA CounterInvStep ==
    CounterInv /\ NotExhausted /\ [AutoIncNext]_vars => CounterInv'
<1> SUFFICES ASSUME CounterInv, NotExhausted, [AutoIncNext]_vars PROVE CounterInv'
  OBVIOUS
<1>1. TypeInv'
  BY TypeInvStep DEF CounterInv
<1>2. CASE UNCHANGED vars
  BY <1>1, <1>2 DEF CounterInv, CounterAhead, KeptAhead, ReadAhead, ReadBound, Settled,
     Unsettled, vars
<1>3. ASSUME NEW h \in Handlers, AutoIncStep(h) PROVE CounterInv'
  BY <1>1, <1>3, CounterStep DEF CounterInv
<1> QED BY <1>2, <1>3 DEF AutoIncNext

\* As long as the values are not exhausted, the counter is ahead of every row
\* whose INSERT has returned: neither reading the greatest row while others
\* write (storage_get_auto_increment, storage_info) nor reading
\* auto_inc_inited without the mutex (storage_write_row) loses one, for any
\* number of sessions and whether or not the server announces the rows.
THEOREM CounterAheadCorrect == AutoIncSpec /\ []NotExhausted => []CounterAhead
<1>1. CounterInv => CounterAhead
  BY DEF CounterInv
<1> QED BY <1>1, CounterInit, CounterInvStep, PTL DEF AutoIncSpec

LEMMA ReservedInit == AutoIncInit => ReservedInv
<1> SUFFICES ASSUME AutoIncInit PROVE ReservedInv
  OBVIOUS
<1>1. ReservedOK /\ DisjointOK
  BY DEF AutoIncInit, ReservedOK, DisjointOK, StatementOK, Active, HasGenerated, Noting
<1> QED BY <1>1, CounterInit DEF ReservedInv

LEMMA ReservedInvStep == ReservedInv /\ NotExhausted /\ [AutoIncNext]_vars => ReservedInv'
<1> SUFFICES ASSUME ReservedInv, NotExhausted, [AutoIncNext]_vars PROVE ReservedInv'
  OBVIOUS
<1>1. CounterInv'
  BY CounterInvStep DEF ReservedInv
<1>2. CASE UNCHANGED vars
  BY <1>1, <1>2 DEF ReservedInv, ReservedOK, DisjointOK, StatementOK, Reserved, Active,
     First, HasGenerated, vars
<1>3. ASSUME NEW h \in Handlers, AutoIncStep(h) PROVE ReservedInv'
  BY <1>1, <1>3, ReservedStep DEF ReservedInv
<1> QED BY <1>2, <1>3 DEF AutoIncNext

\* As long as the values are not exhausted, a generated value is new, also when
\* rows with and without a value are mixed: what the statements in flight have
\* asked for and not yet settled is disjoint, below the counter and above every
\* value that had been used when the statement asked.  What a statement generates
\* behind that can be generated by another one too.
THEOREM GeneratedIsNewCorrect == AutoIncSpec /\ []NotExhausted => []GeneratedIsNew
<1>1. ReservedInv => GeneratedIsNew
  <2> SUFFICES ASSUME ReservedInv, NEW h \in Handlers, generated[h], pc[h] = "write"
               PROVE  /\ cur[h] \notin seen[h]
                      /\ \A g \in Handlers \ {h} :
                            /\ generated[g] /\ pc[g] \in {"write"} \cup Noting
                            /\ Announced(h) /\ Announced(g)
                            => cur[g] # cur[h]
    BY DEF GeneratedIsNew
  <2>1. \A g \in Handlers : cur[g] \in Nat /\ reserved[g] \in Nat
    BY DEF ReservedInv, CounterInv, TypeInv, AutoIncTypeOK, ULongLong
  <2>2. HasGenerated(h) /\ Active(h) /\ First(h) = cur[h]
    BY DEF First, HasGenerated, ReservedInv, ReservedOK, StatementOK
  <2>3. cur[h] \notin seen[h]
    BY <2>1, <2>2 DEF ReservedInv, ReservedOK, Reserved
  <2>4. ASSUME NEW g \in Handlers \ {h}, generated[g], pc[g] \in {"write"} \cup Noting,
               Announced(h), Announced(g)
        PROVE  cur[g] # cur[h]
    <3>1. HasGenerated(g) /\ Active(g) /\ First(g) = cur[g]
      BY <2>4 DEF First, HasGenerated, ReservedInv, ReservedOK, StatementOK
    <3>2. reserved[h] <= First(g) \/ reserved[g] <= First(h)
      BY <2>2, <3>1 DEF ReservedInv, DisjointOK
    <3>3. cur[h] < reserved[h] /\ cur[g] < reserved[g]
      BY <2>4 DEF Announced
    <3> QED BY <2>1, <2>2, <3>1, <3>2, <3>3
  <2> QED BY <2>3, <2>4
<1> QED BY <1>1, ReservedInvStep, ReservedInit, PTL DEF AutoIncSpec

=============================================================================
