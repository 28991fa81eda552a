------------------------- MODULE TableSharesProofs -------------------------
(***************************************************************************)
(* Proofs about TableShares, for any set of sessions, tables and objects,  *)
(* and whether mroonga_operations was left locked or not.                  *)
(*                                                                         *)
(*   ShareCountedCorrect        a share is freed by its last holder;       *)
(*   SharesTypeCorrect          no use_count becomes negative;             *)
(*   OneCounterCorrect          handlers share one AUTO_INCREMENT counter; *)
(*   TableKeepsDatabaseCorrect  no Database is closed under a handler.     *)
(***************************************************************************)
EXTENDS TableShares, FiniteSetTheorems, TLAPS

-----------------------------------------------------------------------------
(* The inductive invariant                                                  *)

Opening  == {"open_db", "open_columns", "open", "close"}
Creating == {"create_db", "create_objects", "create_undo", "create_end"}
Renaming == {"rename_db", "rename_to", "rename_objects", "rename_undo",
             "rename_long", "rename_end"}
WithShare == Opening \cup Creating \cup Renaming \cup {"drop_long", "drop_free"}
WithoutName == {"idle", "command"}
WithoutDatabase == {"idle", "open_db", "create_db", "drop_long", "drop_free",
                    "drop_db", "rename_db"}

\* The types, where all that is known of a use_count is that it is a number.
BaseTypeOK ==
    /\ open_tables \in [Tables -> Shares \cup {Nil}]
    /\ use_count \in [Shares -> Int]
    /\ long_term_share \in [Shares -> LongTerms \cup {Nil}]
    /\ long_term_shares \in [Tables -> LongTerms \cup {Nil}]
    /\ cache \in Databases \cup {Nil}
    /\ tables \subseteq Tables
    /\ pc \in [Sessions -> Labels]
    /\ name \in [Sessions -> Tables \cup {Nil}]
    /\ to \in [Sessions -> Tables \cup {Nil}]
    /\ share \in [Sessions -> Shares \cup {Nil}]
    /\ db \in [Sessions -> Databases \cup {Nil}]

\* What a session has at each label.
LabelOK ==
    \A s \in Sessions :
        /\ pc[s] \in WithShare <=> share[s] # Nil
        /\ pc[s] \in WithoutName <=> name[s] = Nil
        /\ pc[s] \in Renaming <=> to[s] # Nil
        /\ pc[s] \in WithoutDatabase => db[s] = Nil

\* The exclusive metadata lock: nobody else uses the tables of a session
\* that creates, renames or drops.
ExclusiveOK ==
    \A s, r \in Sessions : \A t \in Tables :
        s # r /\ pc[s] \in Exclusive /\ Uses(s, t) => ~Uses(r, t)

\* Two tables never have the same share.
DistinctOK ==
    \A t, u \in Tables : open_tables[t] = open_tables[u] /\ open_tables[t] # Nil => t = u

\* OneCounter, also for a handler on the error path of open.
CounterOK ==
    \A s \in Sessions :
        pc[s] \in Opening
        => /\ long_term_share[share[s]] # Nil
           /\ long_term_shares[name[s]] = long_term_share[share[s]]

LockInv    == BaseTypeOK /\ LabelOK /\ ExclusiveOK
CountedInv == LockInv /\ DistinctOK /\ ShareCounted
SharesInv  == CountedInv /\ CounterOK /\ TableKeepsDatabase

-----------------------------------------------------------------------------
(* The actions, by what they do to the registries                           *)

\* A statement takes a share as it starts, and gives it back near its end.
TakesShare(s, t) ==
    Open(s, t) \/ Create(s, t) \/ Drop(s, t) \/ \E u \in Tables : Rename(s, t, u)
FreesShare(s) == OpenUndo(s) \/ Close(s) \/ CreateEnd(s) \/ DropFree(s) \/ RenameEnd(s)

\* Steps that change a long term share only ...
ChangesLongTerm(s) ==
    \/ \E t \in Tables : OpenNoShare(s, t)
    \/ CreateUndo(s) \/ DropLong(s) \/ RenameTo(s) \/ RenameUndo(s) \/ RenameLong(s)
\* ... the Database only ...
ChangesDatabase(s) ==
    \/ OpenDb(s) \/ CreateDb(s) \/ RenameDb(s) \/ DropDb(s) \/ Command(s)
    \/ Flush(s) \/ DropDatabase(s)
\* ... and neither.
Works(s) ==
    \/ OpenColumns(s) \/ CreateObjects(s) \/ RenameObjects(s) \/ DropObjects(s)
    \/ CommandDeinit(s) \/ \E t \in Tables : DropInternal(s, t)

LEMMA StepCases ==
    ASSUME NEW s \in Sessions, SharesStep(s)
    PROVE  \/ \E t \in Tables : TakesShare(s, t)
           \/ FreesShare(s) \/ ChangesLongTerm(s) \/ ChangesDatabase(s) \/ Works(s)
BY DEF SharesStep, TakesShare, FreesShare, ChangesLongTerm, ChangesDatabase, Works

\* mrn_get_share: a share of its own for the table, the one that is
\* registered or a new one.
LEMMA GetShareFacts ==
    ASSUME BaseTypeOK, NEW s \in Sessions, NEW t \in Tables, GetShare(s, t)
    PROVE  \E x \in Shares :
             /\ share' = [share EXCEPT ![s] = x]
             /\ open_tables' = [open_tables EXCEPT ![t] = x]
             /\ use_count' = [use_count EXCEPT ![x] = IF open_tables[t] = Nil THEN 1 ELSE @ + 1]
             /\ open_tables[t] # Nil => x = open_tables[t]
             /\ open_tables[t] = Nil => \A u \in Tables : open_tables[u] # x
             /\ IF open_tables[t] = Nil
                THEN \E l \in LongTerms :
                       /\ long_term_share' = [long_term_share EXCEPT ![x] = l]
                       /\ long_term_shares' = [long_term_shares EXCEPT ![t] = l]
                ELSE UNCHANGED <<long_term_share, long_term_shares>>
<1>1. CASE open_tables[t] # Nil
  <2>1. open_tables[t] \in Shares
    BY <1>1 DEF BaseTypeOK
  <2>2. open_tables' = [open_tables EXCEPT ![t] = open_tables[t]]
    BY <1>1 DEF GetShare, BaseTypeOK
  <2> QED
    BY <1>1, <2>1, <2>2 DEF GetShare
<1>2. CASE open_tables[t] = Nil
  <2>1. PICK x \in Shares \ {open_tables[u] : u \in Tables} :
           /\ \E l \in LongTerms :
                /\ GetLongTermShare(t, l)
                /\ long_term_share' = [long_term_share EXCEPT ![x] = l]
           /\ open_tables' = [open_tables EXCEPT ![t] = x]
           /\ use_count' = [use_count EXCEPT ![x] = 1]
           /\ share' = [share EXCEPT ![s] = x]
    BY <1>2 DEF GetShare
  <2>2. \E l \in LongTerms :
           /\ long_term_share' = [long_term_share EXCEPT ![x] = l]
           /\ long_term_shares' = [long_term_shares EXCEPT ![t] = l]
    BY <2>1 DEF GetLongTermShare
  <2> WITNESS x \in Shares
  <2> QED
    BY <1>2, <2>1, <2>2
<1> QED
  BY <1>1, <1>2

-----------------------------------------------------------------------------
(* Types, labels and locks                                                  *)

LEMMA LabelStep ==
    ASSUME BaseTypeOK, LabelOK, NEW s \in Sessions, SharesStep(s)
    PROVE  BaseTypeOK' /\ LabelOK'
<1> USE SharesAssumption
    DEF BaseTypeOK, LabelOK, Labels, Opening, Creating, Renaming, WithShare,
        WithoutName, WithoutDatabase, Goto, End, Start, registry, mine
<1>1. ASSUME NEW t \in Tables, TakesShare(s, t) PROVE BaseTypeOK' /\ LabelOK'
  <2>1. GetShare(s, t)
    BY <1>1 DEF TakesShare, Open, Create, Drop, Rename
  <2>2. /\ open_tables' \in [Tables -> Shares \cup {Nil}]
        /\ use_count' \in [Shares -> Int]
        /\ long_term_share' \in [Shares -> LongTerms \cup {Nil}]
        /\ long_term_shares' \in [Tables -> LongTerms \cup {Nil}]
        /\ \E x \in Shares : share' = [share EXCEPT ![s] = x]
    BY <2>1, GetShareFacts, SMTT(30)
  <2>3. CASE Open(s, t)
    BY <2>2, <2>3 DEF Open
  <2>4. CASE Create(s, t)
    BY <2>2, <2>4 DEF Create
  <2>5. CASE Drop(s, t)
    BY <2>2, <2>5 DEF Drop
  <2>6. ASSUME NEW u \in Tables, Rename(s, t, u) PROVE BaseTypeOK' /\ LabelOK'
    BY <2>2, <2>6 DEF Rename
  <2> QED
    BY <1>1, <2>3, <2>4, <2>5, <2>6 DEF TakesShare
<1>2. CASE FreesShare(s)
  <2>1. \E b \in BOOLEAN : FreeShare(s, b)
    BY <1>2 DEF FreesShare, OpenUndo, Close, CreateEnd, DropFree, RenameEnd
  <2>2. share[s] \in Shares /\ name[s] \in Tables
    BY <1>2 DEF FreesShare, OpenUndo, Close, CreateEnd, DropFree, RenameEnd
  <2>3. /\ open_tables' \in [Tables -> Shares \cup {Nil}]
        /\ use_count' \in [Shares -> Int]
        /\ long_term_share' \in [Shares -> LongTerms \cup {Nil}]
        /\ long_term_shares' \in [Tables -> LongTerms \cup {Nil}]
        /\ share' = [share EXCEPT ![s] = Nil]
    BY <2>1, <2>2 DEF FreeShare, FreeLongTermShare
  <2>4. CASE OpenUndo(s)
    BY <2>3, <2>4 DEF OpenUndo
  <2>5. CASE Close(s)
    BY <2>3, <2>5 DEF Close
  <2>6. CASE CreateEnd(s)
    BY <2>3, <2>6 DEF CreateEnd
  <2>7. CASE DropFree(s)
    BY <2>3, <2>7 DEF DropFree
  <2>8. CASE RenameEnd(s)
    BY <2>3, <2>8 DEF RenameEnd
  <2> QED
    BY <1>2, <2>4, <2>5, <2>6, <2>7, <2>8 DEF FreesShare
<1>3. CASE ChangesLongTerm(s)
  <2>1. ASSUME NEW t \in Tables, OpenNoShare(s, t) PROVE BaseTypeOK' /\ LabelOK'
    BY <2>1 DEF OpenNoShare, GetShareFails, GetLongTermShare
  <2>2. CASE CreateUndo(s)
    BY <2>2 DEF CreateUndo, FreeLongTermShare
  <2>3. CASE DropLong(s)
    BY <2>3 DEF DropLong, FreeLongTermShare
  <2>4. CASE RenameTo(s)
    BY <2>4 DEF RenameTo, GetLongTermShare
  <2>5. CASE RenameUndo(s)
    BY <2>5 DEF RenameUndo, FreeLongTermShare
  <2>6. CASE RenameLong(s)
    BY <2>6 DEF RenameLong, FreeLongTermShare
  <2> QED
    BY <1>3, <2>1, <2>2, <2>3, <2>4, <2>5, <2>6 DEF ChangesLongTerm
<1>4. CASE ChangesDatabase(s)
  <2>1. CASE OpenDb(s)
    BY <2>1 DEF OpenDb, EnsureDatabaseOpen, OpenDatabase
  <2>2. CASE CreateDb(s)
    BY <2>2 DEF CreateDb, EnsureDatabaseOpen, OpenDatabase
  <2>3. CASE RenameDb(s)
    BY <2>3 DEF RenameDb, EnsureDatabaseOpen, OpenDatabase
  <2>4. CASE DropDb(s)
    BY <2>4 DEF DropDb, OpenDatabase
  <2>5. CASE Command(s)
    BY <2>5 DEF Command, OpenDatabase
  <2>6. CASE Flush(s)
    BY <2>6 DEF Flush
  <2>7. CASE DropDatabase(s)
    BY <2>7 DEF DropDatabase
  <2> QED
    BY <1>4, <2>1, <2>2, <2>3, <2>4, <2>5, <2>6, <2>7 DEF ChangesDatabase
<1>5. CASE Works(s)
  <2>1. CASE OpenColumns(s)
    BY <2>1 DEF OpenColumns
  <2>2. CASE CreateObjects(s)
    BY <2>2 DEF CreateObjects
  <2>3. CASE RenameObjects(s)
    BY <2>3 DEF RenameObjects
  <2>4. CASE DropObjects(s)
    BY <2>4 DEF DropObjects
  <2>5. CASE CommandDeinit(s)
    BY <2>5 DEF CommandDeinit
  <2>6. ASSUME NEW t \in Tables, DropInternal(s, t) PROVE BaseTypeOK' /\ LabelOK'
    BY <2>6 DEF DropInternal
  <2> QED
    BY <1>5, <2>1, <2>2, <2>3, <2>4, <2>5, <2>6 DEF Works
<1> QED
  BY <1>1, <1>2, <1>3, <1>4, <1>5, StepCases

\* A session changes its own label and tables only, and starts to use a table
\* only when the metadata locks let it.
LEMMA LockStep ==
    ASSUME LockInv, NEW s \in Sessions, SharesStep(s)
    PROVE  LockInv'
<1> USE SharesAssumption
<1>1. BaseTypeOK /\ LabelOK /\ ExclusiveOK /\ BaseTypeOK' /\ LabelOK'
  BY LabelStep DEF LockInv
<1>2. \A r \in Sessions \ {s} : pc'[r] = pc[r] /\ name'[r] = name[r] /\ to'[r] = to[r]
  <2> USE <1>1 DEF BaseTypeOK, Goto, Start, End, mine
  <2>1. ASSUME NEW t \in Tables, TakesShare(s, t)
        PROVE  \A r \in Sessions \ {s} : pc'[r] = pc[r] /\ name'[r] = name[r] /\ to'[r] = to[r]
    BY <2>1 DEF TakesShare, Open, Create, Drop, Rename
  <2>2. CASE FreesShare(s)
    BY <2>2 DEF FreesShare, OpenUndo, Close, CreateEnd, DropFree, RenameEnd
  <2>3. CASE ChangesLongTerm(s)
    BY <2>3 DEF ChangesLongTerm, OpenNoShare, CreateUndo, DropLong, RenameTo, RenameUndo,
                RenameLong
  <2>4. CASE ChangesDatabase(s)
    BY <2>4 DEF ChangesDatabase, OpenDb, CreateDb, RenameDb, DropDb, Command, Flush,
                DropDatabase, EnsureDatabaseOpen
  <2>5. CASE Works(s)
    BY <2>5 DEF Works, OpenColumns, CreateObjects, RenameObjects, DropObjects,
                CommandDeinit, DropInternal
  <2> QED
    BY <2>1, <2>2, <2>3, <2>4, <2>5, StepCases
<1>3. ASSUME NEW t \in Tables, Uses(s, t)'
      PROVE  \/ Uses(s, t) /\ (pc'[s] \in Exclusive => pc[s] \in Exclusive)
             \/ pc'[s] \notin Exclusive /\ SharedFree(t)
             \/ ExclusiveFree(t)
  <2> USE <1>1, <1>3 DEF BaseTypeOK, LabelOK, WithoutName, Renaming, Goto, Start, End, mine, Uses
  <2>1. ASSUME NEW u \in Tables, TakesShare(s, u)
        PROVE  (pc'[s] \notin Exclusive /\ SharedFree(t)) \/ ExclusiveFree(t)
    <3>1. CASE Open(s, u)
      BY <3>1 DEF Open, Exclusive
    <3>2. CASE Create(s, u)
      BY <3>2 DEF Create
    <3>3. CASE Drop(s, u)
      BY <3>3 DEF Drop
    <3>4. ASSUME NEW v \in Tables, Rename(s, u, v) PROVE ExclusiveFree(t)
      BY <3>4 DEF Rename
    <3> QED
      BY <2>1, <3>1, <3>2, <3>3, <3>4 DEF TakesShare
  <2> USE DEF Exclusive
  <2>2. CASE FreesShare(s)
    BY <2>2, ZenonT(60) DEF FreesShare, OpenUndo, Close, CreateEnd, DropFree, RenameEnd
  <2>3. CASE ChangesLongTerm(s)
    BY <2>3 DEF ChangesLongTerm, OpenNoShare, CreateUndo, DropLong, RenameTo, RenameUndo,
                RenameLong
  <2>4. CASE ChangesDatabase(s)
    BY <2>4 DEF ChangesDatabase, OpenDb, CreateDb, RenameDb, DropDb, Command, Flush,
                DropDatabase, EnsureDatabaseOpen
  <2>5. CASE Works(s)
    BY <2>5 DEF Works, OpenColumns, CreateObjects, RenameObjects, DropObjects,
                CommandDeinit, DropInternal
  <2> QED
    BY <2>1, <2>2, <2>3, <2>4, <2>5, StepCases
<1>4. ASSUME NEW q \in Sessions, NEW r \in Sessions, NEW t \in Tables,
             q # r, pc'[q] \in Exclusive, Uses(q, t)', Uses(r, t)'
      PROVE  FALSE
  <2>1. CASE q = s
    BY <1>1, <1>2, <1>3, <1>4, <2>1 DEF ExclusiveOK, ExclusiveFree, Uses
  <2>2. CASE r = s
    BY <1>1, <1>2, <1>3, <1>4, <2>2 DEF ExclusiveOK, ExclusiveFree, SharedFree, Uses
  <2>3. CASE q # s /\ r # s
    BY <1>1, <1>2, <1>4, <2>3 DEF ExclusiveOK, Uses
  <2> QED
    BY <2>1, <2>2, <2>3
<1> QED
  BY <1>1, <1>4 DEF LockInv, ExclusiveOK

-----------------------------------------------------------------------------
(* Use counts                                                               *)

\* Neither the registry of open tables nor the holders change.
LEMMA CountedSame ==
    ASSUME CountedInv, LockInv', UNCHANGED <<open_tables, use_count, share>>,
           \A r \in Sessions : share[r] # Nil => name'[r] = name[r]
    PROVE  CountedInv'
<1>1. \A t \in Tables : Holders(t)' = Holders(t)
  BY DEF Holders
<1> QED
  BY <1>1 DEF CountedInv, DistinctOK, ShareCounted

LEMMA HoldersFinite ==
    ASSUME NEW t \in Tables
    PROVE  IsFiniteSet(Holders(t)) /\ Cardinality(Holders(t)) \in Nat
BY SharesAssumption, FS_Subset, FS_CardinalityType DEF Holders

\* The holders of a table are one more.
LEMMA CountedTake ==
    ASSUME CountedInv, LockInv', NEW s \in Sessions, NEW t \in Tables, TakesShare(s, t)
    PROVE  CountedInv'
<1> USE SharesAssumption
<1>1. BaseTypeOK /\ LabelOK /\ DistinctOK /\ ShareCounted /\ BaseTypeOK'
  BY DEF CountedInv, LockInv
<1>2. pc[s] = "idle" /\ name' = [name EXCEPT ![s] = t] /\ GetShare(s, t)
  BY DEF TakesShare, Open, Create, Drop, Rename, Start
<1>3. share[s] = Nil /\ name[s] = Nil
  BY <1>1, <1>2 DEF LabelOK, WithShare, WithoutName, Opening, Creating, Renaming
<1>4. PICK x \in Shares :
             /\ share' = [share EXCEPT ![s] = x]
             /\ open_tables' = [open_tables EXCEPT ![t] = x]
             /\ use_count' = [use_count EXCEPT ![x] = IF open_tables[t] = Nil THEN 1 ELSE @ + 1]
             /\ open_tables[t] # Nil => x = open_tables[t]
             /\ open_tables[t] = Nil => \A u \in Tables : open_tables[u] # x
  BY <1>1, <1>2, GetShareFacts
<1>5. x # Nil /\ \A u \in Tables \ {t} : open_tables[u] # x
  BY <1>1, <1>4 DEF DistinctOK
<1>6. DistinctOK'
  BY <1>1, <1>4, <1>5 DEF DistinctOK, BaseTypeOK
<1>7. Holders(t)' = Holders(t) \cup {s} /\ s \notin Holders(t)
  BY <1>1, <1>2, <1>3, <1>4, <1>5 DEF Holders, BaseTypeOK
<1>8. \A u \in Tables \ {t} : Holders(u)' = Holders(u)
  BY <1>1, <1>2, <1>3, <1>4 DEF Holders, BaseTypeOK
<1>9. Cardinality(Holders(t)') = Cardinality(Holders(t)) + 1
  BY <1>7, HoldersFinite, FS_AddElement
<1>10. use_count'[x] = Cardinality(Holders(t)')
  <2>1. CASE open_tables[t] = Nil
    <3>1. Holders(t) = {}
      BY <1>1, <2>1 DEF ShareCounted
    <3>2. Cardinality(Holders(t)') = 1
      BY <1>9, <3>1, FS_EmptySet
    <3> QED
      BY <1>1, <1>4, <2>1, <3>2 DEF BaseTypeOK
  <2>2. CASE open_tables[t] # Nil
    BY <1>1, <1>4, <1>9, <2>2 DEF ShareCounted, BaseTypeOK
  <2> QED
    BY <2>1, <2>2
<1>11. ASSUME NEW u \in Tables
       PROVE  /\ open_tables'[u] = Nil => Holders(u)' = {}
              /\ open_tables'[u] # Nil => use_count'[open_tables'[u]] = Cardinality(Holders(u)')
                                         /\ Holders(u)' # {}
  <2>1. CASE u = t
    BY <1>1, <1>4, <1>5, <1>7, <1>10, <2>1 DEF BaseTypeOK
  <2>2. CASE u # t
    <3>1. open_tables'[u] = open_tables[u] /\ Holders(u)' = Holders(u)
      BY <1>1, <1>4, <1>8, <2>2 DEF BaseTypeOK
    <3>2. open_tables[u] # Nil => use_count'[open_tables[u]] = use_count[open_tables[u]]
      BY <1>1, <1>4, <1>5, <2>2 DEF BaseTypeOK
    <3>3. /\ open_tables[u] = Nil => Holders(u) = {}
          /\ open_tables[u] # Nil => use_count[open_tables[u]] = Cardinality(Holders(u))
                                    /\ Holders(u) # {}
      BY <1>1 DEF ShareCounted
    <3> QED
      BY <3>1, <3>2, <3>3
  <2> QED
    BY <2>1, <2>2
<1>12. \A r \in Sessions : share'[r] # Nil => open_tables'[name'[r]] = share'[r]
  BY <1>1, <1>2, <1>4 DEF BaseTypeOK, ShareCounted, LabelOK
<1> QED
  BY <1>6, <1>11, <1>12 DEF CountedInv, ShareCounted

\* The holders of a table are one less; the last one takes the share out of
\* the registry.
LEMMA CountedFree ==
    ASSUME CountedInv, LockInv', NEW s \in Sessions, FreesShare(s)
    PROVE  CountedInv'
<1> USE SharesAssumption
<1>1. BaseTypeOK /\ LabelOK /\ DistinctOK /\ ShareCounted /\ BaseTypeOK'
  BY DEF CountedInv, LockInv
<1>a. share[s] \in Shares /\ name[s] \in Tables
  BY <1>1, ZenonT(60) DEF LabelOK, BaseTypeOK, FreesShare, OpenUndo, Close, CreateEnd, DropFree, RenameEnd,
              WithShare, WithoutName, Opening, Creating, Renaming
<1>2. PICK x \in Shares, t \in Tables : x = share[s] /\ t = name[s] /\ x # Nil /\ t # Nil
  BY <1>a
<1>3. /\ share' = [share EXCEPT ![s] = Nil]
      /\ use_count' = [use_count EXCEPT ![x] = @ - 1]
      /\ open_tables' = IF use_count[x] = 1 THEN [open_tables EXCEPT ![t] = Nil] ELSE open_tables
  BY <1>2 DEF FreesShare, OpenUndo, Close, CreateEnd, DropFree, RenameEnd, FreeShare
<1>4. \A r \in Sessions \ {s} : name'[r] = name[r]
  BY <1>1 DEF FreesShare, OpenUndo, Close, CreateEnd, DropFree, RenameEnd, End, BaseTypeOK
<1>5. open_tables[t] = x /\ s \in Holders(t)
  BY <1>1, <1>2 DEF ShareCounted, Holders
<1>6. \A u \in Tables \ {t} : open_tables[u] # x
  BY <1>1, <1>2, <1>5 DEF DistinctOK
<1>7. DistinctOK'
  BY <1>1, <1>2, <1>3 DEF DistinctOK, BaseTypeOK
<1>8. Holders(t)' = Holders(t) \ {s}
  BY <1>1, <1>3, <1>4 DEF Holders, BaseTypeOK
<1>9. \A u \in Tables \ {t} : Holders(u)' = Holders(u)
  BY <1>1, <1>2, <1>3, <1>4 DEF Holders, BaseTypeOK
<1>10. Cardinality(Holders(t)') = Cardinality(Holders(t)) - 1 /\ IsFiniteSet(Holders(t)')
  BY <1>2, <1>5, <1>8, HoldersFinite, FS_RemoveElement
<1>11. /\ use_count[x] = Cardinality(Holders(t)) /\ use_count'[x] = Cardinality(Holders(t)')
  BY <1>1, <1>2, <1>3, <1>5, <1>10 DEF ShareCounted, BaseTypeOK
<1>12. use_count[x] = 1 <=> Holders(t)' = {}
  BY <1>2, <1>10, <1>11, HoldersFinite, FS_EmptySet
<1>13. ASSUME NEW u \in Tables
       PROVE  /\ open_tables'[u] = Nil => Holders(u)' = {}
              /\ open_tables'[u] # Nil => use_count'[open_tables'[u]] = Cardinality(Holders(u)')
                                         /\ Holders(u)' # {}
  <2>1. CASE u = t
    BY <1>1, <1>2, <1>3, <1>5, <1>11, <1>12, <2>1 DEF BaseTypeOK
  <2>2. CASE u # t
    <3>1. open_tables'[u] = open_tables[u] /\ Holders(u)' = Holders(u)
      BY <1>1, <1>3, <1>9, <2>2 DEF BaseTypeOK
    <3>2. open_tables[u] # Nil => use_count'[open_tables[u]] = use_count[open_tables[u]]
      BY <1>1, <1>3, <1>6, <2>2 DEF BaseTypeOK
    <3>3. /\ open_tables[u] = Nil => Holders(u) = {}
          /\ open_tables[u] # Nil => use_count[open_tables[u]] = Cardinality(Holders(u))
                                    /\ Holders(u) # {}
      BY <1>1 DEF ShareCounted
    <3> QED
      BY <3>1, <3>2, <3>3
  <2> QED
    BY <2>1, <2>2
<1>14. ASSUME NEW r \in Sessions, share'[r] # Nil PROVE open_tables'[name'[r]] = share'[r]
  <2>1. r # s /\ share'[r] = share[r] /\ name'[r] = name[r] /\ open_tables[name[r]] = share[r]
    BY <1>1, <1>3, <1>4, <1>14 DEF BaseTypeOK, ShareCounted
  <2>2. CASE name[r] = t
    <3>1. r \in Holders(t)'
      BY <2>1, <2>2, <1>14 DEF Holders
    <3> QED
      BY <1>3, <1>12, <2>1, <3>1
  <2>3. CASE name[r] # t
    BY <1>1, <1>3, <2>1, <2>3 DEF BaseTypeOK
  <2> QED
    BY <2>2, <2>3
<1> QED
  BY <1>7, <1>13, <1>14 DEF CountedInv, ShareCounted

\* The steps that neither take nor free a share keep the holders.
LEMMA CountedOther ==
    ASSUME CountedInv, LockInv', NEW s \in Sessions,
           ChangesLongTerm(s) \/ ChangesDatabase(s) \/ Works(s)
    PROVE  CountedInv'
<1>1. BaseTypeOK /\ LabelOK
  BY DEF CountedInv, LockInv
<1>2. /\ UNCHANGED <<open_tables, use_count, share>>
      /\ \A r \in Sessions : share[r] # Nil => name'[r] = name[r]
  <2> USE <1>1 DEF BaseTypeOK, LabelOK, WithShare, Opening, Creating, Renaming, Goto, Start, End,
                   registry, mine
  <2>1. CASE ChangesLongTerm(s)
    BY <2>1 DEF ChangesLongTerm, OpenNoShare, GetShareFails, CreateUndo, DropLong, RenameTo,
                RenameUndo, RenameLong
  <2>2. CASE ChangesDatabase(s)
    BY <2>2 DEF ChangesDatabase, OpenDb, CreateDb, RenameDb, DropDb, Command, Flush,
                DropDatabase, EnsureDatabaseOpen
  <2>3. CASE Works(s)
    BY <2>3 DEF Works, OpenColumns, CreateObjects, RenameObjects, DropObjects,
                CommandDeinit, DropInternal
  <2> QED
    BY <2>1, <2>2, <2>3
<1> QED
  BY <1>2, CountedSame

LEMMA CountedStep ==
    ASSUME CountedInv, NEW s \in Sessions, SharesStep(s)
    PROVE  CountedInv'
<1>1. LockInv'
  BY LockStep DEF CountedInv
<1> QED
  BY <1>1, StepCases, CountedTake, CountedFree, CountedOther

LEMMA CountedInit == SharesInit => CountedInv
<1> SUFFICES ASSUME SharesInit PROVE CountedInv
  OBVIOUS
<1> USE SharesAssumption
<1>1. BaseTypeOK
  BY DEF SharesInit, BaseTypeOK, Labels
<1>2. LabelOK /\ ExclusiveOK /\ DistinctOK
  BY DEF SharesInit, LabelOK, ExclusiveOK, DistinctOK, Opening, Creating, Renaming, WithShare,
         WithoutName, WithoutDatabase, Exclusive, Uses
<1>3. \A t \in Tables : Holders(t) = {}
  BY DEF SharesInit, Holders
<1>4. ShareCounted
  BY <1>3 DEF SharesInit, ShareCounted
<1> QED
  BY <1>1, <1>2, <1>4 DEF CountedInv, LockInv

LEMMA CountedInvariant == SharesSpec => []CountedInv
<1>1. CountedInv /\ [SharesNext]_vars => CountedInv'
  <2> SUFFICES ASSUME CountedInv, UNCHANGED vars PROVE CountedInv'
    BY CountedStep DEF SharesNext
  <2>1. LockInv'
    BY DEF vars, CountedInv, LockInv, BaseTypeOK, LabelOK, ExclusiveOK, Uses
  <2> QED
    BY <2>1, CountedSame DEF vars
<1> QED
  BY CountedInit, <1>1, PTL DEF SharesSpec

\* Every interleaving of open, close, CREATE, DROP and RENAME keeps the use
\* counts of the registry equal to the number of handlers that have the
\* share; a share is out of the registry exactly when nobody has it.
THEOREM ShareCountedCorrect == SharesSpec => []ShareCounted
<1>1. CountedInv => ShareCounted
  BY DEF CountedInv
<1> QED
  BY CountedInvariant, <1>1, PTL

-----------------------------------------------------------------------------
(* The AUTO_INCREMENT counter and the Database                              *)

\* The last close and DDL free a long term share, but only when no other
\* handler has the table.
LEMMA CounterStep ==
    ASSUME CountedInv, CountedInv', CounterOK, NEW s \in Sessions, SharesStep(s)
    PROVE  CounterOK'
<1> USE SharesAssumption
<1>1. BaseTypeOK /\ LabelOK /\ ExclusiveOK /\ DistinctOK /\ ShareCounted
  BY DEF CountedInv, LockInv
<1>2. BaseTypeOK' /\ LabelOK' /\ ExclusiveOK' /\ ShareCounted'
  BY DEF CountedInv, LockInv
<1>3. \A r \in Sessions : pc[r] \in Opening => share[r] \in Shares /\ name[r] \in Tables
  BY <1>1 DEF BaseTypeOK, LabelOK, WithShare, WithoutName, Opening
<1>4. \A r \in Sessions : pc[r] \in Opening => open_tables[name[r]] = share[r]
  BY <1>1, <1>3 DEF ShareCounted
<1>5. ASSUME NEW t \in Tables, TakesShare(s, t) PROVE CounterOK'
  <2>1. /\ GetShare(s, t) /\ pc[s] = "idle" /\ name' = [name EXCEPT ![s] = t]
        /\ pc' \in [Sessions -> Labels] /\ \A r \in Sessions \ {s} : pc'[r] = pc[r]
        /\ pc'[s] \in Opening => SharedFree(t)
    <3>1. /\ GetShare(s, t) /\ \E l \in Labels : Start(s, t, l)
      BY <1>5 DEF TakesShare, Open, Create, Drop, Rename, Labels
    <3>2. pc'[s] \in Opening => SharedFree(t)
      BY <1>1, <1>5 DEF TakesShare, Open, Create, Drop, Rename, Start, Goto, Opening, BaseTypeOK
    <3> QED
      BY <1>1, <1>2, <3>1, <3>2 DEF Start, Goto, BaseTypeOK
  <2>2. PICK x \in Shares :
             /\ share' = [share EXCEPT ![s] = x]
             /\ open_tables[t] # Nil => x = open_tables[t]
             /\ open_tables[t] = Nil => \A u \in Tables : open_tables[u] # x
             /\ IF open_tables[t] = Nil
                THEN \E l \in LongTerms :
                       /\ long_term_share' = [long_term_share EXCEPT ![x] = l]
                       /\ long_term_shares' = [long_term_shares EXCEPT ![t] = l]
                ELSE UNCHANGED <<long_term_share, long_term_shares>>
    BY <1>1, <2>1, GetShareFacts
  <2>3. CASE open_tables[t] = Nil
    <3>1. PICK l \in LongTerms :
             /\ long_term_share' = [long_term_share EXCEPT ![x] = l]
             /\ long_term_shares' = [long_term_shares EXCEPT ![t] = l]
      BY <2>2, <2>3
    <3>2. \A r \in Sessions : pc[r] \in Opening => name[r] # t /\ share[r] # x
      BY <1>3, <1>4, <2>2, <2>3
    <3> QED
      BY <1>1, <1>3, <2>1, <2>2, <3>1, <3>2 DEF CounterOK, BaseTypeOK
  <2>4. CASE open_tables[t] # Nil
    <3>1. UNCHANGED <<long_term_share, long_term_shares>> /\ x = open_tables[t]
      BY <2>2, <2>4
    <3>2. ASSUME pc'[s] \in Opening
          PROVE  \E r \in Sessions : pc[r] \in Opening /\ name[r] = t /\ share[r] = x
      <4>1. PICK r \in Sessions : name[r] = t /\ share[r] # Nil
        BY <1>1, <2>4 DEF ShareCounted, Holders
      <4>2. pc[r] \notin Exclusive /\ share[r] = x
        BY <1>1, <2>1, <3>1, <3>2, <4>1 DEF SharedFree, Uses, ShareCounted
      <4>3. pc[r] \in Opening
        BY <1>1, <4>1, <4>2 DEF LabelOK, WithShare, Exclusive, Creating, Renaming
      <4> QED
        BY <4>1, <4>2, <4>3
    <3> QED
      BY <1>1, <1>3, <2>1, <2>2, <3>1, <3>2 DEF CounterOK, BaseTypeOK
  <2> QED
    BY <2>3, <2>4
<1>6. CASE FreesShare(s)
  <2>1. /\ share[s] \in Shares /\ name[s] \in Tables
        /\ \A r \in Sessions \ {s} : pc'[r] = pc[r] /\ name'[r] = name[r] /\ share'[r] = share[r]
        /\ pc'[s] \notin Opening
    BY <1>1, <1>6 DEF LabelOK, BaseTypeOK, FreesShare, OpenUndo, Close, CreateEnd, DropFree,
         RenameEnd, FreeShare, End, Goto, WithShare, WithoutName, Opening, Creating, Renaming
  <2>2. \/ UNCHANGED <<long_term_share, long_term_shares>>
        \/ /\ use_count[share[s]] = 1
           /\ long_term_share' = [long_term_share EXCEPT ![share[s]] = Nil]
           /\ \/ UNCHANGED long_term_shares
              \/ long_term_shares' = [long_term_shares EXCEPT ![name[s]] = Nil]
    BY <1>6 DEF FreesShare, OpenUndo, Close, CreateEnd, DropFree, RenameEnd, FreeShare,
                FreeLongTermShare
  <2>3. CASE UNCHANGED <<long_term_share, long_term_shares>>
    BY <1>1, <2>1, <2>3 DEF CounterOK, BaseTypeOK
  <2>4. CASE use_count[share[s]] = 1
    <3>1. open_tables[name[s]] = share[s] /\ Cardinality(Holders(name[s])) = 1
      BY <1>1, <2>1, <2>4 DEF ShareCounted
    <3>2. PICK q : Holders(name[s]) = {q}
      BY <2>1, <3>1, HoldersFinite, FS_Singleton
    <3>3. \A r \in Sessions \ {s} : pc[r] \in Opening => name[r] # name[s] /\ share[r] # share[s]
      <4>1. s \in Holders(name[s])
        BY <2>1 DEF Holders
      <4>2. \A r \in Sessions \ {s} : pc[r] \in Opening => name[r] # name[s]
        BY <1>3, <3>2, <4>1 DEF Holders
      <4>3. \A r \in Sessions : pc[r] \in Opening /\ share[r] = share[s] => name[r] = name[s]
        BY <1>1, <1>3, <1>4, <2>1, <3>1 DEF DistinctOK
      <4> QED
        BY <4>2, <4>3
    <3> QED
      BY <1>1, <1>3, <2>1, <2>2, <3>3 DEF CounterOK, BaseTypeOK
  <2> QED
    BY <2>2, <2>3, <2>4
<1>7. CASE ChangesLongTerm(s)
  <2>1. \A r \in Sessions : name'[r] = name[r] /\ share'[r] = share[r]
    BY <1>7 DEF ChangesLongTerm, OpenNoShare, CreateUndo, DropLong, RenameTo, RenameUndo,
                RenameLong, mine
  <2>2. \A r \in Sessions : pc'[r] \in Opening => pc[r] \in Opening
    BY <1>1, <1>7 DEF ChangesLongTerm, OpenNoShare, CreateUndo, DropLong, RenameTo, RenameUndo,
                      RenameLong, mine, Goto, BaseTypeOK, Opening
  <2>3. PICK t \in Tables :
           /\ \A u \in Tables \ {t} : long_term_shares'[u] = long_term_shares[u]
           /\ \A r \in Sessions : pc[r] \in Opening => name[r] # t
    <3>1. ASSUME NEW t \in Tables, OpenNoShare(s, t)
          PROVE  /\ \A u \in Tables \ {t} : long_term_shares'[u] = long_term_shares[u]
                 /\ \A r \in Sessions : pc[r] \in Opening => name[r] # t
      BY <1>1, <1>3, <1>4, <3>1 DEF OpenNoShare, GetShareFails, GetLongTermShare, BaseTypeOK
    <3>2. ASSUME NEW t \in Tables, pc[s] \in Exclusive, Uses(s, t)
          PROVE  \A r \in Sessions : pc[r] \in Opening => name[r] # t
      BY <1>1, <3>2 DEF ExclusiveOK, Uses, Opening, Exclusive
    <3>3. CASE CreateUndo(s) \/ DropLong(s) \/ RenameLong(s)
      <4>1. /\ name[s] \in Tables /\ pc[s] \in Exclusive /\ Uses(s, name[s])
            /\ long_term_shares' = [long_term_shares EXCEPT ![name[s]] = Nil]
        BY <1>1, <3>3 DEF CreateUndo, DropLong, RenameLong, FreeLongTermShare, Exclusive, Uses,
             BaseTypeOK, LabelOK, WithoutName
      <4> QED
        BY <1>1, <3>2, <4>1 DEF BaseTypeOK
    <3>4. CASE RenameTo(s) \/ RenameUndo(s)
      <4>1. /\ to[s] \in Tables /\ pc[s] \in Exclusive /\ Uses(s, to[s])
            /\ \E l : long_term_shares' = [long_term_shares EXCEPT ![to[s]] = l]
        BY <1>1, <3>4 DEF RenameTo, RenameUndo, FreeLongTermShare, GetLongTermShare, Exclusive,
             Uses, BaseTypeOK, LabelOK, Renaming
      <4> QED
        BY <1>1, <3>2, <4>1 DEF BaseTypeOK
    <3> QED
      BY <1>7, <3>1, <3>3, <3>4 DEF ChangesLongTerm
  <2>4. \A r \in Sessions :
           pc[r] \in Opening => long_term_share'[share[r]] = long_term_share[share[r]]
    <3>1. \/ UNCHANGED long_term_share
          \/ /\ long_term_share' = [long_term_share EXCEPT ![share[s]] = Nil]
             /\ pc[s] \in Exclusive /\ share[s] # Nil /\ name[s] \in Tables
      BY <1>1, <1>7 DEF ChangesLongTerm, OpenNoShare, GetShareFails, CreateUndo, DropLong,
           RenameTo, RenameUndo, RenameLong, Exclusive, BaseTypeOK, LabelOK, WithShare,
           WithoutName, Creating, Renaming
    <3>2. ASSUME NEW r \in Sessions, pc[r] \in Opening, pc[s] \in Exclusive, share[s] # Nil,
                 name[s] \in Tables
          PROVE  share[r] # share[s]
      <4>1. SUFFICES ASSUME share[r] = share[s] PROVE FALSE
        OBVIOUS
      <4>2. name[r] = name[s] /\ r # s
        BY <1>1, <1>3, <1>4, <3>2, <4>1 DEF DistinctOK, ShareCounted, Opening, Exclusive
      <4> QED
        BY <1>1, <3>2, <4>2 DEF ExclusiveOK, Uses
    <3> QED
      BY <1>1, <1>3, <3>1, <3>2 DEF BaseTypeOK
  <2> QED
    BY <1>3, <2>1, <2>2, <2>3, <2>4 DEF CounterOK
<1>8. CASE ChangesDatabase(s)
  BY <1>1, <1>8 DEF CounterOK, ChangesDatabase, OpenDb, CreateDb, RenameDb, DropDb, Command, Flush,
       DropDatabase, EnsureDatabaseOpen, Goto, End, registry, mine, BaseTypeOK, Opening
<1>9. CASE Works(s)
  BY <1>1, <1>9 DEF CounterOK, Works, OpenColumns, CreateObjects, RenameObjects, DropObjects,
       CommandDeinit, DropInternal, Goto, Start, End, registry, mine, BaseTypeOK, Opening
<1> QED
  BY <1>5, <1>6, <1>7, <1>8, <1>9, StepCases

\* FLUSH TABLES closes the Database when no table is registered, and then no
\* handler has a share; DROP DATABASE waits for all of them.
LEMMA DatabaseStep ==
    ASSUME CountedInv, LockInv', TableKeepsDatabase, NEW s \in Sessions, SharesStep(s)
    PROVE  TableKeepsDatabase'
<1> USE SharesAssumption
<1>1. BaseTypeOK /\ LabelOK /\ ShareCounted /\ BaseTypeOK' /\ LabelOK'
  BY DEF CountedInv, LockInv
<1>2. ASSUME NEW t \in Tables, TakesShare(s, t) PROVE TableKeepsDatabase'
  <2>1. /\ UNCHANGED <<cache, db>> /\ db[s] = Nil
        /\ \A r \in Sessions \ {s} : share'[r] = share[r]
    <3>1. GetShare(s, t) /\ UNCHANGED <<cache, db>> /\ pc[s] = "idle"
      BY <1>2 DEF TakesShare, Open, Create, Drop, Rename, Start
    <3> QED
      BY <1>1, <3>1, GetShareFacts DEF BaseTypeOK, LabelOK, WithoutDatabase
  <2> QED
    BY <2>1 DEF TableKeepsDatabase
<1>3. CASE FreesShare(s)
  <2>1. /\ UNCHANGED cache /\ share' = [share EXCEPT ![s] = Nil]
        /\ \A r \in Sessions \ {s} : db'[r] = db[r]
    BY <1>1, <1>3 DEF FreesShare, OpenUndo, Close, CreateEnd, DropFree, RenameEnd, FreeShare, End,
                      BaseTypeOK
  <2> QED
    BY <1>1, <2>1 DEF TableKeepsDatabase, BaseTypeOK
<1>4. CASE ChangesLongTerm(s)
  BY <1>4 DEF TableKeepsDatabase, ChangesLongTerm, OpenNoShare, CreateUndo, DropLong, RenameTo,
              RenameUndo, RenameLong, mine
<1>5. CASE ChangesDatabase(s)
  <2>1. ASSUME UNCHANGED share, NEW d \in Databases, OpenDatabase(s, d) PROVE TableKeepsDatabase'
    BY <1>1, <2>1 DEF OpenDatabase, TableKeepsDatabase, BaseTypeOK
  <2>2. CASE OpenDb(s) \/ CreateDb(s) \/ RenameDb(s) \/ DropDb(s) \/ Command(s)
    BY <2>1, <2>2 DEF OpenDb, CreateDb, RenameDb, DropDb, Command, EnsureDatabaseOpen
  <2>3. CASE Flush(s)
    <3>1. \A r \in Sessions : share[r] # Nil => name[r] \in Tables /\ open_tables[name[r]] # Nil
      BY <1>1 DEF BaseTypeOK, LabelOK, WithShare, WithoutName, Opening, Creating, Renaming,
                  ShareCounted
    <3>2. /\ share[s] = Nil /\ UNCHANGED share /\ \A r \in Sessions \ {s} : db'[r] = db[r]
          /\ cache' = IF \A t \in Tables : open_tables[t] = Nil THEN Nil ELSE cache
      BY <1>1, <2>3 DEF Flush, End, BaseTypeOK, LabelOK, WithShare, Opening, Creating, Renaming
    <3> QED
      BY <3>1, <3>2 DEF TableKeepsDatabase
  <2>4. CASE DropDatabase(s)
    <3>1. \A r \in Sessions : share[r] = Nil
      BY <1>1, <2>4 DEF DropDatabase, ExclusiveFree, Uses, BaseTypeOK, LabelOK, WithShare,
                        WithoutName, Opening, Creating, Renaming
    <3> QED
      BY <2>4, <3>1 DEF DropDatabase, mine, TableKeepsDatabase
  <2> QED
    BY <1>5, <2>2, <2>3, <2>4 DEF ChangesDatabase
<1>6. CASE Works(s)
  <2>1. UNCHANGED <<cache, share>> /\ \A r \in Sessions : db'[r] = db[r] \/ db'[r] = Nil
    BY <1>1, <1>6 DEF Works, OpenColumns, CreateObjects, RenameObjects, DropObjects,
                      CommandDeinit, DropInternal, End, BaseTypeOK
  <2> QED
    BY <2>1 DEF TableKeepsDatabase
<1> QED
  BY <1>2, <1>3, <1>4, <1>5, <1>6, StepCases

LEMMA SharesInvariant == SharesSpec => []SharesInv
<1>1. SharesInit => SharesInv
  <2> SUFFICES ASSUME SharesInit PROVE SharesInv
    OBVIOUS
  <2> QED
    BY CountedInit DEF SharesInit, SharesInv, CounterOK, TableKeepsDatabase, Opening
<1>2. SharesInv /\ [SharesNext]_vars => SharesInv'
  <2> SUFFICES ASSUME SharesInv, [SharesNext]_vars PROVE SharesInv'
    OBVIOUS
  <2>1. ASSUME NEW s \in Sessions, SharesStep(s) PROVE SharesInv'
    <3>1. CountedInv /\ CountedInv' /\ LockInv'
      BY <2>1, CountedStep DEF SharesInv, CountedInv
    <3> QED
      BY <2>1, <3>1, CounterStep, DatabaseStep DEF SharesInv
  <2>2. CASE UNCHANGED vars
    <3>1. LockInv'
      BY <2>2 DEF vars, SharesInv, CountedInv, LockInv, BaseTypeOK, LabelOK, ExclusiveOK, Uses
    <3>2. CountedInv'
      BY <2>2, <3>1, CountedSame DEF vars, SharesInv
    <3> QED
      BY <2>2, <3>2 DEF vars, SharesInv, CounterOK, TableKeepsDatabase
  <2> QED
    BY <2>1, <2>2 DEF SharesNext
<1> QED
  BY <1>1, <1>2, PTL DEF SharesSpec

\* Every variable keeps its type; in particular mrn_free_share never takes a
\* use_count below zero.
THEOREM SharesTypeCorrect == SharesSpec => []SharesTypeOK
<1>1. CountedInv /\ SharesTypeOK /\ [SharesNext]_vars => SharesTypeOK'
  <2> SUFFICES ASSUME CountedInv, SharesTypeOK, [SharesNext]_vars PROVE SharesTypeOK'
    OBVIOUS
  <2>1. ASSUME NEW s \in Sessions, SharesStep(s) PROVE SharesTypeOK'
    <3>1. BaseTypeOK /\ LabelOK /\ ShareCounted /\ BaseTypeOK'
      BY <2>1, LabelStep DEF CountedInv, LockInv
    <3>2. use_count' \in [Shares -> Nat]
      <4>1. ASSUME NEW t \in Tables, TakesShare(s, t) PROVE use_count' \in [Shares -> Nat]
        <5>1. GetShare(s, t)
          BY <4>1 DEF TakesShare, Open, Create, Drop, Rename
        <5> QED
          BY <3>1, <5>1, GetShareFacts DEF SharesTypeOK
      <4>2. CASE FreesShare(s)
        <5>1. /\ share[s] \in Shares /\ name[s] \in Tables /\ share[s] # Nil
              /\ use_count' = [use_count EXCEPT ![share[s]] = @ - 1]
          BY <3>1, <4>2, SharesAssumption
             DEF LabelOK, BaseTypeOK, FreesShare, OpenUndo, Close, CreateEnd, DropFree,
                 RenameEnd, FreeShare, WithShare, WithoutName, Opening, Creating, Renaming
        <5>2. /\ use_count[share[s]] = Cardinality(Holders(name[s]))
              /\ Holders(name[s]) # {}
          BY <3>1, <5>1 DEF ShareCounted
        <5>3. use_count[share[s]] > 0
          BY <5>1, <5>2, HoldersFinite, FS_EmptySet
        <5> QED
          BY <5>1, <5>3 DEF SharesTypeOK
      <4>3. CASE ChangesLongTerm(s) \/ ChangesDatabase(s) \/ Works(s)
        <5>1. UNCHANGED use_count
          BY <4>3 DEF ChangesLongTerm, OpenNoShare, GetShareFails, CreateUndo, DropLong, RenameTo,
               RenameUndo, RenameLong, ChangesDatabase, OpenDb, CreateDb, RenameDb, DropDb,
               Command, Flush, DropDatabase, EnsureDatabaseOpen, Works, OpenColumns,
               CreateObjects, RenameObjects, DropObjects, CommandDeinit, DropInternal, registry
        <5> QED
          BY <5>1 DEF SharesTypeOK
      <4> QED
        BY <2>1, <4>1, <4>2, <4>3, StepCases
    <3> QED
      BY <3>1, <3>2 DEF BaseTypeOK, SharesTypeOK
  <2>2. CASE UNCHANGED vars
    BY <2>2 DEF vars, SharesTypeOK
  <2> QED
    BY <2>1, <2>2 DEF SharesNext
<1>2. SharesInit => SharesTypeOK
  BY DEF SharesInit, SharesTypeOK, Labels
<1> QED
  BY CountedInvariant, <1>1, <1>2, PTL DEF SharesSpec

\* The handlers that have a table open use the registered long term share:
\* neither a close, a failed open nor the DDL of another session frees it
\* under them.
THEOREM OneCounterCorrect == SharesSpec => []OneCounter
<1>1. SharesInv => OneCounter
  BY DEF SharesInv, CounterOK, OneCounter, Opening
<1> QED
  BY SharesInvariant, <1>1, PTL

\* No FLUSH TABLES and no DROP DATABASE closes the Database of a handler that
\* has a share, whether the Database was refused to others or not.
THEOREM TableKeepsDatabaseCorrect == SharesSpec => []TableKeepsDatabase
<1>1. SharesInv => TableKeepsDatabase
  BY DEF SharesInv
<1> QED
  BY SharesInvariant, <1>1, PTL

=============================================================================
