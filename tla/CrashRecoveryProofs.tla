------------------------ MODULE CrashRecoveryProofs ------------------------
(***************************************************************************)
(* Proofs about StorageRows, for any set of handlers, keys and ids, and    *)
(* about CrashRecovery, which goes on from it, for any number of crashes.  *)
(*                                                                         *)
(* The statements (StorageRows):                                           *)
(*   TypeCorrect    every variable keeps its type;                         *)
(*   LogCorrect     an entry of the operations log is a statement's in     *)
(*                  flight, whatever the statements and the failures;      *)
(*   ChangesLogged  a half changed record is in the log;                   *)
(*   UniqueKeyCorrect, RowHasKeyCorrect, NoOrphanKeyCorrect                *)
(*                  the UNIQUE column and its index table agree, for       *)
(*                  sessions that never work on one record at a time       *)
(*                  (Isolated).                                            *)
(*                                                                         *)
(* None of the last three is inductive.  A statement checks for a          *)
(* duplicate, adds its key, writes its column and removes its old key in   *)
(* separate steps, most of them outside of record_mutex; KeyInv says what  *)
(* keeps the statements apart in between: a key id that a statement has    *)
(* to hand over or to remove is held by that statement alone (KeyOK), an   *)
(* added key is the value of no other record (NewKeyOK), and a key to be   *)
(* removed is the value of no record but the statement's own (OldKeyOK).   *)
(*                                                                         *)
(* The crashes (CrashRecovery):                                            *)
(*   RecoveryTypeCorrect   every variable keeps its type;                  *)
(*   RepairIsAloneCorrect  no statement runs beside a repair;              *)
(*   RepairedIndexCorrect  a repaired table's index agrees with its rows.  *)
(*                                                                         *)
(* The last one is about the statements of Isolated without TRUNCATE, with *)
(* recording enabled, as long as no repair fails and no crash falls into   *)
(* the window in which the log is empty and the index not yet rebuilt.     *)
(***************************************************************************)
EXTENDS CrashRecovery, StorageRowsInv, TLAPS

-----------------------------------------------------------------------------
(* Types                                                                    *)

\* Every step keeps the types; what is stored comes from a filled row buffer.
LEMMA TypeStep ==
    ASSUME TypeInv, NEW h \in Handlers, Begin(h) \/ Run(h)
    PROVE  TypeInv'
<1> USE DEF TypeInv, TypeOK, BufferOK, Labels, OpEntries,
            Unplaced, Placed, Updating
<1>1. CASE WriteStep(h)
  BY <1>1 DEF WriteStep, WriteArgsFail, Goto, At, store, ids, buffer, log,
      WriteLock, Acquire, WriteUniqueAdd, AddKey, WriteUniqueDup, HasKey,
      Release, WriteUniqueFail, WriteRecordAdd, WriteRecordDup,
      WriteRecordFail, WriteDupUndo, DeleteKey, WriteTarget, RecordTarget,
      WriteColumns, SetColumn, WriteColumnsFail, WriteRest, WriteErrKey,
      WriteErrRecord, DeleteRecord
<1>2. CASE UpdateStep(h)
  BY SMTT(30), <1>2 DEF UpdateStep, UpdateTarget, RecordTarget, Goto, At, store, ids,
      buffer, UpdateArgsFail, log, UpdateLock, Acquire, UpdatePrepare, HasKey,
      PrepareDeleteKey, UpdateUniqueAdd, AddKey, Release, UpdateUniqueKeep,
      UpdateUniqueDup, UpdateUniqueFail, UpdateColumns, SetColumn,
      UpdateColumnsFail, UpdateRest, UpdateDeleteKey, DeleteKey, UpdateErr
<1>3. CASE DeleteStep(h)
  BY <1>3 DEF DeleteStep, DeleteTarget, RecordTarget, Goto, At, store, ids,
      buffer, DeleteArgsFail, log, DeleteLock, Acquire, DeletePrepare, HasKey,
      PrepareDeleteKey, DeleteRecordStep, DeleteRecord, DeleteRecordFail,
      Release, DeleteIndex, DeleteKeyStep, DeleteKey
<1>4. CASE DeleteAllStep(h)
  BY <1>4 DEF DeleteAllStep, DeleteAllRecord, DeleteRecord, At, ids, buffer,
      log, DeleteAllOpenIndex, Goto, store, DeleteAllKey, DeleteKey,
      DeleteAllDone
<1>5. CASE TruncateStep(h)
  BY <1>5 DEF TruncateStep, TruncateTable, Goto, At, ids, buffer, log,
      TruncateIndex, TruncateLog, store
<1>6. CASE Finish(h)
  BY <1>6 DEF Finish, FinishOperation, Goto, store
<1>7. CASE Begin(h)
  BY <1>7 DEF Begin, WriteRow, StartOperation, Goto, At, ExclusiveFree, store,
      ids, log, ReadRow, Targeted, buffer, UpdateRow, DeleteRow,
      DeleteAllRows, Truncate
<1> QED
  BY <1>1, <1>2, <1>3, <1>4, <1>5, <1>6, <1>7 DEF Run

\* Every variable keeps its type, whatever the sessions do and whatever
\* fails; in particular no statement stores the marker of a column that is
\* not in write_set.
THEOREM TypeCorrect == Spec => []TypeOK
<1>1. Init => TypeInv
  BY ConstantsAssumption
     DEF Init, TypeInv, TypeOK, BufferOK, Labels, Unplaced, Placed, Updating
<1>2. TypeInv /\ [Next]_vars => TypeInv'
  <2> SUFFICES ASSUME TypeInv, [Next]_vars PROVE TypeInv'
    OBVIOUS
  <2>1. CASE Next
    BY <2>1, TypeStep DEF Next
  <2>2. CASE UNCHANGED vars
    BY <2>2 DEF vars, TypeInv, TypeOK, BufferOK
  <2> QED
    BY <2>1, <2>2
<1>3. TypeInv => TypeOK
  BY DEF TypeInv
<1> QED
  BY <1>1, <1>2, <1>3, PTL DEF Spec

-----------------------------------------------------------------------------
(* The operations log                                                       *)

\* TRUNCATE starts when all are idle, and nobody starts beside it.
LEMMA AloneStep ==
    ASSUME TypeOK, AloneOK, NEW h \in Handlers, Begin(h) \/ Run(h)
    PROVE  AloneOK'
<1> USE DEF TypeOK, AloneOK, Truncating
<1>1. CASE WriteStep(h)
  BY <1>1 DEF WriteStep, WriteArgsFail, Goto, At, store, ids, buffer, log,
      WriteLock, Acquire, WriteUniqueAdd, AddKey, WriteUniqueDup, HasKey,
      Release, WriteUniqueFail, WriteRecordAdd, WriteRecordDup,
      WriteRecordFail, WriteDupUndo, DeleteKey, WriteTarget, RecordTarget,
      WriteColumns, SetColumn, WriteColumnsFail, WriteRest, WriteErrKey,
      WriteErrRecord, DeleteRecord
<1>2. CASE UpdateStep(h)
  BY <1>2 DEF UpdateStep, UpdateTarget, RecordTarget, Goto, At, store, ids,
      buffer, UpdateArgsFail, log, UpdateLock, Acquire, UpdatePrepare, HasKey,
      PrepareDeleteKey, UpdateUniqueAdd, AddKey, Release, UpdateUniqueKeep,
      UpdateUniqueDup, UpdateUniqueFail, UpdateColumns, SetColumn,
      UpdateColumnsFail, UpdateRest, UpdateDeleteKey, DeleteKey, UpdateErr
<1>3. CASE DeleteStep(h)
  BY <1>3 DEF DeleteStep, DeleteTarget, RecordTarget, Goto, At, store, ids,
      buffer, DeleteArgsFail, log, DeleteLock, Acquire, DeletePrepare, HasKey,
      PrepareDeleteKey, DeleteRecordStep, DeleteRecord, DeleteRecordFail,
      Release, DeleteIndex, DeleteKeyStep, DeleteKey
<1>4. CASE DeleteAllStep(h)
  BY <1>4 DEF DeleteAllStep, DeleteAllRecord, DeleteRecord, At, ids, buffer,
      log, DeleteAllOpenIndex, Goto, store, DeleteAllKey, DeleteKey,
      DeleteAllDone
<1>5. CASE TruncateStep(h)
  BY <1>5 DEF TruncateStep, TruncateTable, Goto, At, ids, buffer, log,
      TruncateIndex, TruncateLog, store
<1>6. CASE Finish(h)
  BY <1>6 DEF Finish, FinishOperation, Goto, store
<1>7. CASE Begin(h)
  BY <1>7 DEF Begin, WriteRow, StartOperation, Goto, At, ExclusiveFree, store,
      ids, log, ReadRow, Targeted, buffer, UpdateRow, DeleteRow,
      DeleteAllRows, Truncate
<1> QED
  BY <1>1, <1>2, <1>3, <1>4, <1>5, <1>6, <1>7 DEF Run

\* A new entry is the statement's own and is not named yet.
LEMMA StartStep ==
    ASSUME TypeOK, EntryOK, NEW h \in Handlers, pc[h] \in {"idle", "row"},
           NEW type \in {"write", "update", "delete"}, StartOperation(h, type),
           NEW l \in {"w_args", "u_target", "d_target"}, Goto(h, l), UNCHANGED record_id
    PROVE  EntryOK'
<1>0. op_id[h] = Nil
  BY DEF EntryOK
<1> USE DEF TypeOK, Goto
<1>1. CASE Recording
  <2>1. PICK o \in OpIds :
           /\ oplog[o] = Nil
           /\ oplog' = [oplog EXCEPT ![o] = [type |-> type, record |-> Nil]]
           /\ op_id' = [op_id EXCEPT ![h] = o]
    BY <1>1 DEF StartOperation
  <2>2. [type |-> type, record |-> Nil] \in OpEntries /\ o # Nil /\ Nil \notin OpEntries
    BY ConstantsAssumption DEF OpEntries
  <2>3. \A g \in Handlers : op_id[g] # o
    BY <2>1, <2>2 DEF EntryOK
  <2>4. \A g \in Handlers \ {h} :
          /\ op_id'[g] = op_id[g] /\ pc'[g] = pc[g]
          /\ op_id[g] # Nil => oplog'[op_id'[g]] = oplog[op_id[g]]
    BY <2>1, <2>3
  <2>5. op_id'[h] = o /\ oplog'[o] # Nil /\ pc'[h] = l
    BY <2>1, <2>2
  <2> QED
    BY <1>1, <2>2, <2>3, <2>4, <2>5
       DEF EntryOK, Changing, Logged, Unplaced, Placed, Updating, Deleting,
           Truncating, Clearing
<1>2. CASE ~Recording
  BY <1>0, <1>2
     DEF StartOperation, log, EntryOK, Truncating, Clearing
<1> QED
  BY <1>1, <1>2

\* An entry is started by the first step of a statement, named by its
\* record_target step, and finished by its last step; no other step touches
\* the log, but for TRUNCATE, which is alone when it clears it.
LEMMA EntryStep ==
    ASSUME TypeOK, AloneOK, EntryOK, NEW h \in Handlers, Begin(h) \/ Run(h)
    PROVE  EntryOK'
<1>0. /\ \A e \in OpEntries : e # Nil /\ e.type \in {"write", "update", "delete"}
      /\ \A t \in {"write", "update", "delete"}, r \in RecIds \cup {Nil} :
           /\ [type |-> t, record |-> r] \in OpEntries
           /\ [type |-> t, record |-> r].record = r
  BY ConstantsAssumption DEF OpEntries
<1> USE <1>0
    DEF TypeOK, AloneOK, EntryOK, Changing, Logged,
        Unplaced, Placed, Updating, Deleting, Truncating, Clearing
<1>1. CASE WriteStep(h)
  <2>1. CASE WriteTarget(h)
    BY <2>1 DEF WriteTarget, RecordTarget, Release, Goto, At, store, ids,
        buffer
  <2>2. CASE WriteRecordAdd(h)
    BY <2>2 DEF WriteRecordAdd, Goto, At, buffer, log
  <2>3. CASE ~WriteTarget(h) /\ ~WriteRecordAdd(h)
    BY <1>1, <2>3 DEF WriteStep, WriteArgsFail, Goto, At, store, ids, buffer,
        log, WriteLock, Acquire, WriteUniqueAdd, AddKey, WriteUniqueDup,
        HasKey, Release, WriteUniqueFail, WriteRecordAdd, WriteRecordDup,
        WriteRecordFail, WriteDupUndo, DeleteKey, WriteTarget, RecordTarget,
        WriteColumns, SetColumn, WriteColumnsFail, WriteRest, WriteErrKey,
        WriteErrRecord, DeleteRecord
  <2> QED
    BY <2>1, <2>2, <2>3
<1>2. CASE UpdateStep(h)
  <2>1. CASE UpdateTarget(h)
    BY <2>1 DEF UpdateTarget, RecordTarget, Goto, At, store, ids, buffer
  <2>2. CASE ~UpdateTarget(h)
    BY <1>2, <2>2 DEF UpdateStep, UpdateTarget, RecordTarget, Goto, At, store,
        ids, buffer, UpdateArgsFail, log, UpdateLock, Acquire, UpdatePrepare,
        HasKey, PrepareDeleteKey, UpdateUniqueAdd, AddKey, Release,
        UpdateUniqueKeep, UpdateUniqueDup, UpdateUniqueFail, UpdateColumns,
        SetColumn, UpdateColumnsFail, UpdateRest, UpdateDeleteKey, DeleteKey,
        UpdateErr
  <2> QED
    BY <2>1, <2>2
<1>3. CASE DeleteStep(h)
  <2>1. CASE DeleteTarget(h)
    BY <2>1 DEF DeleteTarget, RecordTarget, Goto, At, store, ids, buffer
  <2>2. CASE ~DeleteTarget(h)
    BY <1>3, <2>2 DEF DeleteStep, DeleteTarget, RecordTarget, Goto, At, store,
        ids, buffer, DeleteArgsFail, log, DeleteLock, Acquire, DeletePrepare,
        HasKey, PrepareDeleteKey, DeleteRecordStep, DeleteRecord,
        DeleteRecordFail, Release, DeleteIndex, DeleteKeyStep, DeleteKey
  <2> QED
    BY <2>1, <2>2
<1>4. CASE DeleteAllStep(h)
  BY <1>4 DEF DeleteAllStep, DeleteAllRecord, DeleteRecord, At, ids, buffer,
      log, DeleteAllOpenIndex, Goto, store, DeleteAllKey, DeleteKey,
      DeleteAllDone
<1>5. CASE TruncateStep(h)
  BY <1>5 DEF TruncateStep, TruncateTable, Goto, At, ids, buffer, log,
      TruncateIndex, TruncateLog, store
<1>6. CASE Finish(h)
  BY <1>6 DEF Finish, FinishOperation, Goto, store
<1>7. CASE Begin(h)
  <2>1. CASE \E p \in PKeys, u \in UKeys : WriteRow(h, p, u)
    BY <2>1, StartStep DEF WriteRow, At, ids
  <2>2. CASE \E p \in PKeys, u \in UKeys \cup {Keep} : UpdateRow(h, p, u)
    BY <2>2, StartStep DEF UpdateRow, At, ids
  <2>3. CASE DeleteRow(h)
    BY <2>3, StartStep DEF DeleteRow, At, ids
  <2>4. CASE (\E r \in RecIds : ReadRow(h, r)) \/ DeleteAllRows(h) \/ Truncate(h)
    BY <2>4 DEF ReadRow, Goto, At, ExclusiveFree, Targeted, store, buffer,
        log, DeleteAllRows, ids, Truncate
  <2> QED
    BY <1>7, <2>1, <2>2, <2>3, <2>4 DEF Begin
<1> QED
  BY <1>1, <1>2, <1>3, <1>4, <1>5, <1>6, <1>7 DEF Run

\* An entry that is there is some handler's op_id.
LEMMA LogLiveStep ==
    ASSUME TypeOK, AloneOK, EntryOK, LogIsLive, NEW h \in Handlers, Begin(h) \/ Run(h)
    PROVE  LogIsLive'
<1> USE ConstantsAssumption
    DEF TypeOK, EntryOK, LogIsLive, Truncating, Clearing
<1>1. CASE WriteStep(h)
  BY <1>1 DEF WriteStep, WriteArgsFail, Goto, At, store, ids, buffer, log,
      WriteLock, Acquire, WriteUniqueAdd, AddKey, WriteUniqueDup, HasKey,
      Release, WriteUniqueFail, WriteRecordAdd, WriteRecordDup,
      WriteRecordFail, WriteDupUndo, DeleteKey, WriteTarget, RecordTarget,
      WriteColumns, SetColumn, WriteColumnsFail, WriteRest, WriteErrKey,
      WriteErrRecord, DeleteRecord
<1>2. CASE UpdateStep(h)
  BY <1>2 DEF UpdateStep, UpdateTarget, RecordTarget, Goto, At, store, ids,
      buffer, UpdateArgsFail, log, UpdateLock, Acquire, UpdatePrepare, HasKey,
      PrepareDeleteKey, UpdateUniqueAdd, AddKey, Release, UpdateUniqueKeep,
      UpdateUniqueDup, UpdateUniqueFail, UpdateColumns, SetColumn,
      UpdateColumnsFail, UpdateRest, UpdateDeleteKey, DeleteKey, UpdateErr
<1>3. CASE DeleteStep(h)
  BY <1>3, SMTT(20) DEF DeleteStep, DeleteTarget, RecordTarget, Goto, At,
      store, ids, buffer, DeleteArgsFail, log, DeleteLock, Acquire,
      DeletePrepare, HasKey, PrepareDeleteKey, DeleteRecordStep, DeleteRecord,
      DeleteRecordFail, Release, DeleteIndex, DeleteKeyStep, DeleteKey
<1>4. CASE DeleteAllStep(h)
  BY <1>4 DEF DeleteAllStep, DeleteAllRecord, DeleteRecord, At, ids, buffer,
      log, DeleteAllOpenIndex, Goto, store, DeleteAllKey, DeleteKey,
      DeleteAllDone
<1>5. CASE TruncateStep(h)
  BY <1>5 DEF TruncateStep, TruncateTable, Goto, At, ids, buffer, log,
      TruncateIndex, TruncateLog, store
<1>6. CASE Finish(h)
  BY <1>6 DEF Finish, FinishOperation, Goto, store
<1>7. CASE Begin(h)
  BY <1>7, SMTT(20) DEF Begin, WriteRow, StartOperation, Goto, At,
      ExclusiveFree, store, ids, log, ReadRow, Targeted, buffer, UpdateRow,
      DeleteRow, DeleteAllRows, Truncate
<1> QED
  BY <1>1, <1>2, <1>3, <1>4, <1>5, <1>6, <1>7 DEF Run

LEMMA LogInvStep ==
    ASSUME LogInv, NEW h \in Handlers, Begin(h) \/ Run(h)
    PROVE  LogInv'
BY TypeStep, AloneStep, EntryStep, LogLiveStep DEF LogInv, TypeInv

\* The invariant behind the two theorems about the log.
LEMMA LogInvariant == Spec => []LogInv
<1>1. Init => LogInv
  BY ConstantsAssumption
     DEF Init, LogInv, TypeInv, TypeOK, BufferOK, AloneOK, EntryOK, LogIsLive,
         Labels, Changing, Logged, Unplaced, Placed, Updating, Deleting,
         Truncating, Clearing
<1>2. LogInv /\ [Next]_vars => LogInv'
  <2> SUFFICES ASSUME LogInv, [Next]_vars PROVE LogInv'
    OBVIOUS
  <2>1. CASE Next
    BY <2>1, LogInvStep DEF Next
  <2>2. CASE UNCHANGED vars
    BY <2>2 DEF vars, LogInv, TypeInv, TypeOK, BufferOK, AloneOK, EntryOK, LogIsLive
  <2> QED
    BY <2>1, <2>2
<1> QED
  BY <1>1, <1>2, PTL DEF Spec

\* Whatever the sessions do and whatever fails, an entry of
\* mroonga_operations belongs to a statement in flight: ~Operation finishes
\* it on every return of storage_write_row, storage_update_row and
\* storage_delete_row.
THEOREM LogCorrect == Spec => []LogIsLive
BY LogInvariant, PTL DEF LogInv

\* Whatever the sessions do and whatever fails, a statement that may leave
\* its record half changed is named, with that record, by an entry of its
\* own: a crash at any point finds it in mroonga_operations.
THEOREM ChangesLogged == Spec => []ChangeIsLogged
<1>1. LogInv => ChangeIsLogged
  BY DEF LogInv, TypeInv, TypeOK, EntryOK, ChangeIsLogged, Changing, Logged,
         Unplaced, Placed, Updating, Deleting
<1> QED
  BY <1>1, LogInvariant, PTL

-----------------------------------------------------------------------------
(* Steps                                                                    *)

\* The steps that change where a handler is, and neither a table nor an id;
\* the first one of an INSERT or an UPDATE fills the row buffer.
Moves ==
    { <<"w_args", "done">>, <<"w_args", "w_ukey">>, <<"w_ukey", "done">>,
      <<"w_pkey", "w_dup">>, <<"w_target", "w_cols">>, <<"w_cols", "w_err_key">>,
      <<"w_rest", "w_done">>, <<"w_rest", "w_err_key">>,
      <<"u_target", "u_args">>, <<"u_args", "done">>, <<"u_args", "u_prep">>,
      <<"u_ukey", "done">>, <<"u_cols", "u_err">>, <<"u_rest", "u_del_key">>,
      <<"row", "d_target">>, <<"d_target", "d_args">>, <<"d_args", "done">>,
      <<"d_args", "d_prep">>, <<"d_rec", "done">>, <<"d_index", "d_key">>,
      <<"t_log", "done">>, <<"idle", "t_table">>,
      <<"idle", "w_args">>, <<"row", "u_target">> }

Moved(h) ==
    /\ \E l \in Labels :
         /\ <<pc[h], l>> \in Moves /\ Goto(h, l)
         /\ \A g \in Handlers :
              new_u'[g] = new_u[g] \/ (g = h /\ l \in {"w_args", "u_target"})
    /\ UNCHANGED <<rec, col, idx, record_id, key_id, del_key_id>>

\* The steps of a statement that Isolated admits.
KeyStep(h) ==
    \/ Moved(h)
    \/ WriteUniqueAdd(h) \/ WriteRecordAdd(h) \/ WriteDupUndo(h)
    \/ WriteColumns(h) \/ WriteErrKey(h) \/ WriteErrRecord(h)
    \/ UpdatePrepare(h) \/ UpdateUniqueAdd(h) \/ UpdateUniqueKeep(h)
    \/ UpdateColumns(h) \/ UpdateDeleteKey(h) \/ UpdateErr(h)
    \/ DeletePrepare(h) \/ DeleteRecordStep(h) \/ DeleteKeyStep(h)
    \/ TruncateTable(h) \/ TruncateIndex(h) \/ Finish(h)
    \/ \E r \in RecIds : ReadRow(h, r)

\* Under Isolated every step is one of these: DELETE without condition does
\* not start, and the returns that leave a key behind are not taken.
LEMMA EveryStep ==
    ASSUME Isolated, TypeInv, LabelOK, NEW h \in Handlers, Begin(h) \/ Run(h)
    PROVE  KeyStep(h)
<1> USE DEF Isolated, TypeInv, TypeOK, BufferOK, LabelOK, Labels, Unplaced, Placed,
            Clearing, Moves, Moved
<1>1. CASE WriteStep(h)
  <2>1. ASSUME \/ WriteArgsFail(h) \/ WriteLock(h) \/ WriteUniqueDup(h)
               \/ WriteUniqueFail(h) \/ WriteRecordDup(h) \/ WriteRecordFail(h)
               \/ WriteTarget(h) \/ WriteColumnsFail(h) \/ WriteRest(h)
        PROVE  Moved(h)
    BY <2>1 DEF WriteArgsFail, Goto, At, store, ids, buffer, log, WriteLock,
        Acquire, WriteUniqueDup, HasKey, Release, WriteUniqueFail,
        WriteRecordDup, WriteRecordFail, WriteTarget, RecordTarget,
        WriteColumnsFail, WriteRest
  <2> QED
    BY <1>1, <2>1 DEF WriteStep, KeyStep
<1>2. CASE UpdateStep(h)
  <2>1. ASSUME \/ UpdateTarget(h) \/ UpdateArgsFail(h) \/ UpdateLock(h)
               \/ UpdateUniqueDup(h) \/ UpdateUniqueFail(h) \/ UpdateColumnsFail(h)
               \/ UpdateRest(h)
        PROVE  Moved(h)
    BY <2>1 DEF UpdateTarget, RecordTarget, Goto, At, store, ids, buffer,
        UpdateArgsFail, log, UpdateLock, Acquire, UpdateUniqueDup, HasKey,
        Release, UpdateUniqueFail, UpdateColumnsFail, UpdateRest
  <2> QED
    BY <1>2, <2>1 DEF UpdateStep, KeyStep
<1>3. CASE DeleteStep(h)
  <2>1. ASSUME \/ DeleteTarget(h) \/ DeleteArgsFail(h) \/ DeleteLock(h)
               \/ DeleteRecordFail(h) \/ DeleteIndex(h)
        PROVE  Moved(h)
    BY <2>1 DEF DeleteTarget, RecordTarget, Goto, At, store, ids, buffer,
        DeleteArgsFail, log, DeleteLock, Acquire, DeleteRecordFail, Release,
        DeleteIndex
  <2> QED
    BY <1>3, <2>1 DEF DeleteStep, KeyStep
<1>4. CASE DeleteAllStep(h)
  BY <1>4 DEF DeleteAllStep, DeleteAllRecord, DeleteRecord, At, ids, buffer,
      log, DeleteAllOpenIndex, Goto, store, DeleteAllKey, DeleteKey,
      DeleteAllDone
<1>5. CASE TruncateStep(h)
  <2>1. ASSUME TruncateLog(h)
        PROVE  Moved(h)
    BY <2>1 DEF TruncateLog, Goto, At, store, ids, buffer
  <2> QED
    BY <1>5, <2>1 DEF TruncateStep, KeyStep
<1>6. CASE Begin(h)
  <2>1. ASSUME NEW p \in PKeys, NEW u \in UKeys, WriteRow(h, p, u)
        PROVE  Moved(h)
    BY <2>1 DEF WriteRow, StartOperation, Goto, At, ExclusiveFree, store, ids,
        log
  <2>2. ASSUME NEW p \in PKeys, NEW u \in UKeys \cup {Keep}, UpdateRow(h, p, u)
        PROVE  Moved(h)
    BY <2>2 DEF UpdateRow, StartOperation, Goto, At, store, ids, log
  <2>3. ASSUME DeleteRow(h) \/ DeleteAllRows(h) \/ Truncate(h)
        PROVE  Moved(h)
    BY <2>3 DEF DeleteRow, StartOperation, Goto, At, store, ids, buffer, log,
        DeleteAllRows, ExclusiveFree, Truncate
  <2> QED
    BY <1>6, <2>1, <2>2, <2>3 DEF Begin, KeyStep
<1> QED
  BY <1>1, <1>2, <1>3, <1>4, <1>5, <1>6 DEF Run, KeyStep

-----------------------------------------------------------------------------
(* Control: the mutex, the ids at each label, the records owned             *)

\* Between Acquire and Release a handler has record_mutex.
LEMMA MutexStep ==
    ASSUME TypeOK, MutexOK, NEW h \in Handlers, Begin(h) \/ Run(h)
    PROVE  MutexOK'
<1> USE ConstantsAssumption DEF TypeOK, MutexOK, Critical
<1>1. CASE WriteStep(h)
  BY <1>1 DEF WriteStep, WriteArgsFail, Goto, At, store, ids, buffer, log,
      WriteLock, Acquire, WriteUniqueAdd, AddKey, WriteUniqueDup, HasKey,
      Release, WriteUniqueFail, WriteRecordAdd, WriteRecordDup,
      WriteRecordFail, WriteDupUndo, DeleteKey, WriteTarget, RecordTarget,
      WriteColumns, SetColumn, WriteColumnsFail, WriteRest, WriteErrKey,
      WriteErrRecord, DeleteRecord
<1>2. CASE UpdateStep(h)
  BY <1>2 DEF UpdateStep, UpdateTarget, RecordTarget, Goto, At, store, ids,
      buffer, UpdateArgsFail, log, UpdateLock, Acquire, UpdatePrepare, HasKey,
      PrepareDeleteKey, UpdateUniqueAdd, AddKey, Release, UpdateUniqueKeep,
      UpdateUniqueDup, UpdateUniqueFail, UpdateColumns, SetColumn,
      UpdateColumnsFail, UpdateRest, UpdateDeleteKey, DeleteKey, UpdateErr
<1>3. CASE DeleteStep(h)
  BY <1>3 DEF DeleteStep, DeleteTarget, RecordTarget, Goto, At, store, ids,
      buffer, DeleteArgsFail, log, DeleteLock, Acquire, DeletePrepare, HasKey,
      PrepareDeleteKey, DeleteRecordStep, DeleteRecord, DeleteRecordFail,
      Release, DeleteIndex, DeleteKeyStep, DeleteKey
<1>4. CASE DeleteAllStep(h)
  BY <1>4 DEF DeleteAllStep, DeleteAllRecord, DeleteRecord, At, ids, buffer,
      log, DeleteAllOpenIndex, Goto, store, DeleteAllKey, DeleteKey,
      DeleteAllDone
<1>5. CASE TruncateStep(h)
  BY <1>5 DEF TruncateStep, TruncateTable, Goto, At, ids, buffer, log,
      TruncateIndex, TruncateLog, store
<1>6. CASE Finish(h)
  BY <1>6 DEF Finish, FinishOperation, Goto, store
<1>7. CASE Begin(h)
  BY <1>7 DEF Begin, WriteRow, StartOperation, Goto, At, ExclusiveFree, store,
      ids, log, ReadRow, Targeted, buffer, UpdateRow, DeleteRow,
      DeleteAllRows, Truncate
<1> QED
  BY <1>1, <1>2, <1>3, <1>4, <1>5, <1>6, <1>7 DEF Run

\* The ids are Nil until their statement sets them.
LEMMA LabelStep ==
    ASSUME Isolated, TypeInv, LabelOK, NEW h \in Handlers, KeyStep(h), TypeInv'
    PROVE  LabelOK'
<1> USE ConstantsAssumption
    DEF Isolated, TypeInv, TypeOK, BufferOK, LabelOK, Clearing, NoNew, NoOld,
        HasNew, Unplaced, Placed, Updating, Deleting
<1>1. CASE Moved(h)
  BY <1>1 DEF Moved, Moves, Goto
<1>2. CASE \/ WriteUniqueAdd(h) \/ WriteRecordAdd(h) \/ WriteDupUndo(h)
           \/ WriteColumns(h) \/ WriteErrKey(h) \/ WriteErrRecord(h)
  BY <1>2 DEF WriteUniqueAdd, AddKey, Goto, At, buffer, log, WriteRecordAdd,
      WriteDupUndo, DeleteKey, Release, ids, WriteColumns, HasKey, SetColumn,
      WriteErrKey, WriteErrRecord, DeleteRecord
<1>3. CASE \/ UpdatePrepare(h) \/ UpdateUniqueAdd(h) \/ UpdateUniqueKeep(h)
           \/ UpdateColumns(h) \/ UpdateDeleteKey(h) \/ UpdateErr(h)
  BY <1>3 DEF UpdatePrepare, HasKey, PrepareDeleteKey, Goto, At, store,
      buffer, log, UpdateUniqueAdd, AddKey, Release, UpdateUniqueKeep,
      UpdateColumns, SetColumn, ids, UpdateDeleteKey, DeleteKey, UpdateErr
<1>4. CASE DeletePrepare(h) \/ DeleteRecordStep(h) \/ DeleteKeyStep(h)
  BY <1>4 DEF DeletePrepare, HasKey, PrepareDeleteKey, Goto, At, store,
      buffer, log, DeleteRecordStep, DeleteRecord, ids, DeleteKeyStep,
      DeleteKey, Release
<1>5. CASE TruncateTable(h) \/ TruncateIndex(h) \/ Finish(h)
  BY <1>5 DEF TruncateTable, Goto, At, ids, buffer, log, TruncateIndex,
      Finish, FinishOperation, store
<1>6. CASE \E r \in RecIds : ReadRow(h, r)
  BY <1>6 DEF ReadRow, Goto, At, ExclusiveFree, Targeted, store, buffer, log
<1> QED
  BY <1>1, <1>2, <1>3, <1>4, <1>5, <1>6 DEF KeyStep

\* No two handlers own one record: a record is taken by a scan only when no
\* other session has it, and by an INSERT only when it is not there.
LEMMA TargetStep ==
    ASSUME Isolated, TypeInv, AloneOK, LabelOK, TargetOK, NEW h \in Handlers, KeyStep(h)
    PROVE  TargetOK'
<1> USE ConstantsAssumption
    DEF Isolated, TypeInv, TypeOK, BufferOK, AloneOK, LabelOK, TargetOK, Live,
        Owning, Unplaced, Placed, Updating, Deleting, Truncating
<1>1. CASE Moved(h)
  BY <1>1 DEF Moved, Moves, Goto
<1>2. CASE \/ WriteUniqueAdd(h) \/ WriteRecordAdd(h) \/ WriteDupUndo(h)
           \/ WriteColumns(h) \/ WriteErrKey(h) \/ WriteErrRecord(h)
  BY <1>2 DEF WriteUniqueAdd, AddKey, Goto, At, buffer, log, WriteRecordAdd,
      WriteDupUndo, DeleteKey, Release, ids, WriteColumns, HasKey, SetColumn,
      WriteErrKey, WriteErrRecord, DeleteRecord
<1>3. CASE \/ UpdatePrepare(h) \/ UpdateUniqueAdd(h) \/ UpdateUniqueKeep(h)
           \/ UpdateColumns(h) \/ UpdateDeleteKey(h) \/ UpdateErr(h)
  BY <1>3 DEF UpdatePrepare, HasKey, PrepareDeleteKey, Goto, At, store,
      buffer, log, UpdateUniqueAdd, AddKey, Release, UpdateUniqueKeep,
      UpdateColumns, SetColumn, ids, UpdateDeleteKey, DeleteKey, UpdateErr
<1>4. CASE DeletePrepare(h) \/ DeleteRecordStep(h) \/ DeleteKeyStep(h)
  BY <1>4 DEF DeletePrepare, HasKey, PrepareDeleteKey, Goto, At, store,
      buffer, log, DeleteRecordStep, DeleteRecord, ids, DeleteKeyStep,
      DeleteKey, Release
<1>5. CASE TruncateTable(h) \/ TruncateIndex(h) \/ Finish(h)
  <2>1. CASE TruncateTable(h)
    BY <2>1 DEF TruncateTable, Goto, At, ids, buffer, log
  <2>2. CASE TruncateIndex(h) \/ Finish(h)
    BY <2>2, SMTT(30) DEF TruncateIndex, Goto, At, ids, buffer, log, Finish,
        FinishOperation, store
  <2> QED
    BY <1>5, <2>1, <2>2
<1>6. CASE \E r \in RecIds : ReadRow(h, r)
  BY <1>6 DEF ReadRow, Goto, At, ExclusiveFree, Targeted, store, buffer, log
<1> QED
  BY <1>1, <1>2, <1>3, <1>4, <1>5, <1>6 DEF KeyStep

-----------------------------------------------------------------------------
(* Keys                                                                     *)

\* The value an INSERT or an UPDATE stores has its key already: the index
\* hook of grn_obj_set_value adds none.
LEMMA ColumnKey ==
    ASSUME TypeInv, LabelOK, TargetOK, NewKeyOK, KeepOK, RowHasKey,
           NEW h \in Handlers, WriteColumns(h) \/ UpdateColumns(h)
    PROVE  UNCHANGED idx
<1> USE ConstantsAssumption
    DEF TypeInv, TypeOK, BufferOK, LabelOK, HasNew, Unplaced, Placed, Updating
<1>1. CASE WriteColumns(h)
  <2>1. key_id[h] \in KeyIds /\ idx[key_id[h]] = new_u[h]
    BY <1>1 DEF NewKeyOK, WriteColumns, At
  <2> QED
    BY <1>1, <2>1 DEF WriteColumns, HasKey, AddKey, SetColumn, Goto, At, ids,
        buffer, log
<1>2. CASE UpdateColumns(h) /\ new_u[h] # Keep
  <2>1. CASE key_id[h] # Nil
    <3>1. key_id[h] \in KeyIds /\ idx[key_id[h]] = new_u[h]
      BY <1>2, <2>1 DEF NewKeyOK, UpdateColumns, At
    <3> QED
      BY <1>2, <3>1 DEF UpdateColumns, HasKey, AddKey, SetColumn, Goto, At,
          ids, buffer, log
  <2>2. CASE key_id[h] = Nil
    <3>1. col[record_id[h]] = new_u[h] /\ record_id[h] \in RecIds
      BY <1>2, <2>2 DEF KeepOK, TargetOK, Owning, UpdateColumns, At
    <3>2. Live(record_id[h]) /\ ~Aborted(record_id[h])
      BY <1>2 DEF TargetOK, Owning, Aborted, UpdateColumns, At
    <3>3. \E k \in KeyIds : idx[k] = new_u[h]
      BY <1>2, <3>1, <3>2 DEF RowHasKey, UpdateColumns, At
    <3> QED
      BY <1>2, <3>3 DEF UpdateColumns, HasKey, AddKey, SetColumn, Goto, At,
          ids, buffer, log
  <2> QED
    BY <2>1, <2>2
<1>3. CASE UpdateColumns(h) /\ new_u[h] = Keep
  BY <1>3 DEF UpdateColumns
<1> QED
  BY <1>1, <1>2, <1>3

\* A key id is added only when it is free, and taken for removal only when no
\* statement holds it: no two statements ever hold one key.
\* The key of a record that a handler is about to change is held by no
\* statement.
LEMMA OldKeyIsFree ==
    ASSUME TypeInv, LabelOK, TargetOK, NewKeyOK, OldKeyOK, UniqueKey,
           NEW h \in Handlers, pc[h] \in {"u_prep", "d_prep"},
           NEW k \in KeyIds, idx[k] # Nil, idx[k] = col[record_id[h]],
           NEW g \in Handlers
    PROVE  ~Holds(g, k)
<1> USE ConstantsAssumption DEF TypeInv, TypeOK
<1>1. record_id[h] \in RecIds /\ Stands(record_id[h])
  BY DEF TargetOK, Owning, Updating, Deleting, Placed, Stands, Aborted
<1>2. CASE g = h
  BY <1>2 DEF Holds, HasNew, HasOld, HasDropped
<1>3. CASE g # h /\ pc[g] \in HasNew /\ k = key_id[g]
  <2>1. record_id[g] # record_id[h]
    BY <1>1, <1>3 DEF TargetOK, LabelOK, HasNew, Unplaced, Placed, Owning, Updating, Deleting
  <2> QED
    BY <1>1, <1>3, <2>1 DEF NewKeyOK
<1>4. CASE g # h /\ pc[g] \in HasOld /\ k = del_key_id[g]
  <2>1. /\ record_id[g] \in RecIds /\ Stands(record_id[g])
        /\ record_id[g] # record_id[h]
    BY <1>4 DEF TargetOK, HasOld, Owning, Updating, Deleting, Placed, Stands, Aborted
  <2>2. col[record_id[g]] = col[record_id[h]]
    BY <1>4 DEF OldKeyOK
  <2> QED
    BY <1>1, <2>1, <2>2 DEF UniqueKey, Stands
<1>5. CASE g # h /\ pc[g] \in HasDropped /\ k = del_key_id[g]
  BY <1>1, <1>5 DEF OldKeyOK
<1> QED
  BY <1>2, <1>3, <1>4, <1>5 DEF Holds

LEMMA KeyIdsStep ==
    ASSUME Isolated, TypeInv, LabelOK, AloneOK, MutexOK, TargetOK, KeyOK,
           NewKeyOK, OldKeyOK, KeepOK, UniqueKey, RowHasKey,
           NEW h \in Handlers, KeyStep(h), TypeOK'
    PROVE  KeyOK'
<1>0. WriteColumns(h) \/ UpdateColumns(h) => UNCHANGED idx
  BY ColumnKey
<1> USE ConstantsAssumption
    DEF Isolated, TypeInv, LabelOK, AloneOK, MutexOK, TargetOK, KeyOK,
        NewKeyOK, OldKeyOK, KeepOK, UniqueKey, RowHasKey, TypeOK, BufferOK,
        Holds, Stands, Live, Aborted, Owning, HasNew, HasOld, HasDropped, NoNew, NoOld,
        Unplaced, Placed, Updating, Deleting, Truncating, Clearing, Critical
<1>1. CASE Moved(h)
  BY <1>1 DEF Moved, Moves, Goto
<1>2. CASE WriteUniqueAdd(h)
  <2>1. PICK k \in KeyIds :
           /\ idx[k] = Nil /\ (\A j \in KeyIds : idx[j] # new_u[h])
           /\ idx' = [idx EXCEPT ![k] = new_u[h]]
           /\ key_id' = [key_id EXCEPT ![h] = k]
    BY <1>2 DEF WriteUniqueAdd, AddKey
  <2>2. /\ pc[h] = "w_ukey" /\ pc' = [pc EXCEPT ![h] = "w_pkey"]
        /\ UNCHANGED del_key_id /\ new_u[h] # Nil
    BY <1>2 DEF WriteUniqueAdd, Goto, At
  <2>3. \A g \in Handlers, j \in KeyIds : Holds(g, j)' => Holds(g, j) \/ (g = h /\ j = k)
    BY <2>1, <2>2
  <2>4. \A g \in Handlers : ~Holds(g, k)
    BY <2>1
  <2>5. \A i, j \in KeyIds : i # j /\ idx'[i] # Nil => idx'[i] # idx'[j]
    BY <2>1
  <2>6. \A g \in Handlers, j \in KeyIds : Holds(g, j)' => idx'[j] # Nil
    BY <2>1, <2>2, <2>3
  <2>7. \A f, g \in Handlers, j \in KeyIds : Holds(f, j)' /\ Holds(g, j)' => f = g
    BY <2>3, <2>4
  <2>8. \A g \in Handlers :
          pc'[g] \in HasNew \cap Updating /\ key_id'[g] # Nil => key_id'[g] # del_key_id'[g]
    BY <2>1, <2>2
  <2> QED
    BY ONLY <2>5, <2>6, <2>7, <2>8 DEF KeyOK
<1>3. CASE WriteRecordAdd(h)
  BY <1>3 DEF WriteRecordAdd, Goto, At, buffer, log
<1>4. CASE WriteDupUndo(h)
  BY <1>4 DEF WriteDupUndo, DeleteKey, Release, Goto, At, ids, buffer, log
<1>5. CASE WriteColumns(h)
  BY <1>5, <1>0 DEF WriteColumns, HasKey, AddKey, SetColumn, Goto, At, ids,
      buffer, log
<1>6. CASE WriteErrKey(h)
  BY <1>6 DEF WriteErrKey, DeleteKey, Goto, At, ids, buffer, log
<1>7. CASE WriteErrRecord(h)
  BY <1>7 DEF WriteErrRecord, DeleteRecord, Goto, At, ids, buffer, log
<1>8. CASE UpdatePrepare(h)
  <2>1. /\ pc[h] = "u_prep" /\ pc' = [pc EXCEPT ![h] = "u_ukey"]
        /\ UNCHANGED <<idx, key_id>>
        /\ \A g \in Handlers \ {h} : del_key_id'[g] = del_key_id[g]
        /\ \A k \in KeyIds :
             del_key_id'[h] = k => idx[k] # Nil /\ idx[k] = col[record_id[h]]
    BY <1>8 DEF UpdatePrepare, HasKey, PrepareDeleteKey, Goto, At, store,
        buffer, log
  <2>2. \A g \in Handlers, k \in KeyIds :
          Holds(g, k)' => Holds(g, k) \/ (g = h /\ k = del_key_id'[h])
    BY ONLY <2>1, TypeOK, TypeOK' DEF TypeOK, Holds, HasNew, HasOld, HasDropped
  <2>3. \A g \in Handlers : del_key_id'[h] \in KeyIds => ~Holds(g, del_key_id'[h])
    BY ONLY <2>1, OldKeyIsFree, TypeInv, LabelOK, TargetOK, NewKeyOK, OldKeyOK, UniqueKey
  <2>4. \A g \in Handlers :
          pc'[g] \in HasNew \cap Updating /\ key_id'[g] # Nil => key_id'[g] # del_key_id'[g]
    BY <2>1
  <2> QED
    BY ONLY <2>1, <2>2, <2>3, <2>4, KeyOK DEF KeyOK
<1>9. CASE UpdateUniqueAdd(h)
  BY <1>9 DEF UpdateUniqueAdd, AddKey, Release, Goto, At, buffer, log
<1>10. CASE UpdateUniqueKeep(h)
  BY <1>10 DEF UpdateUniqueKeep, HasKey, Release, Goto, At, store, buffer, log
<1>11. CASE UpdateColumns(h)
  BY <1>11, <1>0 DEF UpdateColumns, HasKey, AddKey, SetColumn, Goto, At, ids,
      buffer, log
<1>12. CASE UpdateDeleteKey(h)
  BY <1>12 DEF UpdateDeleteKey, DeleteKey, Goto, At, ids, buffer, log
<1>13. CASE UpdateErr(h)
  BY <1>13 DEF UpdateErr, DeleteKey, Goto, At, ids, buffer, log
<1>14. CASE DeletePrepare(h)
  <2>1. /\ pc[h] = "d_prep" /\ pc' = [pc EXCEPT ![h] = "d_rec"]
        /\ UNCHANGED <<idx, key_id>>
        /\ \A g \in Handlers \ {h} : del_key_id'[g] = del_key_id[g]
        /\ \A k \in KeyIds :
             del_key_id'[h] = k => idx[k] # Nil /\ idx[k] = col[record_id[h]]
    BY <1>14 DEF DeletePrepare, HasKey, PrepareDeleteKey, Goto, At, store,
        buffer, log
  <2>2. \A g \in Handlers, k \in KeyIds :
          Holds(g, k)' => Holds(g, k) \/ (g = h /\ k = del_key_id'[h])
    BY ONLY <2>1, TypeOK, TypeOK' DEF TypeOK, Holds, HasNew, HasOld, HasDropped
  <2>3. \A g \in Handlers : del_key_id'[h] \in KeyIds => ~Holds(g, del_key_id'[h])
    BY ONLY <2>1, OldKeyIsFree, TypeInv, LabelOK, TargetOK, NewKeyOK, OldKeyOK, UniqueKey
  <2>4. \A g \in Handlers :
          pc'[g] \in HasNew \cap Updating /\ key_id'[g] # Nil => key_id'[g] # del_key_id'[g]
    BY <2>1
  <2> QED
    BY ONLY <2>1, <2>2, <2>3, <2>4, KeyOK DEF KeyOK
<1>15. CASE DeleteRecordStep(h)
  BY <1>15 DEF DeleteRecordStep, DeleteRecord, Goto, At, ids, buffer, log
<1>16. CASE DeleteKeyStep(h)
  BY <1>16 DEF DeleteKeyStep, DeleteKey, Release, Goto, At, ids, buffer, log
<1>17. CASE \/ TruncateTable(h)
           \/ TruncateIndex(h)
  BY ONLY <1>17, ConstantsAssumption, Isolated, TypeOK, AloneOK, KeyOK DEF
      TruncateTable, Goto, At, ids, buffer, log, TruncateIndex
<1>18. CASE Finish(h)
  BY <1>18 DEF Finish, FinishOperation, Goto, store
<1>19. CASE \E r \in RecIds : ReadRow(h, r)
  BY <1>19 DEF ReadRow, Goto, At, ExclusiveFree, Targeted, store, buffer, log
<1> QED
  BY ONLY KeyStep(h), <1>1, <1>2, <1>3, <1>4, <1>5, <1>6, <1>7, <1>8, <1>9,
     <1>10, <1>11, <1>12, <1>13, <1>14, <1>15, <1>16, <1>17, <1>18, <1>19 DEF KeyStep

\* An added key was absent, so no record had its value; no other statement
\* can write that value, because it does not hold the key.
LEMMA NewKeyStep ==
    ASSUME Isolated, TypeInv, LabelOK, AloneOK, TargetOK, KeyOK, NewKeyOK,
           OldKeyOK, KeepOK, RowHasKey, NEW h \in Handlers, KeyStep(h), TypeOK'
    PROVE  NewKeyOK'
<1>0. WriteColumns(h) \/ UpdateColumns(h) => UNCHANGED idx
  BY ColumnKey
<1> USE ConstantsAssumption
    DEF Isolated, TypeInv, LabelOK, AloneOK, TargetOK, KeyOK, NewKeyOK,
        OldKeyOK, KeepOK, RowHasKey, TypeOK, BufferOK,
        Holds, Stands, Live, Aborted, Owning, HasNew, HasOld, HasDropped, NoNew, NoOld,
        Unplaced, Placed, Updating, Deleting, Truncating, Clearing, Critical
<1>1. CASE Moved(h)
  BY <1>1 DEF Moved, Moves, Goto
<1>2. CASE WriteUniqueAdd(h)
  <2>1. PICK k \in KeyIds :
           /\ idx[k] = Nil /\ (\A j \in KeyIds : idx[j] # new_u[h])
           /\ idx' = [idx EXCEPT ![k] = new_u[h]]
           /\ key_id' = [key_id EXCEPT ![h] = k]
    BY <1>2 DEF WriteUniqueAdd, AddKey
  <2>2. /\ pc[h] = "w_ukey" /\ pc' = [pc EXCEPT ![h] = "w_pkey"]
        /\ UNCHANGED <<rec, col, record_id, new_u>>
    BY <1>2 DEF WriteUniqueAdd, Goto, At, buffer
  <2>3. \A r \in RecIds : Stands(r)' => Stands(r)
    BY <2>2
  <2>4. \A r \in RecIds : Stands(r) => col[r] # new_u[h]
    <3>1. new_u[h] # Nil
      BY <2>2
    <3> QED
      BY ONLY <2>1, <3>1, RowHasKey DEF RowHasKey, Stands
  <2>5. \A g \in Handlers \ {h} :
          pc[g] \in HasNew /\ key_id[g] # Nil => idx'[key_id[g]] = idx[key_id[g]]
    BY <2>1
  <2> QED
    BY <2>1, <2>2, <2>3, <2>4, <2>5
<1>3. CASE WriteRecordAdd(h)
  BY <1>3 DEF WriteRecordAdd, Goto, At, buffer, log
<1>4. CASE WriteDupUndo(h)
  BY <1>4 DEF WriteDupUndo, DeleteKey, Release, Goto, At, ids, buffer, log
<1>5. CASE WriteColumns(h)
  <2>1. /\ pc[h] = "w_cols" /\ pc' = [pc EXCEPT ![h] = "w_rest"]
        /\ UNCHANGED <<rec, idx, record_id, key_id, new_u>>
        /\ col' = [col EXCEPT ![record_id[h]] = new_u[h]]
    BY <1>0, <1>5 DEF WriteColumns, HasKey, AddKey, SetColumn, Goto, At, ids,
        buffer, log
  <2>2. \A r \in RecIds : Stands(r)' => Stands(r)
    BY <2>1
  <2>3. ASSUME NEW g \in Handlers \ {h}, pc[g] \in HasNew, key_id[g] # Nil
        PROVE  /\ new_u[g] # new_u[h]
               /\ pc[g] \in Owning => col'[record_id[g]] = col[record_id[g]]
    <3>1. pc[g] \in Owning => col'[record_id[g]] = col[record_id[g]]
      BY <2>1, <2>3
    <3>2. /\ key_id[h] \in KeyIds /\ idx[key_id[h]] = new_u[h] /\ new_u[h] # Nil
          /\ key_id[g] \in KeyIds /\ idx[key_id[g]] = new_u[g]
      BY ONLY <2>1, <2>3, ConstantsAssumption, TypeInv, LabelOK, NewKeyOK
    <3>3. key_id[g] # key_id[h]
      BY ONLY <2>1, <2>3, <3>2, KeyOK DEF KeyOK, Holds, HasNew
    <3> QED
      BY ONLY <3>1, <3>2, <3>3, KeyOK DEF KeyOK
  <2> QED
    BY <2>1, <2>2, <2>3
<1>6. CASE WriteErrKey(h)
  BY <1>6 DEF WriteErrKey, DeleteKey, Goto, At, ids, buffer, log
<1>7. CASE WriteErrRecord(h)
  BY <1>7 DEF WriteErrRecord, DeleteRecord, Goto, At, ids, buffer, log
<1>8. CASE UpdatePrepare(h)
  BY <1>8 DEF UpdatePrepare, HasKey, PrepareDeleteKey, Goto, At, store,
      buffer, log
<1>9. CASE UpdateUniqueAdd(h)
  <2>1. PICK k \in KeyIds :
           /\ idx[k] = Nil /\ (\A j \in KeyIds : idx[j] # new_u[h])
           /\ idx' = [idx EXCEPT ![k] = new_u[h]]
           /\ key_id' = [key_id EXCEPT ![h] = k]
    BY <1>9 DEF UpdateUniqueAdd, AddKey
  <2>2. /\ pc[h] = "u_ukey" /\ pc' = [pc EXCEPT ![h] = "u_cols"]
        /\ UNCHANGED <<rec, col, record_id, new_u>>
    BY <1>9 DEF UpdateUniqueAdd, Goto, At, buffer
  <2>3. \A r \in RecIds : Stands(r)' => Stands(r)
    BY <2>2
  <2>4. \A r \in RecIds : Stands(r) => col[r] # new_u[h]
    <3>1. new_u[h] # Nil
      BY <2>2
    <3> QED
      BY ONLY <2>1, <3>1, RowHasKey DEF RowHasKey, Stands
  <2>5. \A g \in Handlers \ {h} :
          pc[g] \in HasNew /\ key_id[g] # Nil => idx'[key_id[g]] = idx[key_id[g]]
    BY <2>1
  <2> QED
    BY <2>1, <2>2, <2>3, <2>4, <2>5
<1>10. CASE UpdateUniqueKeep(h)
  BY <1>10 DEF UpdateUniqueKeep, HasKey, Release, Goto, At, store, buffer, log
<1>11. CASE UpdateColumns(h)
  BY <1>11, <1>0 DEF UpdateColumns, HasKey, AddKey, SetColumn, Goto, At, ids,
      buffer, log
<1>12. CASE UpdateDeleteKey(h)
  BY <1>12 DEF UpdateDeleteKey, DeleteKey, Goto, At, ids, buffer, log
<1>13. CASE UpdateErr(h)
  BY <1>13 DEF UpdateErr, DeleteKey, Goto, At, ids, buffer, log
<1>14. CASE DeletePrepare(h)
  BY <1>14 DEF DeletePrepare, HasKey, PrepareDeleteKey, Goto, At, store,
      buffer, log
<1>15. CASE DeleteRecordStep(h)
  BY <1>15 DEF DeleteRecordStep, DeleteRecord, Goto, At, ids, buffer, log
<1>16. CASE DeleteKeyStep(h)
  BY <1>16 DEF DeleteKeyStep, DeleteKey, Release, Goto, At, ids, buffer, log
<1>17. CASE \/ TruncateTable(h)
           \/ TruncateIndex(h)
  BY <1>17 DEF TruncateTable, Goto, At, ids, buffer, log, TruncateIndex
<1>18. CASE Finish(h)
  BY <1>18 DEF Finish, FinishOperation, Goto, store
<1>19. CASE \E r \in RecIds : ReadRow(h, r)
  BY <1>19 DEF ReadRow, Goto, At, ExclusiveFree, Targeted, store, buffer, log
<1> QED
  BY ONLY KeyStep(h), <1>1, <1>2, <1>3, <1>4, <1>5, <1>6, <1>7, <1>8, <1>9,
     <1>10, <1>11, <1>12, <1>13, <1>14, <1>15, <1>16, <1>17, <1>18, <1>19 DEF KeyStep

\* A value that is written back is still there: the record is the handler's.
LEMMA KeepStep ==
    ASSUME Isolated, TypeInv, LabelOK, AloneOK, TargetOK, KeyOK, NewKeyOK,
           KeepOK, OldKeyOK, RowHasKey, NEW h \in Handlers, KeyStep(h), TypeOK'
    PROVE  KeepOK'
<1>0. WriteColumns(h) \/ UpdateColumns(h) => UNCHANGED idx
  BY ColumnKey
<1> USE ConstantsAssumption
    DEF Isolated, TypeInv, LabelOK, AloneOK, TargetOK, KeyOK, NewKeyOK, KeepOK,
        OldKeyOK, RowHasKey, TypeOK, BufferOK,
        Holds, Stands, Live, Aborted, Owning, HasNew, HasOld, HasDropped, NoNew, NoOld,
        Unplaced, Placed, Updating, Deleting, Truncating, Clearing, Critical
<1>1. CASE Moved(h)
  BY <1>1 DEF Moved, Moves, Goto
<1>2. CASE \/ WriteUniqueAdd(h) \/ WriteRecordAdd(h) \/ WriteDupUndo(h)
           \/ WriteColumns(h) \/ WriteErrKey(h) \/ WriteErrRecord(h)
  BY <1>0, <1>2 DEF WriteUniqueAdd, AddKey, Goto, At, buffer, log,
      WriteRecordAdd, WriteDupUndo, DeleteKey, Release, ids, WriteColumns,
      HasKey, SetColumn, WriteErrKey, WriteErrRecord, DeleteRecord
<1>3. CASE \/ UpdatePrepare(h) \/ UpdateUniqueAdd(h) \/ UpdateUniqueKeep(h)
           \/ UpdateColumns(h) \/ UpdateDeleteKey(h) \/ UpdateErr(h)
  BY <1>0, <1>3 DEF UpdatePrepare, HasKey, PrepareDeleteKey, Goto, At, store,
      buffer, log, UpdateUniqueAdd, AddKey, Release, UpdateUniqueKeep,
      UpdateColumns, SetColumn, ids, UpdateDeleteKey, DeleteKey, UpdateErr
<1>4. CASE DeletePrepare(h) \/ DeleteRecordStep(h) \/ DeleteKeyStep(h)
  BY <1>4 DEF DeletePrepare, HasKey, PrepareDeleteKey, Goto, At, store,
      buffer, log, DeleteRecordStep, DeleteRecord, ids, DeleteKeyStep,
      DeleteKey, Release
<1>5. CASE TruncateTable(h) \/ TruncateIndex(h) \/ Finish(h)
  BY <1>5 DEF TruncateTable, Goto, At, ids, buffer, log, TruncateIndex,
      Finish, FinishOperation, store
<1>6. CASE \E r \in RecIds : ReadRow(h, r)
  BY <1>6 DEF ReadRow, Goto, At, ExclusiveFree, Targeted, store, buffer, log
<1> QED
  BY ONLY KeyStep(h), <1>1, <1>2, <1>3, <1>4, <1>5, <1>6 DEF KeyStep

LEMMA OldKeyStep ==
    ASSUME Isolated, TypeInv, LabelOK, AloneOK, TargetOK, KeyOK, NewKeyOK,
           OldKeyOK, KeepOK, UniqueKey, RowHasKey, NEW h \in Handlers,
           KeyStep(h), TypeOK'
    PROVE  OldKeyOK'
<1>0. WriteColumns(h) \/ UpdateColumns(h) => UNCHANGED idx
  BY ColumnKey
<1> USE ConstantsAssumption
    DEF Isolated, TypeInv, LabelOK, AloneOK, TargetOK, KeyOK, NewKeyOK,
        OldKeyOK, KeepOK, UniqueKey, RowHasKey, TypeOK, BufferOK,
        Holds, Stands, Live, Aborted, Owning, HasNew, HasOld, HasDropped, NoNew, NoOld,
        Unplaced, Placed, Updating, Deleting, Truncating, Clearing, Critical
<1>1. CASE Moved(h)
  BY <1>1 DEF Moved, Moves, Goto
<1>2. CASE WriteUniqueAdd(h)
  BY <1>2 DEF WriteUniqueAdd, AddKey, Goto, At, buffer, log
<1>3. CASE WriteRecordAdd(h)
  BY <1>3 DEF WriteRecordAdd, Goto, At, buffer, log
<1>4. CASE WriteDupUndo(h)
  BY <1>4 DEF WriteDupUndo, DeleteKey, Release, Goto, At, ids, buffer, log
<1>5. CASE WriteColumns(h)
  <2>1. /\ pc[h] = "w_cols" /\ pc' = [pc EXCEPT ![h] = "w_rest"]
        /\ UNCHANGED <<rec, idx, record_id, key_id, del_key_id, new_u>>
        /\ col' = [col EXCEPT ![record_id[h]] = new_u[h]]
    BY <1>0, <1>5 DEF WriteColumns, HasKey, AddKey, SetColumn, Goto, At, ids,
        buffer, log
  <2>2. \A r \in RecIds : Stands(r)' => Stands(r)
    BY <2>1
  <2>3. ASSUME NEW g \in Handlers, pc[g] \in HasOld \cup HasDropped
        PROVE  /\ g # h
               /\ del_key_id[g] # Nil => idx[del_key_id[g]] # new_u[h]
               /\ pc[g] \in HasOld => col'[record_id[g]] = col[record_id[g]]
    BY <2>1, <2>3
  <2> QED
    BY <2>1, <2>2, <2>3
<1>6. CASE WriteErrKey(h)
  BY <1>6 DEF WriteErrKey, DeleteKey, Goto, At, ids, buffer, log
<1>7. CASE WriteErrRecord(h)
  BY <1>7 DEF WriteErrRecord, DeleteRecord, Goto, At, ids, buffer, log
<1>8. CASE UpdatePrepare(h)
  BY <1>8 DEF UpdatePrepare, HasKey, PrepareDeleteKey, Goto, At, store,
      buffer, log
<1>9. CASE UpdateUniqueAdd(h)
  BY <1>9 DEF UpdateUniqueAdd, AddKey, Release, Goto, At, buffer, log
<1>10. CASE UpdateUniqueKeep(h)
  BY <1>10 DEF UpdateUniqueKeep, HasKey, Release, Goto, At, store, buffer, log
<1>11. CASE UpdateColumns(h)
  <2>1. /\ pc[h] = "u_cols" /\ pc' = [pc EXCEPT ![h] = "u_rest"]
        /\ UNCHANGED <<rec, idx, record_id, key_id, del_key_id, new_u>>
        /\ col' = col \/ (new_u[h] # Keep /\ col' = [col EXCEPT ![record_id[h]] = new_u[h]])
    BY <1>0, <1>11 DEF UpdateColumns, HasKey, AddKey, SetColumn, Goto, At,
        ids, buffer, log
  <2>2. \A r \in RecIds : Stands(r)' <=> Stands(r)
    BY <2>1
  <2>3. record_id[h] \in RecIds /\ Stands(record_id[h])
    BY <2>1
  <2>4. CASE key_id[h] = Nil
    <3>1. del_key_id[h] = Nil /\ col' = col
      BY <2>1, <2>4
    <3> QED
      BY <2>1, <2>2, <3>1
  <2>5. CASE key_id[h] # Nil
    <3>1. /\ idx[key_id[h]] = new_u[h] /\ new_u[h] # Keep
          /\ col' = [col EXCEPT ![record_id[h]] = new_u[h]]
      BY <1>11, <2>1, <2>5 DEF UpdateColumns, SetColumn
    <3>2. del_key_id[h] # Nil => idx[del_key_id[h]] = col[record_id[h]]
      BY <2>1
    <3>3. ASSUME NEW g \in Handlers, pc[g] \in HasOld \cup HasDropped, del_key_id[g] # Nil
          PROVE  idx[del_key_id[g]] # new_u[h]
      BY <2>1, <2>5, <3>1, <3>3
    <3>4. ASSUME NEW g \in Handlers \ {h}, pc[g] \in HasOld \cup {"u_cols", "d_rec"}
          PROVE  col'[record_id[g]] = col[record_id[g]]
      BY <2>1, <3>1, <3>4
    <3>5. del_key_id[h] # Nil =>
            \A r \in RecIds : Stands(r) => col'[r] # idx[del_key_id[h]]
      <4> SUFFICES ASSUME del_key_id[h] # Nil, NEW r \in RecIds, Stands(r)
                   PROVE  col'[r] # idx[del_key_id[h]]
        OBVIOUS
      <4>1. CASE r = record_id[h]
        BY <2>1, <2>3, <3>1, <3>3, <4>1
      <4>2. CASE r # record_id[h]
        BY <2>1, <2>3, <3>1, <3>2, <4>2
      <4> QED
        BY <4>1, <4>2
    <3> QED
      BY <2>1, <2>2, <3>1, <3>3, <3>4, <3>5
  <2> QED
    BY <2>4, <2>5
<1>12. CASE UpdateDeleteKey(h)
  BY <1>12 DEF UpdateDeleteKey, DeleteKey, Goto, At, ids, buffer, log
<1>13. CASE UpdateErr(h)
  BY <1>13 DEF UpdateErr, DeleteKey, Goto, At, ids, buffer, log
<1>14. CASE DeletePrepare(h)
  BY <1>14 DEF DeletePrepare, HasKey, PrepareDeleteKey, Goto, At, store,
      buffer, log
<1>15. CASE DeleteRecordStep(h)
  <2>1. /\ pc[h] = "d_rec" /\ pc' = [pc EXCEPT ![h] = "d_index"]
        /\ UNCHANGED <<idx, record_id, key_id, del_key_id, new_u>>
        /\ rec' = [rec EXCEPT ![record_id[h]] = Nil]
        /\ col' = [col EXCEPT ![record_id[h]] = Nil]
    BY <1>15 DEF DeleteRecordStep, DeleteRecord, Goto, At, ids, buffer, log
  <2>2. record_id[h] \in RecIds /\ Stands(record_id[h])
    BY <2>1
  <2>3. \A r \in RecIds : Stands(r)' => Stands(r) /\ r # record_id[h] /\ col'[r] = col[r]
    BY <2>1, <2>2
  <2>4. ASSUME NEW g \in Handlers \ {h}, pc[g] \in HasOld
        PROVE  col'[record_id[g]] = col[record_id[g]]
    BY <2>1, <2>4
  <2>5. del_key_id[h] # Nil =>
          \A r \in RecIds : Stands(r)' => col'[r] # idx[del_key_id[h]]
    <3>1. del_key_id[h] # Nil =>
            idx[del_key_id[h]] = col[record_id[h]] /\ idx[del_key_id[h]] # Nil
      BY <2>1
    <3> QED
      BY ONLY <2>2, <2>3, <3>1, UniqueKey DEF UniqueKey, Stands
  <2> QED
    BY <2>1, <2>3, <2>4, <2>5
<1>16. CASE DeleteKeyStep(h)
  BY <1>16 DEF DeleteKeyStep, DeleteKey, Release, Goto, At, ids, buffer, log
<1>17. CASE \/ TruncateTable(h)
           \/ TruncateIndex(h)
  BY <1>17 DEF TruncateTable, Goto, At, ids, buffer, log, TruncateIndex
<1>18. CASE Finish(h)
  BY <1>18 DEF Finish, FinishOperation, Goto, store
<1>19. CASE \E r \in RecIds : ReadRow(h, r)
  BY <1>19 DEF ReadRow, Goto, At, ExclusiveFree, Targeted, store, buffer, log
<1> QED
  BY ONLY KeyStep(h), <1>1, <1>2, <1>3, <1>4, <1>5, <1>6, <1>7, <1>8, <1>9,
     <1>10, <1>11, <1>12, <1>13, <1>14, <1>15, <1>16, <1>17, <1>18, <1>19 DEF KeyStep

\* Only a column write can make two records agree: the record gets a value
\* whose key the statement added itself, and which is in no other record.
LEMMA UniqueStep ==
    ASSUME Isolated, TypeInv, LabelOK, AloneOK, TargetOK, KeyOK, NewKeyOK, KeepOK,
           OldKeyOK, UniqueKey, RowHasKey, NEW h \in Handlers, KeyStep(h), TypeOK'
    PROVE  UniqueKey'
<1>0. WriteColumns(h) \/ UpdateColumns(h) => UNCHANGED idx
  BY ColumnKey
<1> USE ConstantsAssumption
    DEF Isolated, TypeInv, TypeOK, BufferOK, LabelOK, AloneOK, TargetOK, NewKeyOK,
        KeepOK, Stands, Live, Aborted, Owning, HasNew,
        Unplaced, Placed, Updating, Deleting, Truncating
<1>1. CASE WriteColumns(h)
  <2>1. /\ UNCHANGED <<rec, record_id>> /\ pc' = [pc EXCEPT ![h] = "w_rest"]
        /\ record_id[h] \in RecIds /\ pc[h] = "w_cols"
        /\ col' = [col EXCEPT ![record_id[h]] = new_u[h]]
    BY <1>1 DEF WriteColumns, HasKey, AddKey, SetColumn, Goto, At, ids,
        buffer, log
  <2>2. \A r \in RecIds : Stands(r)' => Stands(r)
    BY <2>1
  <2>3. \A r \in RecIds \ {record_id[h]} : Stands(r) => col[r] # new_u[h]
    BY <2>1
  <2> QED
    BY ONLY <2>1, <2>2, <2>3, UniqueKey, TypeOK DEF UniqueKey, TypeOK, Stands
<1>2. CASE UpdateColumns(h)
  <2>1. /\ UNCHANGED <<rec, record_id>> /\ pc' = [pc EXCEPT ![h] = "u_rest"]
        /\ record_id[h] \in RecIds /\ pc[h] = "u_cols"
        /\ col' = col \/ (new_u[h] # Keep /\ col' = [col EXCEPT ![record_id[h]] = new_u[h]])
    BY <1>2 DEF UpdateColumns, HasKey, AddKey, SetColumn, Goto, At, ids,
        buffer, log
  <2>2. \A r \in RecIds : Stands(r)' => Stands(r)
    BY <2>1
  <2>3. CASE col' # col
    <3>1. key_id[h] # Nil
      BY <2>1, <2>3
    <3>2. \A r \in RecIds \ {record_id[h]} : Stands(r) => col[r] # new_u[h]
      BY <2>1, <3>1
    <3> QED
      BY ONLY <2>1, <2>2, <2>3, <3>2, UniqueKey, TypeOK DEF UniqueKey, TypeOK, Stands
  <2> QED
    BY ONLY <2>2, <2>3, UniqueKey DEF UniqueKey, Stands
<1>3. ASSUME \A r \in RecIds : Stands(r)' => (Stands(r) /\ col'[r] = col[r]) \/ col'[r] = Nil
      PROVE  UniqueKey'
  BY ONLY <1>3, UniqueKey DEF UniqueKey, Stands
<1>4. CASE Moved(h)
  BY <1>3, <1>4 DEF Moved, Moves, Goto
<1>5. CASE WriteRecordAdd(h)
  BY <1>3, <1>5 DEF WriteRecordAdd, Goto, At, buffer, log
<1>6. CASE WriteUniqueAdd(h) \/ WriteDupUndo(h) \/ WriteErrKey(h)
  BY <1>3, <1>6 DEF WriteUniqueAdd, AddKey, Goto, At, buffer, log,
      WriteDupUndo, DeleteKey, Release, ids, WriteErrKey
<1>7. CASE WriteErrRecord(h) \/ DeleteRecordStep(h)
  BY <1>3, <1>7 DEF WriteErrRecord, DeleteRecord, Goto, At, ids, buffer, log,
      DeleteRecordStep
<1>8. CASE \/ UpdatePrepare(h) \/ UpdateUniqueAdd(h) \/ UpdateUniqueKeep(h)
           \/ UpdateDeleteKey(h) \/ UpdateErr(h) \/ DeletePrepare(h) \/ DeleteKeyStep(h)
  BY <1>3, <1>8 DEF UpdatePrepare, HasKey, PrepareDeleteKey, Goto, At, store,
      buffer, log, UpdateUniqueAdd, AddKey, Release, UpdateUniqueKeep,
      UpdateDeleteKey, DeleteKey, ids, UpdateErr, DeletePrepare, DeleteKeyStep
<1>9. CASE TruncateTable(h) \/ TruncateIndex(h) \/ Finish(h)
  BY <1>3, <1>9 DEF TruncateTable, Goto, At, ids, buffer, log, TruncateIndex,
      Finish, FinishOperation, store
<1>10. CASE \E r \in RecIds : ReadRow(h, r)
  BY <1>3, <1>10 DEF ReadRow, Goto, At, ExclusiveFree, Targeted, store,
      buffer, log
<1> QED
  BY ONLY KeyStep(h), <1>1, <1>2, <1>4, <1>5, <1>6, <1>7, <1>8, <1>9, <1>10 DEF KeyStep

LEMMA RowKeyStep ==
    ASSUME Isolated, TypeInv, LabelOK, AloneOK, TargetOK, KeyOK, NewKeyOK,
           OldKeyOK, KeepOK, UniqueKey, RowHasKey, NEW h \in Handlers,
           KeyStep(h), TypeOK'
    PROVE  RowHasKey'
<1>0. WriteColumns(h) \/ UpdateColumns(h) => UNCHANGED idx
  BY ColumnKey
<1> USE ConstantsAssumption
    DEF Isolated, TypeInv, LabelOK, AloneOK, TargetOK, KeyOK, NewKeyOK,
        OldKeyOK, KeepOK, UniqueKey, RowHasKey, TypeOK, BufferOK,
        Holds, Stands, Live, Aborted, Owning, HasNew, HasOld, HasDropped, NoNew, NoOld,
        Unplaced, Placed, Updating, Deleting, Truncating, Clearing, Critical
<1>1. CASE Moved(h)
  BY <1>1 DEF Moved, Moves, Goto
<1>2. CASE WriteUniqueAdd(h)
  BY <1>2, SMTT(30) DEF WriteUniqueAdd, AddKey, Goto, At, buffer, log
<1>3. CASE WriteRecordAdd(h)
  BY <1>3 DEF WriteRecordAdd, Goto, At, buffer, log
<1>4. CASE WriteDupUndo(h)
  BY <1>4 DEF WriteDupUndo, DeleteKey, Release, Goto, At, ids, buffer, log
<1>5. CASE WriteColumns(h)
  BY <1>5, <1>0 DEF WriteColumns, HasKey, AddKey, SetColumn, Goto, At, ids,
      buffer, log
<1>6. CASE WriteErrKey(h)
  <2>1. /\ pc[h] = "w_err_key" /\ pc' = [pc EXCEPT ![h] = "w_err_rec"]
        /\ UNCHANGED <<rec, col, record_id>>
        /\ key_id[h] # Nil
        /\ \A k \in KeyIds : k # key_id[h] => idx'[k] = idx[k]
    BY <1>6 DEF WriteErrKey, DeleteKey, Goto, At, ids, buffer, log
  <2>2. \A r \in RecIds : Stands(r)' => Stands(r) /\ r # record_id[h]
    BY <2>1
  <2>3. \A r \in RecIds : Stands(r)' => col[r] # idx[key_id[h]]
    BY <2>1, <2>2
  <2> QED
    BY ONLY <2>1, <2>2, <2>3, RowHasKey DEF RowHasKey, Stands
<1>7. CASE WriteErrRecord(h)
  BY <1>7 DEF WriteErrRecord, DeleteRecord, Goto, At, ids, buffer, log
<1>8. CASE UpdatePrepare(h)
  BY <1>8 DEF UpdatePrepare, HasKey, PrepareDeleteKey, Goto, At, store,
      buffer, log
<1>9. CASE UpdateUniqueAdd(h)
  BY <1>9 DEF UpdateUniqueAdd, AddKey, Release, Goto, At, buffer, log
<1>10. CASE UpdateUniqueKeep(h)
  BY SMTT(30), <1>10 DEF UpdateUniqueKeep, HasKey, Release, Goto, At, store, buffer, log
<1>11. CASE UpdateColumns(h)
  <2>1. /\ pc[h] = "u_cols" /\ pc' = [pc EXCEPT ![h] = "u_rest"]
        /\ UNCHANGED <<rec, idx, record_id, key_id, new_u>>
        /\ col' = col \/ (new_u[h] # Keep /\ col' = [col EXCEPT ![record_id[h]] = new_u[h]])
    BY <1>0, <1>11 DEF UpdateColumns, HasKey, AddKey, SetColumn, Goto, At,
        ids, buffer, log
  <2>2. \A r \in RecIds : Stands(r)' <=> Stands(r)
    BY <2>1
  <2>3. CASE key_id[h] = Nil
    BY <2>1, <2>2, <2>3
  <2>4. CASE key_id[h] # Nil
    <3>1. key_id[h] \in KeyIds /\ idx[key_id[h]] = new_u[h]
      BY <2>1, <2>4
    <3> QED
      BY ONLY <2>1, <2>2, <3>1, RowHasKey, TypeOK, TypeOK' DEF RowHasKey, Stands, TypeOK
  <2> QED
    BY <2>3, <2>4
<1>12. CASE UpdateDeleteKey(h)
  <2>1. /\ pc[h] = "u_del_key" /\ pc' = [pc EXCEPT ![h] = "done"]
        /\ UNCHANGED <<rec, col, record_id>>
        /\ \A k \in KeyIds : k # del_key_id[h] => idx'[k] = idx[k]
    BY <1>12 DEF UpdateDeleteKey, DeleteKey, Goto, At, ids, buffer, log
  <2>2. \A r \in RecIds : Stands(r)' <=> Stands(r)
    BY <2>1
  <2>3. \A r \in RecIds : Stands(r) /\ del_key_id[h] # Nil => col[r] # idx[del_key_id[h]]
    BY <2>1
  <2> QED
    BY ONLY <2>1, <2>2, <2>3, RowHasKey, ConstantsAssumption DEF RowHasKey, Stands
<1>13. CASE UpdateErr(h)
  <2>1. /\ pc[h] = "u_err" /\ pc' = [pc EXCEPT ![h] = "done"]
        /\ UNCHANGED <<rec, col, record_id>>
        /\ \A k \in KeyIds : k # key_id[h] => idx'[k] = idx[k]
    BY <1>13 DEF UpdateErr, DeleteKey, Goto, At, ids, buffer, log
  <2>2. \A r \in RecIds : Stands(r)' <=> Stands(r)
    BY <2>1
  <2>3. ASSUME NEW r \in RecIds, Stands(r), key_id[h] # Nil, col[r] # Nil
        PROVE  col[r] # idx[key_id[h]]
    <3>1. CASE r # record_id[h]
      BY <2>1, <2>3, <3>1
    <3>2. CASE r = record_id[h] /\ del_key_id[h] # Nil
      BY <2>1, <2>3, <3>2
    <3>3. CASE r = record_id[h] /\ del_key_id[h] = Nil
      BY <2>1, <2>3, <3>3
    <3> QED
      BY <3>1, <3>2, <3>3
  <2> QED
    BY ONLY <2>1, <2>2, <2>3, RowHasKey, ConstantsAssumption DEF RowHasKey, Stands
<1>14. CASE DeletePrepare(h)
  BY <1>14 DEF DeletePrepare, HasKey, PrepareDeleteKey, Goto, At, store,
      buffer, log
<1>15. CASE DeleteRecordStep(h)
  BY <1>15 DEF DeleteRecordStep, DeleteRecord, Goto, At, ids, buffer, log
<1>16. CASE DeleteKeyStep(h)
  BY <1>16 DEF DeleteKeyStep, DeleteKey, Release, Goto, At, ids, buffer, log
<1>17. CASE \/ TruncateTable(h)
           \/ TruncateIndex(h)
  BY <1>17 DEF TruncateTable, Goto, At, ids, buffer, log, TruncateIndex
<1>18. CASE Finish(h)
  BY <1>18 DEF Finish, FinishOperation, Goto, store
<1>19. CASE \E r \in RecIds : ReadRow(h, r)
  BY <1>19 DEF ReadRow, Goto, At, ExclusiveFree, Targeted, store, buffer, log
<1> QED
  BY ONLY KeyStep(h), <1>1, <1>2, <1>3, <1>4, <1>5, <1>6, <1>7, <1>8, <1>9,
     <1>10, <1>11, <1>12, <1>13, <1>14, <1>15, <1>16, <1>17, <1>18, <1>19 DEF KeyStep

\* A key keeps its owner in a step of h when its records keep it, and when h,
\* if it held it, still does or leaves it to a record.
LEMMA OwnedKept ==
    ASSUME NEW h \in Handlers, NEW k \in KeyIds, Owned(k), idx'[k] = idx[k],
           \A g \in Handlers \ {h} :
             /\ pc'[g] = pc[g] /\ key_id'[g] = key_id[g]
             /\ del_key_id'[g] = del_key_id[g],
           \A r \in RecIds :
             Stands(r) /\ col[r] = idx[k] => Owned(k)' \/ (Stands(r)' /\ col'[r] = col[r]),
           pc[h] \in KeyHolding /\ k \in {key_id[h], del_key_id[h]} => Owned(k)'
    PROVE  Owned(k)'
<1>1. CASE \E r \in RecIds : Stands(r) /\ col[r] = idx[k]
  BY <1>1 DEF Owned
<1>2. CASE \E g \in Handlers : pc[g] \in KeyHolding /\ k \in {key_id[g], del_key_id[g]}
  BY <1>2 DEF Owned
<1> QED
  BY <1>1, <1>2 DEF Owned

\* A key that loses its record is held by the statement that took it away,
\* and a key that a statement lets go has been removed or is in its record.
LEMMA OwnedStep ==
    ASSUME Isolated, TypeInv, AloneOK, LabelOK, TargetOK, KeyOK, NewKeyOK,
           OldKeyOK, KeepOK, UniqueKey, RowHasKey, OwnedKeyOK,
           NEW h \in Handlers, KeyStep(h), TypeOK'
    PROVE  OwnedKeyOK'
<1>0. WriteColumns(h) \/ UpdateColumns(h) => UNCHANGED idx
  BY ColumnKey
<1> SUFFICES ASSUME \A g \in Handlers : pc'[g] \notin {"t_table", "t_index"},
                    NEW k \in KeyIds, idx'[k] # Nil
             PROVE  Owned(k)'
  BY DEF OwnedKeyOK
<1> USE ConstantsAssumption
    DEF Isolated, TypeInv, AloneOK, LabelOK, TargetOK, KeyOK, NewKeyOK,
        OldKeyOK, KeepOK, UniqueKey, RowHasKey, OwnedKeyOK, TypeOK, BufferOK,
        Stands, Live, Aborted, Owning, HasNew, HasOld, HasDropped, NoNew,
        NoOld, Holds, Unplaced, Placed, Updating, Deleting, Truncating,
        Clearing, KeyHolding
<1>1. CASE Moved(h)
  <2>1. /\ Owned(k) /\ idx'[k] = idx[k]
        /\ \A g \in Handlers \ {h} :
             /\ pc'[g] = pc[g] /\ key_id'[g] = key_id[g]
             /\ del_key_id'[g] = del_key_id[g]
    BY <1>1 DEF Moved, Moves, Goto
  <2>2. \A r \in RecIds : Stands(r) => Stands(r)' /\ col'[r] = col[r]
    BY <1>1 DEF Moved, Moves, Goto
  <2>3. pc[h] \in KeyHolding /\ k \in {key_id[h], del_key_id[h]} => Owned(k)'
    BY <1>1 DEF Moved, Moves, Goto, Owned
  <2> QED
    BY ONLY <2>1, <2>2, <2>3, OwnedKept
<1>2. CASE WriteUniqueAdd(h)
  <2>1. CASE idx[k] = Nil
    BY <1>2, <2>1 DEF WriteUniqueAdd, AddKey, Goto, At, buffer, log, Owned
  <2>2. CASE idx[k] # Nil
    <3>1. /\ Owned(k) /\ idx'[k] = idx[k]
          /\ \A g \in Handlers \ {h} :
               /\ pc'[g] = pc[g] /\ key_id'[g] = key_id[g]
               /\ del_key_id'[g] = del_key_id[g]
      BY <1>2, <2>2 DEF WriteUniqueAdd, AddKey, Goto, At, buffer, log
    <3>2. \A r \in RecIds :
            Stands(r) /\ col[r] = idx[k] => Owned(k)' \/ (Stands(r)' /\ col'[r] = col[r])
      BY <1>2 DEF WriteUniqueAdd, AddKey, Goto, At, buffer, log, Owned
    <3>3. pc[h] \in KeyHolding /\ k \in {key_id[h], del_key_id[h]} => Owned(k)'
      BY <1>2 DEF WriteUniqueAdd, AddKey, Goto, At, buffer, log, Owned
    <3> QED
      BY ONLY <3>1, <3>2, <3>3, OwnedKept
  <2> QED
    BY <2>1, <2>2
<1>3. CASE WriteRecordAdd(h)
  <2>1. /\ Owned(k) /\ idx'[k] = idx[k]
        /\ \A g \in Handlers \ {h} :
             /\ pc'[g] = pc[g] /\ key_id'[g] = key_id[g]
             /\ del_key_id'[g] = del_key_id[g]
    BY <1>3 DEF WriteRecordAdd, Goto, At, buffer, log
  <2>2. \A r \in RecIds :
          Stands(r) /\ col[r] = idx[k] => Owned(k)' \/ (Stands(r)' /\ col'[r] = col[r])
    BY <1>3 DEF WriteRecordAdd, Goto, At, buffer, log, Owned
  <2>3. pc[h] \in KeyHolding /\ k \in {key_id[h], del_key_id[h]} => Owned(k)'
    BY <1>3 DEF WriteRecordAdd, Goto, At, buffer, log, Owned
  <2> QED
    BY ONLY <2>1, <2>2, <2>3, OwnedKept
<1>4. CASE WriteDupUndo(h)
  <2>1. /\ Owned(k) /\ idx'[k] = idx[k]
        /\ \A g \in Handlers \ {h} :
             /\ pc'[g] = pc[g] /\ key_id'[g] = key_id[g]
             /\ del_key_id'[g] = del_key_id[g]
    BY <1>4 DEF WriteDupUndo, DeleteKey, Release, Goto, At, ids, buffer, log
  <2>2. \A r \in RecIds :
          Stands(r) /\ col[r] = idx[k] => Owned(k)' \/ (Stands(r)' /\ col'[r] = col[r])
    BY <1>4 DEF WriteDupUndo, DeleteKey, Release, Goto, At, ids, buffer, log,
        Owned
  <2>3. pc[h] \in KeyHolding /\ k \in {key_id[h], del_key_id[h]} => Owned(k)'
    BY <1>4 DEF WriteDupUndo, DeleteKey, Release, Goto, At, ids, buffer, log,
        Owned
  <2> QED
    BY ONLY <2>1, <2>2, <2>3, OwnedKept
<1>5. CASE WriteColumns(h)
  <2>1. /\ Owned(k) /\ idx'[k] = idx[k]
        /\ \A g \in Handlers \ {h} :
             /\ pc'[g] = pc[g] /\ key_id'[g] = key_id[g]
             /\ del_key_id'[g] = del_key_id[g]
    BY <1>5, <1>0 DEF WriteColumns, Goto, At, ids
  <2>2. \A r \in RecIds :
          Stands(r) /\ col[r] = idx[k] => Owned(k)' \/ (Stands(r)' /\ col'[r] = col[r])
    BY <1>5, <1>0 DEF WriteColumns, HasKey, AddKey, SetColumn, Goto, At, ids,
        buffer, log, Owned
  <2>3. pc[h] \in KeyHolding /\ k \in {key_id[h], del_key_id[h]} => Owned(k)'
    BY <1>5, <1>0 DEF WriteColumns, HasKey, AddKey, SetColumn, Goto, At, ids,
        buffer, log, Owned
  <2> QED
    BY ONLY <2>1, <2>2, <2>3, OwnedKept
<1>6. CASE WriteErrKey(h)
  <2>1. /\ Owned(k) /\ idx'[k] = idx[k]
        /\ \A g \in Handlers \ {h} :
             /\ pc'[g] = pc[g] /\ key_id'[g] = key_id[g]
             /\ del_key_id'[g] = del_key_id[g]
    BY <1>6 DEF WriteErrKey, DeleteKey, Goto, At, ids, buffer, log
  <2>2. \A r \in RecIds :
          Stands(r) /\ col[r] = idx[k] => Owned(k)' \/ (Stands(r)' /\ col'[r] = col[r])
    BY <1>6 DEF WriteErrKey, DeleteKey, Goto, At, ids, buffer, log, Owned
  <2>3. pc[h] \in KeyHolding /\ k \in {key_id[h], del_key_id[h]} => Owned(k)'
    BY <1>6 DEF WriteErrKey, DeleteKey, Goto, At, ids, buffer, log, Owned
  <2> QED
    BY ONLY <2>1, <2>2, <2>3, OwnedKept
<1>7. CASE WriteErrRecord(h)
  <2>1. /\ Owned(k) /\ idx'[k] = idx[k]
        /\ \A g \in Handlers \ {h} :
             /\ pc'[g] = pc[g] /\ key_id'[g] = key_id[g]
             /\ del_key_id'[g] = del_key_id[g]
    BY <1>7 DEF WriteErrRecord, DeleteRecord, Goto, At, ids, buffer, log
  <2>2. \A r \in RecIds :
          Stands(r) /\ col[r] = idx[k] => Owned(k)' \/ (Stands(r)' /\ col'[r] = col[r])
    BY <1>7 DEF WriteErrRecord, DeleteRecord, Goto, At, ids, buffer, log,
        Owned
  <2>3. pc[h] \in KeyHolding /\ k \in {key_id[h], del_key_id[h]} => Owned(k)'
    BY <1>7 DEF WriteErrRecord, DeleteRecord, Goto, At, ids, buffer, log,
        Owned
  <2> QED
    BY ONLY <2>1, <2>2, <2>3, OwnedKept
<1>8. CASE UpdatePrepare(h)
  <2>1. /\ Owned(k) /\ idx'[k] = idx[k]
        /\ \A g \in Handlers \ {h} :
             /\ pc'[g] = pc[g] /\ key_id'[g] = key_id[g]
             /\ del_key_id'[g] = del_key_id[g]
    BY <1>8 DEF UpdatePrepare, HasKey, PrepareDeleteKey, Goto, At, store,
        buffer, log
  <2>2. \A r \in RecIds :
          Stands(r) /\ col[r] = idx[k] => Owned(k)' \/ (Stands(r)' /\ col'[r] = col[r])
    BY <1>8 DEF UpdatePrepare, HasKey, PrepareDeleteKey, Goto, At, store,
        buffer, log, Owned
  <2>3. pc[h] \in KeyHolding /\ k \in {key_id[h], del_key_id[h]} => Owned(k)'
    BY <1>8 DEF UpdatePrepare, HasKey, PrepareDeleteKey, Goto, At, store,
        buffer, log, Owned
  <2> QED
    BY ONLY <2>1, <2>2, <2>3, OwnedKept
<1>9. CASE UpdateUniqueAdd(h)
  <2>1. CASE idx[k] = Nil
    BY <1>9, <2>1 DEF UpdateUniqueAdd, AddKey, Release, Goto, At, buffer, log,
        Owned
  <2>2. CASE idx[k] # Nil
    <3>1. /\ Owned(k) /\ idx'[k] = idx[k]
          /\ \A g \in Handlers \ {h} :
               /\ pc'[g] = pc[g] /\ key_id'[g] = key_id[g]
               /\ del_key_id'[g] = del_key_id[g]
      BY <1>9, <2>2 DEF UpdateUniqueAdd, AddKey, Release, Goto, At, buffer,
          log
    <3>2. \A r \in RecIds :
            Stands(r) /\ col[r] = idx[k] => Owned(k)' \/ (Stands(r)' /\ col'[r] = col[r])
      BY <1>9 DEF UpdateUniqueAdd, AddKey, Release, Goto, At, buffer, log,
          Owned
    <3>3. pc[h] \in KeyHolding /\ k \in {key_id[h], del_key_id[h]} => Owned(k)'
      BY <1>9 DEF UpdateUniqueAdd, AddKey, Release, Goto, At, buffer, log,
          Owned
    <3> QED
      BY ONLY <3>1, <3>2, <3>3, OwnedKept
  <2> QED
    BY <2>1, <2>2
<1>10. CASE UpdateUniqueKeep(h)
  <2>1. /\ Owned(k) /\ idx'[k] = idx[k]
        /\ \A g \in Handlers \ {h} :
             /\ pc'[g] = pc[g] /\ key_id'[g] = key_id[g]
             /\ del_key_id'[g] = del_key_id[g]
    BY <1>10 DEF UpdateUniqueKeep, HasKey, Release, Goto, At, store, buffer,
        log
  <2>2. \A r \in RecIds :
          Stands(r) /\ col[r] = idx[k] => Owned(k)' \/ (Stands(r)' /\ col'[r] = col[r])
    BY <1>10 DEF UpdateUniqueKeep, HasKey, Release, Goto, At, store, buffer,
        log, Owned
  <2>3. pc[h] \in KeyHolding /\ k \in {key_id[h], del_key_id[h]} => Owned(k)'
    BY <1>10 DEF UpdateUniqueKeep, HasKey, Release, Goto, At, store, buffer,
        log, Owned
  <2> QED
    BY ONLY <2>1, <2>2, <2>3, OwnedKept
<1>11. CASE UpdateColumns(h)
  <2>1. /\ Owned(k) /\ idx'[k] = idx[k]
        /\ \A g \in Handlers \ {h} :
             /\ pc'[g] = pc[g] /\ key_id'[g] = key_id[g]
             /\ del_key_id'[g] = del_key_id[g]
    BY <1>11, <1>0 DEF UpdateColumns, Goto, At, ids
  <2>2. \A r \in RecIds :
          Stands(r) /\ col[r] = idx[k] => Owned(k)' \/ (Stands(r)' /\ col'[r] = col[r])
    BY <1>11, <1>0 DEF UpdateColumns, HasKey, AddKey, SetColumn, Goto, At,
        ids, buffer, log, Owned
  <2>3. pc[h] \in KeyHolding /\ k \in {key_id[h], del_key_id[h]} => Owned(k)'
    BY <1>11, <1>0 DEF UpdateColumns, HasKey, AddKey, SetColumn, Goto, At,
        ids, buffer, log, Owned
  <2> QED
    BY ONLY <2>1, <2>2, <2>3, OwnedKept
<1>12. CASE UpdateDeleteKey(h)
  <2>1. /\ Owned(k) /\ idx'[k] = idx[k]
        /\ \A g \in Handlers \ {h} :
             /\ pc'[g] = pc[g] /\ key_id'[g] = key_id[g]
             /\ del_key_id'[g] = del_key_id[g]
    BY <1>12 DEF UpdateDeleteKey, DeleteKey, Goto, At, ids, buffer, log
  <2>2. \A r \in RecIds :
          Stands(r) /\ col[r] = idx[k] => Owned(k)' \/ (Stands(r)' /\ col'[r] = col[r])
    BY <1>12 DEF UpdateDeleteKey, DeleteKey, Goto, At, ids, buffer, log, Owned
  <2>3. pc[h] \in KeyHolding /\ k \in {key_id[h], del_key_id[h]} => Owned(k)'
    BY <1>12 DEF UpdateDeleteKey, DeleteKey, Goto, At, ids, buffer, log, Owned
  <2> QED
    BY ONLY <2>1, <2>2, <2>3, OwnedKept
<1>13. CASE UpdateErr(h)
  <2>1. /\ Owned(k) /\ idx'[k] = idx[k]
        /\ \A g \in Handlers \ {h} :
             /\ pc'[g] = pc[g] /\ key_id'[g] = key_id[g]
             /\ del_key_id'[g] = del_key_id[g]
    BY <1>13 DEF UpdateErr, DeleteKey, Goto, At, ids, buffer, log
  <2>2. \A r \in RecIds :
          Stands(r) /\ col[r] = idx[k] => Owned(k)' \/ (Stands(r)' /\ col'[r] = col[r])
    BY <1>13 DEF UpdateErr, DeleteKey, Goto, At, ids, buffer, log, Owned
  <2>3. pc[h] \in KeyHolding /\ k \in {key_id[h], del_key_id[h]} => Owned(k)'
    BY <1>13 DEF UpdateErr, DeleteKey, Goto, At, ids, buffer, log, Owned
  <2> QED
    BY ONLY <2>1, <2>2, <2>3, OwnedKept
<1>14. CASE DeletePrepare(h)
  <2>1. /\ Owned(k) /\ idx'[k] = idx[k]
        /\ \A g \in Handlers \ {h} :
             /\ pc'[g] = pc[g] /\ key_id'[g] = key_id[g]
             /\ del_key_id'[g] = del_key_id[g]
    BY <1>14 DEF DeletePrepare, HasKey, PrepareDeleteKey, Goto, At, store,
        buffer, log
  <2>2. \A r \in RecIds :
          Stands(r) /\ col[r] = idx[k] => Owned(k)' \/ (Stands(r)' /\ col'[r] = col[r])
    BY <1>14 DEF DeletePrepare, HasKey, PrepareDeleteKey, Goto, At, store,
        buffer, log, Owned
  <2>3. pc[h] \in KeyHolding /\ k \in {key_id[h], del_key_id[h]} => Owned(k)'
    BY <1>14 DEF DeletePrepare, HasKey, PrepareDeleteKey, Goto, At, store,
        buffer, log, Owned
  <2> QED
    BY ONLY <2>1, <2>2, <2>3, OwnedKept
<1>15. CASE DeleteRecordStep(h)
  <2>1. /\ Owned(k) /\ idx'[k] = idx[k]
        /\ \A g \in Handlers \ {h} :
             /\ pc'[g] = pc[g] /\ key_id'[g] = key_id[g]
             /\ del_key_id'[g] = del_key_id[g]
    BY <1>15 DEF DeleteRecordStep, DeleteRecord, Goto, At, ids, buffer, log
  <2>2. \A r \in RecIds :
          Stands(r) /\ col[r] = idx[k] => Owned(k)' \/ (Stands(r)' /\ col'[r] = col[r])
    BY <1>15 DEF DeleteRecordStep, DeleteRecord, Goto, At, ids, buffer, log,
        Owned
  <2>3. pc[h] \in KeyHolding /\ k \in {key_id[h], del_key_id[h]} => Owned(k)'
    BY <1>15 DEF DeleteRecordStep, DeleteRecord, Goto, At, ids, buffer, log,
        Owned
  <2> QED
    BY ONLY <2>1, <2>2, <2>3, OwnedKept
<1>16. CASE DeleteKeyStep(h)
  <2>1. /\ Owned(k) /\ idx'[k] = idx[k]
        /\ \A g \in Handlers \ {h} :
             /\ pc'[g] = pc[g] /\ key_id'[g] = key_id[g]
             /\ del_key_id'[g] = del_key_id[g]
    BY <1>16 DEF DeleteKeyStep, DeleteKey, Release, Goto, At, ids, buffer, log
  <2>2. \A r \in RecIds :
          Stands(r) /\ col[r] = idx[k] => Owned(k)' \/ (Stands(r)' /\ col'[r] = col[r])
    BY <1>16 DEF DeleteKeyStep, DeleteKey, Release, Goto, At, ids, buffer,
        log, Owned
  <2>3. pc[h] \in KeyHolding /\ k \in {key_id[h], del_key_id[h]} => Owned(k)'
    BY <1>16 DEF DeleteKeyStep, DeleteKey, Release, Goto, At, ids, buffer,
        log, Owned
  <2> QED
    BY ONLY <2>1, <2>2, <2>3, OwnedKept
<1>17. CASE TruncateIndex(h)
  BY <1>17 DEF TruncateIndex, Goto, At, ids, buffer, log
<1>18. CASE Finish(h)
  <2>1. /\ Owned(k) /\ idx'[k] = idx[k]
        /\ \A g \in Handlers \ {h} :
             /\ pc'[g] = pc[g] /\ key_id'[g] = key_id[g]
             /\ del_key_id'[g] = del_key_id[g]
    BY <1>18 DEF Finish, FinishOperation, Goto, store
  <2>2. \A r \in RecIds :
          Stands(r) /\ col[r] = idx[k] => Owned(k)' \/ (Stands(r)' /\ col'[r] = col[r])
    BY <1>18 DEF Finish, FinishOperation, Goto, store, Owned
  <2>3. pc[h] \in KeyHolding /\ k \in {key_id[h], del_key_id[h]} => Owned(k)'
    BY <1>18 DEF Finish, FinishOperation, Goto, store, Owned
  <2> QED
    BY ONLY <2>1, <2>2, <2>3, OwnedKept
<1>19. CASE \E r \in RecIds : ReadRow(h, r)
  <2>1. /\ Owned(k) /\ idx'[k] = idx[k]
        /\ \A g \in Handlers \ {h} :
             /\ pc'[g] = pc[g] /\ key_id'[g] = key_id[g]
             /\ del_key_id'[g] = del_key_id[g]
    BY <1>19 DEF ReadRow, Goto, At, ExclusiveFree, Targeted, store, buffer,
        log
  <2>2. \A r \in RecIds :
          Stands(r) /\ col[r] = idx[k] => Owned(k)' \/ (Stands(r)' /\ col'[r] = col[r])
    BY <1>19 DEF ReadRow, Goto, At, ExclusiveFree, Targeted, store, buffer,
        log, Owned
  <2>3. pc[h] \in KeyHolding /\ k \in {key_id[h], del_key_id[h]} => Owned(k)'
    BY <1>19 DEF ReadRow, Goto, At, ExclusiveFree, Targeted, store, buffer,
        log, Owned
  <2> QED
    BY ONLY <2>1, <2>2, <2>3, OwnedKept
<1>b. CASE TruncateTable(h)
  BY <1>b DEF TruncateTable, Goto, At, ids, buffer, log
<1> QED
  BY ONLY KeyStep(h), <1>1, <1>2, <1>3, <1>4, <1>5, <1>6, <1>7, <1>8, <1>9,
     <1>10, <1>11, <1>12, <1>13, <1>14, <1>15, <1>16, <1>17, <1>18, <1>19, <1>b DEF KeyStep

-----------------------------------------------------------------------------
(* The theorems                                                             *)

LEMMA KeyInvStep ==
    ASSUME Isolated, KeyInv, NEW h \in Handlers, Begin(h) \/ Run(h)
    PROVE  KeyInv'
<1>1. TypeInv' /\ TypeOK'
  BY TypeStep DEF KeyInv, TypeInv
<1>2. KeyStep(h)
  BY EveryStep DEF KeyInv
<1>3. AloneOK' /\ MutexOK'
  BY AloneStep, MutexStep DEF KeyInv, TypeInv
<1>4. LabelOK' /\ TargetOK'
  BY <1>1, <1>2, LabelStep, TargetStep DEF KeyInv
<1>5. KeyOK' /\ NewKeyOK' /\ KeepOK' /\ OldKeyOK'
  BY <1>1, <1>2, KeyIdsStep, NewKeyStep, KeepStep, OldKeyStep DEF KeyInv
<1>6. UniqueKey' /\ RowHasKey' /\ OwnedKeyOK'
  BY <1>1, <1>2, UniqueStep, RowKeyStep, OwnedStep DEF KeyInv
<1> QED
  BY <1>1, <1>3, <1>4, <1>5, <1>6 DEF KeyInv

\* The inductive invariant behind the three theorems about keys: between the
\* steps of the statements in flight every key of the index table is a
\* standing record's or held by exactly one statement.
THEOREM KeyInvCorrect ==
    ASSUME Isolated
    PROVE  Spec => []KeyInv
<1>1. Init => KeyInv
  <2> SUFFICES ASSUME Init PROVE KeyInv
    OBVIOUS
  <2> USE ConstantsAssumption DEF Init
  <2>1. TypeInv
    BY DEF TypeInv, TypeOK, BufferOK, Labels, Unplaced, Placed, Updating
  <2>2. AloneOK /\ LabelOK /\ MutexOK
    BY DEF AloneOK, LabelOK, MutexOK, Truncating, Clearing, Critical, HasNew,
           NoNew, NoOld, Unplaced, Placed, Updating, Deleting
  <2>3. TargetOK /\ UniqueKey /\ RowHasKey
    BY DEF TargetOK, UniqueKey, RowHasKey, Live, Owning, Placed, Updating, Deleting
  <2>4. KeyOK /\ NewKeyOK /\ KeepOK /\ OldKeyOK /\ OwnedKeyOK
    BY DEF KeyOK, NewKeyOK, KeepOK, OldKeyOK, OwnedKeyOK, Holds, HasNew, HasOld,
           HasDropped
  <2> QED
    BY <2>1, <2>2, <2>3, <2>4 DEF KeyInv
<1>2. KeyInv /\ [Next]_vars => KeyInv'
  <2> SUFFICES ASSUME KeyInv, [Next]_vars PROVE KeyInv'
    OBVIOUS
  <2>1. CASE Next
    BY <2>1, KeyInvStep DEF Next
  <2>2. CASE UNCHANGED vars
    BY <2>2
       DEF vars, KeyInv, TypeInv, TypeOK, BufferOK, AloneOK, LabelOK, MutexOK,
           TargetOK, KeyOK, NewKeyOK, KeepOK, OldKeyOK, UniqueKey, RowHasKey,
           OwnedKeyOK, Owned, Holds, Stands, Live, Aborted
  <2> QED
    BY <2>1, <2>2
<1> QED
  BY <1>1, <1>2, PTL DEF Spec

\* UNIQUE means unique, for any number of concurrent sessions: the duplicate
\* check under record_mutex and the column write, clean-up and key removal
\* outside of it never let two records hold one value, provided Isolated.
THEOREM UniqueKeyCorrect ==
    ASSUME Isolated
    PROVE  Spec => []UniqueKey
<1>1. KeyInv => UniqueKey
  BY DEF KeyInv
<1> QED
  BY <1>1, KeyInvCorrect, PTL

\* Every stored value keeps its key, so that storage_write_row_unique_index
\* and storage_update_row_unique_indexes see every duplicate.
THEOREM RowHasKeyCorrect ==
    ASSUME Isolated
    PROVE  Spec => []RowHasKey
<1>1. KeyInv => RowHasKey
  BY DEF KeyInv
<1> QED
  BY <1>1, KeyInvCorrect, PTL

\* No failure path that Isolated admits leaves a key behind: a key without a
\* record is held by a statement that will hand it over or remove it.
THEOREM NoOrphanKeyCorrect ==
    ASSUME Isolated
    PROVE  Spec => []NoOrphanKey
<1>1. KeyInv => NoOrphanKey
  BY DEF KeyInv, OwnedKeyOK, Owned, NoOrphanKey, ExclusiveFree, Stands
<1> QED
  BY <1>1, KeyInvCorrect, PTL

(***************************************************************************)
(* Crashes and the repair                                                  *)
(***************************************************************************)

-----------------------------------------------------------------------------
(* The inductive invariant                                                  *)

Repairing == {"repair", "forget", "reindex", "fill"}

LogEmpty == \A o \in OpIds : oplog[o] = Nil

\* The handler that repairs holds mrn_operations_mutex, only a handler that
\* has the table open runs a statement, and unless a repair has failed
\* nobody has a broken table open, nor one that is being repaired.
OpeningOK ==
    /\ \A h \in Handlers :
        /\ opening[h] \in Repairing <=> operations_mutex = h
        /\ opening[h] # "open" => pc[h] = "idle"
        /\ opening[h] \in {"reindex", "fill"} => ~broken
    /\ (broken \/ operations_mutex # Nil) /\ ~repair_failed
        => \A h \in Handlers : opening[h] # "open"

RecoveryInv == RecoveryTypeOK /\ BufferOK /\ OpeningOK

-----------------------------------------------------------------------------

\* Row statements that the log can undo: TRUNCATE writes no entry.
Undoable == Isolated /\ Recording /\ "truncate" \notin Statements

\* Operations::repair has emptied the log and storage_reindex has not ended:
\* after a crash nothing tells the next process that the index is not there.
InWindow == operations_mutex # Nil /\ LogEmpty

NoStatement ==
    \A h \in Handlers : /\ pc[h] = "idle" /\ record_id[h] = Nil /\ key_id[h] = Nil
                        /\ del_key_id[h] = Nil /\ op_id[h] = Nil

\* A record that an entry of the log names, which repair will delete.
Doomed(r) == \E o \in OpIds : oplog[o] # Nil /\ oplog[o].record = r

\* The records that no entry names have distinct values.
ColumnOK ==
    /\ \A r \in RecIds : rec[r] = Nil => col[r] = Nil
    /\ \A r, q \in RecIds :
        r # q /\ Live(r) /\ Live(q) /\ ~Doomed(r) /\ ~Doomed(q) /\ col[r] # Nil
        => col[r] # col[q]

\* While the table is sound, the invariants of the row statements hold.
SoundOK ==
    Sound => KeyInv /\ LogInv /\ \A h \in Handlers : pc[h] \notin Truncating

\* While it is not, the log says what to undo: a broken table has entries,
\* the cursor of Operations::repair leaves none behind, and the record of the
\* entry it is about to remove is gone.
RepairOK ==
    ~Sound /\ ~repair_failed
    => /\ NoStatement /\ ColumnOK
       /\ operations_mutex = Nil => ~LogEmpty
       /\ \A h \in Handlers :
            /\ opening[h] \in {"repair", "forget"}
                 => \A o \in OpIds \ ahead : oplog[o] = Nil
            /\ opening[h] = "forget"
                 => /\ current \in OpIds /\ oplog[current] # Nil
                    /\ oplog[current].record \in RecIds
                    /\ rec[oplog[current].record] = Nil
            /\ opening[h] \in {"reindex", "fill"} => LogEmpty

IndexInv == RecoveryInv /\ SoundOK /\ RepairOK

-----------------------------------------------------------------------------
(* Types, and who runs beside a repair                                      *)

LEMMA RecoveryInvInit == RecoveryInit => RecoveryInv
<1> SUFFICES ASSUME RecoveryInit PROVE RecoveryInv
  OBVIOUS
<1> USE ConstantsAssumption, MaxCrashesAssumption DEF RecoveryInit, Init
<1>1. TypeOK /\ BufferOK
  BY DEF TypeOK, BufferOK, Labels, Unplaced, Placed, Updating
<1>2. RecoveryTypeOK
  <2>1. broken \in BOOLEAN /\ repair_failed \in BOOLEAN
    BY Zenon
  <2> QED BY <1>1, <2>1 DEF RecoveryTypeOK, OpenLabels
<1>3. OpeningOK
  BY DEF OpeningOK, Repairing
<1> QED BY <1>1, <1>2, <1>3 DEF RecoveryInv

LEMMA CrashTypes ==
    ASSUME RecoveryInv, Crash
    PROVE  RecoveryInv'
<1> USE ConstantsAssumption, MaxCrashesAssumption DEF Crash
<1>1. TypeOK' /\ BufferOK'
  BY DEF RecoveryInv, RecoveryTypeOK, TypeOK, BufferOK, Labels, store, Unplaced, Placed,
         Updating
<1>2. broken' \in BOOLEAN
  OBVIOUS
<1>3. crashes' \in 0 .. MaxCrashes
  BY DEF RecoveryInv, RecoveryTypeOK
<1>4. RecoveryTypeOK'
  BY <1>1, <1>2, <1>3 DEF RecoveryInv, RecoveryTypeOK, OpenLabels
<1>5. OpeningOK'
  BY DEF OpeningOK, Repairing
<1> QED BY <1>1, <1>4, <1>5 DEF RecoveryInv

LEMMA OpenStepTypes ==
    ASSUME RecoveryInv, NEW h \in Handlers, OpenStep(h)
    PROVE  RecoveryTypeOK' /\ BufferOK'
<1> USE ConstantsAssumption
    DEF RecoveryInv, RecoveryTypeOK, TypeOK, BufferOK, OpenLabels, OpenGoto, vars, store,
        ids, buffer, log
<1>0. CASE OpenClean(h)
  BY <1>0 DEF OpenClean
<1>1. CASE OpenBroken(h)
  BY <1>1 DEF OpenBroken
<1>2. ASSUME NEW o \in OpIds, RepairNoRecord(h, o)
      PROVE  RecoveryTypeOK' /\ BufferOK'
  BY <1>2 DEF RepairNoRecord
<1>7. ASSUME NEW o \in OpIds, RepairFail(h, o)
      PROVE  RecoveryTypeOK' /\ BufferOK'
  <2>1. repair_failed' \in BOOLEAN
    BY <1>7, Zenon DEF RepairFail
  <2> QED BY <1>7, <2>1 DEF RepairFail
<1>3. ASSUME NEW o \in OpIds, RepairRecord(h, o)
      PROVE  RecoveryTypeOK' /\ BufferOK'
  BY <1>3 DEF RepairRecord, DeleteRecord
<1>4. CASE RepairForget(h)
  BY <1>4 DEF RepairForget
<1>8. CASE RepairDone(h)
  BY <1>8 DEF RepairDone
<1>5. CASE ReindexTruncate(h)
  BY <1>5 DEF ReindexTruncate
<1>6. CASE ReindexFill(h)
  BY <1>6 DEF ReindexFill
<1> QED BY <1>0, <1>1, <1>2, <1>3, <1>4, <1>5, <1>6, <1>7, <1>8 DEF OpenStep

LEMMA RowStepTypes ==
    ASSUME RecoveryInv, NEW h \in Handlers, RowStep(h)
    PROVE  RecoveryTypeOK' /\ BufferOK'
<1>1. TypeInv'
  BY TypeStep DEF RecoveryInv, RecoveryTypeOK, TypeInv, RowStep
<1> QED BY <1>1 DEF RowStep, RecoveryInv, RecoveryTypeOK, TypeInv, repair

\* A step of storage_open touches only its own handler, and no statement.
LEMMA OpenStepOpening ==
    ASSUME RecoveryInv, NEW h \in Handlers, OpenStep(h)
    PROVE  OpeningOK'
<1> USE ConstantsAssumption
    DEF RecoveryInv, RecoveryTypeOK, OpeningOK, Repairing, OpenGoto, vars
<1>0. CASE OpenClean(h)
  BY <1>0 DEF OpenClean
<1>1. CASE OpenBroken(h)
  BY <1>1 DEF OpenBroken
<1>2. ASSUME NEW o \in OpIds, RepairNoRecord(h, o) \/ RepairRecord(h, o)
      PROVE  OpeningOK'
  BY <1>2 DEF RepairNoRecord, RepairRecord
<1>3. ASSUME NEW o \in OpIds, RepairFail(h, o)
      PROVE  OpeningOK'
  BY <1>3 DEF RepairFail
<1>4. CASE RepairForget(h) \/ RepairDone(h) \/ ReindexTruncate(h)
  BY <1>4 DEF RepairForget, RepairDone, ReindexTruncate
<1>5. CASE ReindexFill(h)
  BY <1>5 DEF ReindexFill
<1> QED BY <1>0, <1>1, <1>2, <1>3, <1>4, <1>5 DEF OpenStep

LEMMA RowStepOpening ==
    ASSUME RecoveryInv, NEW h \in Handlers, RowStep(h)
    PROVE  OpeningOK'
<1>1. UNCHANGED repair /\ opening[h] = "open" /\ (Begin(h) \/ Run(h))
  BY DEF RowStep
<1>2. \A g \in Handlers \ {h} : pc'[g] = pc[g]
  <2> USE DEF RecoveryInv, RecoveryTypeOK, TypeOK, Goto
  <2>1. CASE WriteStep(h)
    BY <2>1 DEF WriteStep, WriteArgsFail, WriteLock, WriteUniqueAdd, WriteUniqueDup,
       WriteUniqueFail, WriteRecordAdd, WriteRecordDup, WriteRecordFail, WriteDupUndo,
       WriteTarget, WriteColumns, WriteColumnsFail, WriteRest, WriteErrKey, WriteErrRecord
  <2>2. CASE UpdateStep(h)
    BY <2>2 DEF UpdateStep, UpdateTarget, UpdateArgsFail, UpdateLock, UpdatePrepare,
       UpdateUniqueAdd, UpdateUniqueKeep, UpdateUniqueDup, UpdateUniqueFail,
       UpdateColumns, UpdateColumnsFail, UpdateRest, UpdateDeleteKey, UpdateErr
  <2>3. CASE DeleteStep(h)
    BY <2>3 DEF DeleteStep, DeleteTarget, DeleteArgsFail, DeleteLock, DeletePrepare,
       DeleteRecordStep, DeleteRecordFail, DeleteIndex, DeleteKeyStep
  <2>4. CASE DeleteAllStep(h) \/ TruncateStep(h) \/ Finish(h)
    BY <2>4 DEF DeleteAllStep, DeleteAllRecord, DeleteAllOpenIndex, DeleteAllKey,
       DeleteAllDone, TruncateStep, TruncateTable, TruncateIndex, TruncateLog, Finish
  <2>5. CASE Begin(h)
    BY <2>5 DEF Begin, WriteRow, ReadRow, UpdateRow, DeleteRow, DeleteAllRows, Truncate
  <2> QED BY <1>1, <2>1, <2>2, <2>3, <2>4, <2>5 DEF Run
<1> QED BY <1>1, <1>2 DEF RecoveryInv, OpeningOK, repair, Repairing

LEMMA RecoveryInvStep == RecoveryInv /\ [RecoveryNext]_rvars => RecoveryInv'
<1> SUFFICES ASSUME RecoveryInv, [RecoveryNext]_rvars PROVE RecoveryInv'
  OBVIOUS
<1>1. CASE Crash
  BY <1>1, CrashTypes
<1>2. ASSUME NEW h \in Handlers, OpenStep(h) PROVE RecoveryInv'
  BY <1>2, OpenStepTypes, OpenStepOpening DEF RecoveryInv
<1>3. ASSUME NEW h \in Handlers, RowStep(h) PROVE RecoveryInv'
  BY <1>3, RowStepTypes, RowStepOpening DEF RecoveryInv
<1>4. CASE UNCHANGED rvars
  BY <1>4 DEF rvars, vars, repair, RecoveryInv, RecoveryTypeOK, TypeOK, BufferOK, OpeningOK
<1> QED BY <1>1, <1>2, <1>3, <1>4 DEF RecoveryNext

\* Every variable keeps its type, through crashes and repairs as well: what
\* Operations::repair and storage_reindex write is of the tables' types.
THEOREM RecoveryTypeCorrect == RecoverySpec => []RecoveryTypeOK
<1>1. RecoveryInv => RecoveryTypeOK
  BY DEF RecoveryInv
<1> QED BY <1>1, RecoveryInvInit, RecoveryInvStep, PTL DEF RecoverySpec

\* Whatever the statements and however often the server crashes, no statement
\* is in flight and no handler has the table open while one repairs it,
\* unless a repair has failed before: storage_open decides under
\* mrn_operations_mutex, and a crash closes every handler.
THEOREM RepairIsAloneCorrect == RecoverySpec => []RepairIsAlone
<1>1. RecoveryInv => RepairIsAlone
  BY DEF RecoveryInv, OpeningOK, RepairIsAlone
<1> QED BY <1>1, RecoveryInvInit, RecoveryInvStep, PTL DEF RecoverySpec

-----------------------------------------------------------------------------
(* The index after a repair                                                 *)

\* The records and the keys agree, without the help of a statement.
IndexAgrees ==
    /\ \A r \in RecIds : rec[r] = Nil => col[r] = Nil
    /\ \A j, k \in KeyIds : idx[j] # Nil /\ idx[j] = idx[k] => j = k
    /\ \A r, q \in RecIds : Live(r) /\ Live(q) /\ col[r] # Nil /\ col[r] = col[q] => r = q
    /\ \A r \in RecIds : Live(r) /\ col[r] # Nil => \E k \in KeyIds : idx[k] = col[r]
    /\ \A k \in KeyIds : idx[k] # Nil => \E r \in RecIds : Live(r) /\ col[r] = idx[k]

\* A process that starts on such tables, with an empty log, starts sound.
LEMMA FreshStart ==
    TypeInv /\ NoStatement /\ LogEmpty /\ IndexAgrees
    => KeyInv /\ LogInv /\ \A h \in Handlers : pc[h] \notin Truncating
<1> SUFFICES ASSUME TypeInv, NoStatement, LogEmpty, IndexAgrees
             PROVE  KeyInv /\ LogInv /\ \A h \in Handlers : pc[h] \notin Truncating
  OBVIOUS
<1>0. \A r \in RecIds : ~Aborted(r)
  BY DEF Aborted, NoStatement
<1>1. \A h \in Handlers : pc[h] \notin Truncating
  BY DEF NoStatement, Truncating
<1>2. AloneOK /\ MutexOK /\ LabelOK
  BY DEF AloneOK, MutexOK, LabelOK, NoStatement, Truncating, Critical, Clearing, HasNew,
     NoNew, NoOld, Unplaced, Placed, Updating, Deleting
<1>3. TargetOK
  BY DEF TargetOK, NoStatement, IndexAgrees, Owning, Placed, Updating, Deleting
<1>4. KeyOK
  BY DEF KeyOK, Holds, NoStatement, IndexAgrees, HasNew, HasOld, HasDropped
<1>5. NewKeyOK /\ KeepOK /\ OldKeyOK
  BY DEF NewKeyOK, KeepOK, OldKeyOK, NoStatement, HasNew, HasOld, HasDropped
<1>6. UniqueKey /\ RowHasKey
  BY DEF UniqueKey, RowHasKey, IndexAgrees
<1>7. OwnedKeyOK
  BY <1>0 DEF OwnedKeyOK, Owned, Stands, IndexAgrees
<1>8. EntryOK /\ LogIsLive
  BY DEF EntryOK, LogIsLive, NoStatement, LogEmpty, Logged, Changing, Unplaced, Placed,
     Updating, Deleting
<1> QED
  BY <1>1, <1>2, <1>3, <1>4, <1>5, <1>6, <1>7, <1>8 DEF KeyInv, LogInv

LEMMA FreshStartPrime ==
    (TypeInv /\ NoStatement /\ LogEmpty /\ IndexAgrees)'
    => (KeyInv /\ LogInv /\ \A h \in Handlers : pc[h] \notin Truncating)'
BY FreshStart, PTL

\* The record of an INSERT on its error path is in the log.
LEMMA AbortedIsDoomed ==
    ASSUME Undoable, LogInv, NEW r \in RecIds, Aborted(r)
    PROVE  Doomed(r)
  BY DEF Undoable, LogInv, TypeInv, TypeOK, EntryOK, Aborted, Doomed, Logged, Changing, Placed

\* With an empty log no statement is in the middle of its changes.
LEMMA EmptyLogIdle ==
    ASSUME Undoable, KeyInv, LogInv, \A h \in Handlers : pc[h] \notin Truncating,
           LogEmpty, NEW h \in Handlers
    PROVE  pc[h] \in {"idle", "row", "done", "w_done", "d_done"}
<1>1. pc[h] \notin Logged
  BY DEF Undoable, LogInv, TypeInv, TypeOK, EntryOK, LogEmpty
<1>2. pc[h] \notin Clearing /\ pc[h] \notin Truncating /\ pc[h] \in Labels
  BY DEF KeyInv, LabelOK, TypeInv, TypeOK
<1> QED
  BY <1>1, <1>2 DEF Labels, Logged, Clearing, Truncating, Unplaced, Placed, Updating, Deleting

LEMMA CrashIndex ==
    ASSUME Undoable, IndexInv, ~repair_failed, RecoveryInv', Crash, ~InWindow
    PROVE  SoundOK' /\ RepairOK'
<1>1. /\ NoStatement' /\ UNCHANGED <<rec, col, idx, oplog>>
      /\ \A h \in Handlers : opening'[h] = "closed"
      /\ operations_mutex' = Nil /\ ~repair_failed' /\ (broken' <=> ~LogEmpty)
  BY DEF Crash, NoStatement, store, LogEmpty
<1>2. Sound' <=> LogEmpty
  BY <1>1 DEF Sound
<1>3. LogEmpty' <=> LogEmpty
  BY <1>1 DEF LogEmpty
<1>4. ASSUME LogEmpty PROVE SoundOK'
  <2>1. Sound
    BY <1>4 DEF IndexInv, RepairOK, InWindow
  <2>2. KeyInv /\ LogInv /\ \A h \in Handlers : pc[h] \notin Truncating
    BY <2>1 DEF IndexInv, SoundOK
  <2>3. \A h \in Handlers : pc[h] \in {"idle", "row", "done", "w_done", "d_done"}
    BY <1>4, <2>2, EmptyLogIdle
  <2>4. \A r \in RecIds : ~Aborted(r)
    BY <2>3 DEF Aborted
  <2>5. IndexAgrees
    <3>1. \A r \in RecIds : rec[r] = Nil => col[r] = Nil
      BY <2>2 DEF KeyInv, TargetOK
    <3>2. \A j, k \in KeyIds : idx[j] # Nil /\ idx[j] = idx[k] => j = k
      BY <2>2 DEF KeyInv, KeyOK
    <3>3. \A r, q \in RecIds : Live(r) /\ Live(q) /\ col[r] # Nil /\ col[r] = col[q] => r = q
      BY <2>2, <2>4 DEF KeyInv, UniqueKey
    <3>4. \A r \in RecIds : Live(r) /\ col[r] # Nil => \E k \in KeyIds : idx[k] = col[r]
      BY <2>2, <2>4 DEF KeyInv, RowHasKey
    <3>5. \A k \in KeyIds : idx[k] # Nil => \E r \in RecIds : Live(r) /\ col[r] = idx[k]
      BY <2>2, <2>3 DEF KeyInv, OwnedKeyOK, Owned, Stands, KeyHolding
    <3> QED BY <3>1, <3>2, <3>3, <3>4, <3>5 DEF IndexAgrees
  <2>6. IndexAgrees'
    BY <1>1, <2>5 DEF IndexAgrees, Live
  <2>7. TypeInv'
    BY DEF RecoveryInv, RecoveryTypeOK, TypeInv
  <2> QED BY <1>1, <1>3, <1>4, <2>6, <2>7, FreshStartPrime DEF SoundOK
<1>5. ASSUME ~LogEmpty PROVE RepairOK'
  <2>1. ColumnOK
    <3>1. CASE Sound
      <4>1. KeyInv /\ LogInv
        BY <3>1 DEF IndexInv, SoundOK
      <4>2. \A r \in RecIds : rec[r] = Nil => col[r] = Nil
        BY <4>1 DEF KeyInv, TargetOK
      <4>3. \A r \in RecIds : ~Doomed(r) => ~Aborted(r)
        BY <4>1, AbortedIsDoomed
      <4> QED BY <4>1, <4>2, <4>3 DEF ColumnOK, KeyInv, UniqueKey
    <3>2. CASE ~Sound
      BY <3>2 DEF IndexInv, RepairOK
    <3> QED BY <3>1, <3>2
  <2>2. ColumnOK'
    BY <1>1, <2>1 DEF ColumnOK, Doomed, Live
  <2> QED BY <1>1, <1>3, <1>5, <2>2 DEF RepairOK
<1>6. LogEmpty => RepairOK'
  BY <1>2 DEF RepairOK
<1>7. ~LogEmpty => SoundOK'
  BY <1>2 DEF SoundOK
<1> QED BY <1>4, <1>5, <1>6, <1>7

LEMMA RepairStepIndex ==
    ASSUME IndexInv, ~repair_failed, RecoveryInv', NEW h \in Handlers, OpenStep(h),
           ~repair_failed'
    PROVE  SoundOK' /\ RepairOK'
<1> USE ConstantsAssumption DEF vars, store, ids, buffer, log
<1>0. \A g \in Handlers : opening[g] \in Repairing <=> operations_mutex = g
  BY DEF IndexInv, RecoveryInv, OpeningOK
<1>t. opening \in [Handlers -> OpenLabels] /\ h # Nil
  BY DEF IndexInv, RecoveryInv, RecoveryTypeOK
<1>a. /\ oplog \in [OpIds -> OpEntries \cup {Nil}]
      /\ rec \in [RecIds -> PKeys \cup {Nil}] /\ col \in [RecIds -> UKeys \cup {Nil}]
      /\ idx \in [KeyIds -> UKeys \cup {Nil}]
  BY DEF IndexInv, RecoveryInv, RecoveryTypeOK, TypeOK
<1>1. CASE OpenClean(h)
  <2>1. Sound /\ Sound' /\ UNCHANGED vars
    BY <1>1 DEF OpenClean, Sound
  <2>2. KeyInv /\ LogInv /\ \A g \in Handlers : pc[g] \notin Truncating
    BY <2>1 DEF IndexInv, SoundOK
  <2>3. KeyInv' /\ LogInv' /\ \A g \in Handlers : pc'[g] \notin Truncating
    BY <2>1, <2>2
    DEF KeyInv, LogInv, TypeInv, TypeOK, BufferOK, AloneOK, LabelOK, MutexOK,
        TargetOK, KeyOK, NewKeyOK, KeepOK, OldKeyOK, UniqueKey, RowHasKey,
        OwnedKeyOK, Owned, Holds, Stands, Live, Aborted, EntryOK, LogIsLive
  <2> QED BY <2>1, <2>3 DEF SoundOK, RepairOK
<1>2. CASE OpenBroken(h)
  <2>1. ~Sound /\ ~Sound' /\ operations_mutex' # Nil
    BY <1>2, <1>t DEF OpenBroken, Sound
  <2>2. NoStatement /\ ColumnOK
    BY <2>1 DEF IndexInv, RepairOK
  <2>3. NoStatement' /\ ColumnOK'
    BY <1>2, <2>2 DEF OpenBroken, NoStatement, ColumnOK, Doomed, Live
  <2>4. ahead' = OpIds
    BY <1>2 DEF OpenBroken
  <2>5. \A g \in Handlers : opening'[g] \notin {"forget", "reindex", "fill"}
    BY <1>0, <1>2, <1>t DEF OpenBroken, OpenGoto, Repairing
  <2> QED BY <2>1, <2>3, <2>4, <2>5 DEF SoundOK, RepairOK
<1>3. CASE opening[h] \in Repairing
  <2>0. /\ operations_mutex = h /\ ~Sound
        /\ NoStatement /\ ColumnOK
        /\ \A g \in Handlers \ {h} : opening[g] \notin Repairing
        /\ opening[h] \in {"repair", "forget"} => \A o \in OpIds \ ahead : oplog[o] = Nil
        /\ opening[h] = "forget"
             => /\ current \in OpIds /\ oplog[current] # Nil
                /\ oplog[current].record \in RecIds
                /\ rec[oplog[current].record] = Nil
        /\ opening[h] \in {"reindex", "fill"} => LogEmpty
    BY <1>0, <1>3, <1>t DEF IndexInv, RepairOK, Sound
  <2>a. ASSUME operations_mutex' = h, NoStatement', ColumnOK',
               \A g \in Handlers \ {h} : opening'[g] = opening[g],
               opening'[h] \in {"repair", "forget"} => \A o \in OpIds \ ahead' : oplog'[o] = Nil,
               opening'[h] = "forget"
                 => /\ current' \in OpIds /\ oplog'[current'] # Nil
                    /\ oplog'[current'].record \in RecIds
                    /\ rec'[oplog'[current'].record] = Nil,
               opening'[h] \in {"reindex", "fill"} => LogEmpty'
        PROVE  SoundOK' /\ RepairOK'
    <3>1. operations_mutex' # Nil /\ ~Sound'
      BY <1>t, <2>a DEF Sound
    <3>2. \A g \in Handlers \ {h} : opening'[g] \notin Repairing
      BY <2>0, <2>a
    <3> QED BY <2>a, <3>1, <3>2 DEF SoundOK, RepairOK, Repairing
  <2>n. UNCHANGED <<pc, ids, op_id>> => NoStatement'
    BY <2>0 DEF NoStatement
  <2>1. ASSUME NEW o \in OpIds, RepairNoRecord(h, o) PROVE SoundOK' /\ RepairOK'
    <3>1. /\ opening[h] = "repair" /\ oplog[o] # Nil /\ oplog[o].record = Nil
          /\ oplog' = [oplog EXCEPT ![o] = Nil] /\ ahead' = ahead \ {o}
          /\ UNCHANGED <<rec, col, opening, operations_mutex, pc, ids, op_id>>
      BY <2>1 DEF RepairNoRecord
    <3>2. \A r \in RecIds : Doomed(r) => Doomed(r)'
      BY <1>a, <3>1 DEF Doomed
    <3>3. ColumnOK'
      BY <2>0, <3>1, <3>2 DEF ColumnOK, Live
    <3>4. \A p \in OpIds \ ahead' : oplog'[p] = Nil
      BY <1>a, <2>0, <3>1
    <3> QED BY <2>0, <2>a, <2>n, <3>1, <3>3, <3>4
  <2>2. ASSUME NEW o \in OpIds, RepairRecord(h, o) PROVE SoundOK' /\ RepairOK'
    <3> DEFINE r == oplog[o].record
    <3>1. /\ opening[h] = "repair" /\ oplog[o] # Nil /\ r # Nil
          /\ rec' = [rec EXCEPT ![r] = Nil] /\ col' = [col EXCEPT ![r] = Nil]
          /\ current' = o /\ opening' = [opening EXCEPT ![h] = "forget"]
          /\ UNCHANGED <<operations_mutex, ahead, oplog, pc, ids, op_id>>
      BY <2>2 DEF RepairRecord, DeleteRecord, OpenGoto
    <3>2. r \in RecIds
      BY <1>a, <3>1 DEF OpEntries
    <3> HIDE DEF r
    <3>3. /\ rec'[r] = Nil /\ col'[r] = Nil
          /\ \A q \in RecIds \ {r} : rec'[q] = rec[q] /\ col'[q] = col[q]
      BY <1>a, <3>1, <3>2
    <3>4. \A q \in RecIds : Doomed(q)' <=> Doomed(q)
      BY <3>1 DEF Doomed
    <3>5. ColumnOK'
      BY <2>0, <3>3, <3>4 DEF ColumnOK, Live
    <3>6. /\ opening'[h] = "forget"
          /\ \A g \in Handlers \ {h} : opening'[g] = opening[g]
      BY <1>t, <3>1
    <3>7. oplog'[current'].record = r /\ oplog'[current'] # Nil /\ current' \in OpIds
      BY <3>1 DEF r
    <3> QED BY <2>0, <2>a, <2>n, <3>1, <3>2, <3>3, <3>5, <3>6, <3>7
  <2>3. CASE RepairForget(h)
    <3>1. /\ opening[h] = "forget" /\ opening' = [opening EXCEPT ![h] = "repair"]
          /\ oplog' = [oplog EXCEPT ![current] = Nil] /\ ahead' = ahead \ {current}
          /\ UNCHANGED <<rec, col, operations_mutex, pc, ids, op_id>>
      BY <2>3 DEF RepairForget, OpenGoto
    <3>2. /\ oplog'[current] = Nil
          /\ \A p \in OpIds \ {current} : oplog'[p] = oplog[p]
      BY <1>a, <2>0, <3>1
    <3>3. \A q \in RecIds : Doomed(q) /\ Live(q) => Doomed(q)'
      BY <2>0, <3>1, <3>2 DEF Doomed, Live
    <3>4. ColumnOK'
      BY <2>0, <3>1, <3>3 DEF ColumnOK, Live
    <3>5. \A p \in OpIds \ ahead' : oplog'[p] = Nil
      BY <2>0, <3>1, <3>2
    <3>6. /\ opening'[h] = "repair"
          /\ \A g \in Handlers \ {h} : opening'[g] = opening[g]
      BY <1>t, <3>1
    <3> QED BY <2>0, <2>a, <2>n, <3>1, <3>4, <3>5, <3>6
  <2>4. ASSUME NEW o \in OpIds, RepairFail(h, o) PROVE FALSE
    BY <2>4 DEF RepairFail
  <2>c. UNCHANGED <<rec, col, oplog>> => ColumnOK'
    BY <2>0 DEF ColumnOK, Doomed, Live
  <2>5. CASE RepairDone(h)
    <3>1. /\ opening[h] = "repair" /\ opening' = [opening EXCEPT ![h] = "reindex"]
          /\ \A o \in ahead : oplog[o] = Nil
          /\ UNCHANGED <<rec, col, oplog, operations_mutex, pc, ids, op_id>>
      BY <2>5 DEF RepairDone, OpenGoto
    <3>2. LogEmpty'
      BY <2>0, <3>1 DEF LogEmpty
    <3>3. /\ opening'[h] = "reindex"
          /\ \A g \in Handlers \ {h} : opening'[g] = opening[g]
      BY <1>t, <3>1
    <3> QED BY <2>0, <2>a, <2>c, <2>n, <3>1, <3>2, <3>3
  <2>6. CASE ReindexTruncate(h)
    <3>1. /\ opening[h] = "reindex" /\ opening' = [opening EXCEPT ![h] = "fill"]
          /\ UNCHANGED <<rec, col, oplog, operations_mutex, pc, ids, op_id>>
      BY <2>6 DEF ReindexTruncate, OpenGoto
    <3>2. LogEmpty'
      BY <2>0, <3>1 DEF LogEmpty
    <3>3. /\ opening'[h] = "fill"
          /\ \A g \in Handlers \ {h} : opening'[g] = opening[g]
      BY <1>t, <3>1
    <3> QED BY <2>0, <2>a, <2>c, <2>n, <3>1, <3>2, <3>3
  <2>7. CASE ReindexFill(h)
    <3> DEFINE values == {col[r] : r \in {q \in RecIds : rec[q] # Nil}} \ {Nil}
    <3>1. /\ opening[h] = "fill" /\ operations_mutex' = Nil
          /\ UNCHANGED <<rec, col, oplog, pc, ids, op_id>>
      BY <2>7 DEF ReindexFill
    <3>2. /\ {idx'[k] : k \in KeyIds} \ {Nil} = values
          /\ \A j, k \in KeyIds : idx'[j] = idx'[k] /\ idx'[j] # Nil => j = k
      BY <2>7 DEF ReindexFill
    <3>3. LogEmpty /\ LogEmpty'
      BY <2>0, <3>1 DEF LogEmpty
    <3>4. \A r \in RecIds : ~Doomed(r)
      BY <3>3 DEF LogEmpty, Doomed
    <3>5. /\ \A r \in RecIds : rec[r] = Nil => col[r] = Nil
          /\ \A r, q \in RecIds : Live(r) /\ Live(q) /\ col[r] # Nil /\ col[r] = col[q] => r = q
      BY <2>0, <3>4 DEF ColumnOK
    <3>6. \A r \in RecIds : Live(r) /\ col[r] # Nil => \E k \in KeyIds : idx'[k] = col[r]
      <4> SUFFICES ASSUME NEW r \in RecIds, Live(r), col[r] # Nil
                   PROVE  \E k \in KeyIds : idx'[k] = col[r]
        OBVIOUS
      <4>1. col[r] \in values
        BY DEF Live
      <4> QED BY <3>2, <4>1
    <3>7. \A k \in KeyIds : idx'[k] # Nil => \E r \in RecIds : Live(r) /\ col[r] = idx'[k]
      <4> SUFFICES ASSUME NEW k \in KeyIds, idx'[k] # Nil
                   PROVE  \E r \in RecIds : Live(r) /\ col[r] = idx'[k]
        OBVIOUS
      <4>1. idx'[k] \in values
        BY <3>2
      <4> QED BY <4>1 DEF Live
    <3>8. IndexAgrees'
      BY <3>1, <3>2, <3>5, <3>6, <3>7 DEF IndexAgrees, Live
    <3>9. TypeInv'
      BY DEF RecoveryInv, RecoveryTypeOK, TypeInv
    <3>10. KeyInv' /\ LogInv' /\ \A g \in Handlers : pc'[g] \notin Truncating
      BY <2>n, <3>1, <3>3, <3>8, <3>9, FreshStartPrime
    <3>11. Sound'
      <4>1. ~broken /\ broken' = broken
        BY <2>7, <3>1 DEF IndexInv, RecoveryInv, OpeningOK, ReindexFill
      <4> QED BY <3>1, <4>1 DEF Sound
    <3> QED BY <3>10, <3>11 DEF SoundOK, RepairOK
  <2> QED
    BY <1>3, <2>1, <2>2, <2>3, <2>4, <2>5, <2>6, <2>7
    DEF OpenStep, OpenClean, OpenBroken, Repairing
<1> QED
  BY <1>1, <1>2, <1>3 DEF OpenStep, Repairing, RepairNoRecord, RepairRecord, RepairFail,
     RepairForget, RepairDone, ReindexTruncate, ReindexFill

\* A statement other than TRUNCATE does not get to its labels.
LEMMA NotTruncating ==
    ASSUME Undoable, KeyInv, NEW h \in Handlers, pc[h] \notin Truncating, Begin(h) \/ Run(h)
    PROVE  \A g \in Handlers : pc[g] \notin Truncating => pc'[g] \notin Truncating
<1> USE DEF KeyInv, TypeInv, TypeOK, Goto, Truncating, At
<1>1. CASE WriteStep(h)
  BY <1>1 DEF WriteStep, WriteArgsFail, WriteLock, WriteUniqueAdd, WriteUniqueDup,
     WriteUniqueFail, WriteRecordAdd, WriteRecordDup, WriteRecordFail, WriteDupUndo,
     WriteTarget, WriteColumns, WriteColumnsFail, WriteRest, WriteErrKey, WriteErrRecord
<1>2. CASE UpdateStep(h)
  BY <1>2 DEF UpdateStep, UpdateTarget, UpdateArgsFail, UpdateLock, UpdatePrepare,
     UpdateUniqueAdd, UpdateUniqueKeep, UpdateUniqueDup, UpdateUniqueFail,
     UpdateColumns, UpdateColumnsFail, UpdateRest, UpdateDeleteKey, UpdateErr
<1>3. CASE DeleteStep(h)
  BY <1>3 DEF DeleteStep, DeleteTarget, DeleteArgsFail, DeleteLock, DeletePrepare,
     DeleteRecordStep, DeleteRecordFail, DeleteIndex, DeleteKeyStep
<1>4. CASE DeleteAllStep(h) \/ Finish(h)
  BY <1>4 DEF DeleteAllStep, DeleteAllRecord, DeleteAllOpenIndex, DeleteAllKey,
     DeleteAllDone, Finish
<1>5. CASE TruncateStep(h)
  BY <1>5 DEF TruncateStep, TruncateTable, TruncateIndex, TruncateLog
<1>6. CASE Begin(h)
  BY <1>6 DEF Undoable, Begin, WriteRow, ReadRow, UpdateRow, DeleteRow, DeleteAllRows,
     Truncate
<1> QED BY <1>1, <1>2, <1>3, <1>4, <1>5, <1>6 DEF Run

\* A statement runs while the table is sound, and keeps it so.
LEMMA RowStepIndex ==
    ASSUME Undoable, IndexInv, ~repair_failed, NEW h \in Handlers, RowStep(h)
    PROVE  SoundOK' /\ RepairOK'
<1>1. Sound
  BY DEF IndexInv, RecoveryInv, OpeningOK, RowStep, Sound
<1>2. KeyInv /\ LogInv /\ \A g \in Handlers : pc[g] \notin Truncating
  BY <1>1 DEF IndexInv, SoundOK
<1>3. Begin(h) \/ Run(h)
  BY DEF RowStep
<1>4. KeyInv' /\ LogInv' /\ \A g \in Handlers : pc'[g] \notin Truncating
  BY <1>2, <1>3, KeyInvStep, LogInvStep, NotTruncating DEF Undoable
<1>5. Sound'
  BY <1>1 DEF RowStep, repair, Sound
<1> QED BY <1>4, <1>5 DEF SoundOK, RepairOK

LEMMA IndexInvInit == RecoveryInit => IndexInv
<1> SUFFICES ASSUME RecoveryInit PROVE IndexInv
  OBVIOUS
<1>1. RecoveryInv
  BY RecoveryInvInit
<1>2. TypeInv
  BY <1>1 DEF RecoveryInv, RecoveryTypeOK, TypeInv
<1>3. NoStatement /\ LogEmpty /\ IndexAgrees
  BY DEF RecoveryInit, Init, NoStatement, LogEmpty, IndexAgrees, Live
<1>4. Sound
  BY DEF RecoveryInit, Sound
<1> QED BY <1>1, <1>2, <1>3, <1>4, FreshStart DEF IndexInv, SoundOK, RepairOK

LEMMA IndexInvStep ==
    ASSUME Undoable
    PROVE  IndexInv /\ ~repair_failed /\ ~repair_failed' /\ [RecoveryNext]_rvars
           /\ [Crash => ~InWindow]_rvars => IndexInv'
<1> SUFFICES ASSUME IndexInv, ~repair_failed, ~repair_failed', [RecoveryNext]_rvars,
                    [Crash => ~InWindow]_rvars
             PROVE  IndexInv'
  OBVIOUS
<1>0. RecoveryInv'
  BY RecoveryInvStep DEF IndexInv
<1>1. CASE UNCHANGED rvars
  <2>1. UNCHANGED <<vars, repair>>
    BY <1>1 DEF rvars
  <2>2. SoundOK'
    BY <2>1
    DEF vars, repair, IndexInv, SoundOK, Sound, KeyInv, LogInv, TypeInv, TypeOK, BufferOK,
        AloneOK, LabelOK, MutexOK, TargetOK, KeyOK, NewKeyOK, KeepOK, OldKeyOK, UniqueKey,
        RowHasKey, OwnedKeyOK, Owned, Holds, Stands, Live, Aborted, EntryOK, LogIsLive
  <2>3. RepairOK'
    BY <2>1
    DEF vars, repair, IndexInv, RepairOK, Sound, NoStatement, ColumnOK, Doomed, Live,
        LogEmpty
  <2> QED BY <1>0, <2>2, <2>3 DEF IndexInv
<1>2. CASE Crash
  <2>1. CASE InWindow
    BY <1>1, <1>2, <2>1
  <2>2. CASE ~InWindow
    BY <1>0, <1>2, <2>2, CrashIndex DEF IndexInv
  <2> QED BY <2>1, <2>2
<1>3. ASSUME NEW h \in Handlers, OpenStep(h) PROVE IndexInv'
  BY <1>0, <1>3, RepairStepIndex DEF IndexInv
<1>4. ASSUME NEW h \in Handlers, RowStep(h) PROVE IndexInv'
  BY <1>0, <1>4, RowStepIndex DEF IndexInv
<1> QED BY <1>1, <1>2, <1>3, <1>4 DEF RecoveryNext

\* However often the server crashes in the middle of statements, and in the
\* middle of a repair as well, once storage_open considers the table repaired
\* its index agrees with its records again, and so it stays while statements
\* run: Operations::repair deletes exactly the records that may be half
\* changed, and storage_reindex makes the keys from the others.  It is about
\* statements that write the log, as long as no repair fails and no crash
\* comes between the removal of the last entry and the end of the reindexing.
THEOREM RepairedIndexCorrect ==
    ASSUME Undoable
    PROVE  RecoverySpec /\ []~repair_failed /\ [][Crash => ~InWindow]_rvars
           => []RepairedIndex
<1>1. IndexInv => RepairedIndex
  BY DEF IndexInv, SoundOK, RepairedIndex, KeyInv, OwnedKeyOK, Owned, NoOrphanKey,
     ExclusiveFree, Stands
<1>2. IndexInv /\ ~repair_failed /\ ~repair_failed' /\ [RecoveryNext]_rvars
      /\ [Crash => ~InWindow]_rvars => IndexInv'
  BY IndexInvStep
<1> QED BY <1>1, <1>2, IndexInvInit, PTL DEF RecoverySpec

=============================================================================
