---------------------------- MODULE StorageRows ----------------------------
(***************************************************************************)
(* Row operations of Mroonga's storage mode (ha_mroonga.cpp): INSERT,      *)
(* UPDATE, DELETE, DELETE without a condition, and TRUNCATE, executed by   *)
(* concurrent handler objects on one table that has a primary key and one  *)
(* single-column UNIQUE secondary key.                                     *)
(*                                                                         *)
(* Mroonga keeps a UNIQUE secondary key as a Groonga table of keys (an     *)
(* index table) beside the table of records.  The two are separate objects *)
(* and there are no transactions: each Groonga call is one atomic step,    *)
(* and a statement is a sequence of such steps.  share->record_mutex       *)
(* serialises the duplicate checks, but not the column writes, the clean-  *)
(* up after an error, nor the removal of the old key at the end of an      *)
(* UPDATE.  storage_store_lock lets writers run concurrently and there are *)
(* no row locks.                                                           *)
(*                                                                         *)
(* Every statement except DELETE without a condition records itself in the *)
(* operations log (lib/mrn_operations.cpp) from its first step to its last *)
(* one; the module CrashRecovery uses that log after a crash.              *)
(***************************************************************************)
EXTENDS Naturals, FiniteSets

CONSTANTS
    Handlers,      \* ha_mroonga objects, one per session using the table
    PKeys,         \* primary key values
    UKeys,         \* values of the UNIQUE column
    RecIds,        \* grn_id of records
    KeyIds,        \* grn_id of keys in the index table
    OpIds,         \* grn_id of entries of mroonga_operations
    Nil,           \* GRN_ID_NIL, an absent key or value, no lock holder
    Keep,          \* "the UNIQUE column is not in write_set" of an UPDATE
    EmptyPk,       \* a primary key whose encoded size is 0
    Statements,    \* the kinds of statement the sessions run
    Faults,        \* the failures that may happen, a subset of FaultKinds
    SharedTargets, \* may two sessions work on the same record at a time?
    Recording      \* mroonga_enable_operations_recording

FaultKinds ==
    { "args",          \* a check before the first change fails
      "index_add",     \* grn_table_add on the index table
      "table_add",     \* grn_table_add on the record table
      "set_value",     \* a column write before the UNIQUE column's
      "late_write",    \* INSERT: a later column, or a multiple column index
      "late_update",   \* UPDATE: a later column, or a multiple column index
      "table_delete",  \* grn_table_delete_by_id on the record table
      "index_update",  \* the multiple column index step of a DELETE
      "truncate" }     \* grn_table_truncate

StatementKinds == {"write", "update", "delete", "delete_all", "truncate"}

\* An entry of mroonga_operations, as far as one table is concerned.
OpEntries == [type : {"write", "update", "delete"}, record : RecIds \cup {Nil}]

\* Ids, keys and the special values are told apart.
ASSUME ConstantsAssumption ==
    /\ Nil \notin Handlers \cup PKeys \cup UKeys \cup RecIds \cup KeyIds \cup OpIds
    /\ Nil \notin OpEntries
    /\ Keep \notin UKeys /\ Keep # Nil
    /\ Statements \subseteq StatementKinds
    /\ Faults \subseteq FaultKinds
    /\ SharedTargets \in BOOLEAN
    /\ Recording \in BOOLEAN

VARIABLES
    rec,          \* the record table: record id -> primary key, or Nil
    col,          \* the UNIQUE column: record id -> value, or Nil (default)
    idx,          \* the index table: key id -> key, or Nil
    record_mutex, \* share->record_mutex: its holder, or Nil
    oplog,        \* mroonga_operations: id -> entry, or Nil
    pc,           \* where each handler is in its statement
    record_id,    \* the handler's current record
    key_id,       \* key_id[i]: the key the statement added
    del_key_id,   \* del_key_id[i]: the key the statement is to remove
    new_pk,       \* the primary key in the row buffer
    new_u,        \* the UNIQUE column in the row buffer
    op_id,        \* the id of the statement's Operation
    todo          \* ids the cursor of a DELETE without condition has ahead

store  == <<rec, col, idx>>
ids    == <<record_id, key_id, del_key_id>>
buffer == <<new_pk, new_u>>
log    == <<oplog, op_id>>
vars   == <<rec, col, idx, record_mutex, oplog, pc, record_id, key_id,
            del_key_id, new_pk, new_u, op_id, todo>>

Labels ==
    { "idle", "row", "done", "w_done", "d_done",
      "w_args", "w_ukey", "w_pkey", "w_dup", "w_target", "w_cols", "w_rest",
      "w_err_key", "w_err_rec",
      "u_target", "u_args", "u_prep", "u_ukey", "u_cols", "u_rest",
      "u_del_key", "u_err",
      "d_target", "d_args", "d_prep", "d_rec", "d_index", "d_key",
      "a_recs", "a_keys", "t_table", "t_index", "t_log" }

TypeOK ==
    /\ rec \in [RecIds -> PKeys \cup {Nil}]
    /\ col \in [RecIds -> UKeys \cup {Nil}]
    /\ idx \in [KeyIds -> UKeys \cup {Nil}]
    /\ record_mutex \in Handlers \cup {Nil}
    /\ oplog \in [OpIds -> OpEntries \cup {Nil}]
    /\ pc \in [Handlers -> Labels]
    /\ record_id \in [Handlers -> RecIds \cup {Nil}]
    /\ key_id \in [Handlers -> KeyIds \cup {Nil}]
    /\ del_key_id \in [Handlers -> KeyIds \cup {Nil}]
    /\ new_pk \in [Handlers -> PKeys \cup {Nil}]
    /\ new_u \in [Handlers -> UKeys \cup {Keep, Nil}]
    /\ op_id \in [Handlers -> OpIds \cup {Nil}]
    /\ todo \in [Handlers -> SUBSET (RecIds \cup KeyIds)]

Init ==
    /\ rec = [r \in RecIds |-> Nil]
    /\ col = [r \in RecIds |-> Nil]
    /\ idx = [k \in KeyIds |-> Nil]
    /\ record_mutex = Nil
    /\ oplog = [o \in OpIds |-> Nil]
    /\ pc = [h \in Handlers |-> "idle"]
    /\ record_id = [h \in Handlers |-> Nil]
    /\ key_id = [h \in Handlers |-> Nil]
    /\ del_key_id = [h \in Handlers |-> Nil]
    /\ new_pk = [h \in Handlers |-> Nil]
    /\ new_u = [h \in Handlers |-> Nil]
    /\ op_id = [h \in Handlers |-> Nil]
    /\ todo = [h \in Handlers |-> {}]

-----------------------------------------------------------------------------
(* Groonga tables and columns, as far as the handler relies on them.        *)

\* The key u is in the index table, under the id k.
HasKey(k, u) == idx[k] = u

\* grn_table_add of a key that is absent: it gets an id that is free, which
\* may be one that a deleted key had.
AddKey(u, k) ==
    /\ \A j \in KeyIds : idx[j] # u
    /\ idx[k] = Nil
    /\ idx' = [idx EXCEPT ![k] = u]

\* grn_table_delete_by_id on the index table; a missing id is no change.
DeleteKey(k) ==
    idx' = IF k = Nil THEN idx ELSE [idx EXCEPT ![k] = Nil]

\* grn_table_delete_by_id on the record table also resets the columns.  It
\* refuses an id that has no record.
DeleteRecord(r) ==
    /\ rec' = [rec EXCEPT ![r] = Nil]
    /\ col' = [col EXCEPT ![r] = Nil]

\* grn_obj_set_value on the UNIQUE column.  The index column is hooked to it:
\* a key that is not in the index table is added.
SetColumn(r, u) ==
    /\ col' = [col EXCEPT ![r] = u]
    /\ \/ /\ \E k \in KeyIds : HasKey(k, u)
          /\ UNCHANGED idx
       \/ \E k \in KeyIds : AddKey(u, k)

-----------------------------------------------------------------------------
(* lib/mrn_operations.cpp and lib/mrn_operation.cpp                         *)

\* Operation::Operation calls Operations::start.
StartOperation(h, type) ==
    IF Recording
    THEN \E o \in OpIds :
           /\ oplog[o] = Nil
           /\ oplog' = [oplog EXCEPT ![o] = [type |-> type, record |-> Nil]]
           /\ op_id' = [op_id EXCEPT ![h] = o]
    ELSE UNCHANGED log

\* Operation::record_target calls Operations::record_target.
RecordTarget(h, r) ==
    /\ oplog' = IF op_id[h] = Nil \/ oplog[op_id[h]] = Nil THEN oplog
                ELSE [oplog EXCEPT ![op_id[h]] =
                        [type |-> oplog[op_id[h]].type, record |-> r]]
    /\ UNCHANGED op_id

\* Faulty variant: only the statements that succeed finish their Operation.
FinishOnSuccess(h) ==
    /\ oplog' = IF op_id[h] = Nil \/ pc[h] = "done" THEN oplog
                ELSE [oplog EXCEPT ![op_id[h]] = Nil]
    /\ op_id' = [op_id EXCEPT ![h] = Nil]

\* Operation::~Operation calls Operations::finish.
FinishOperation(h) ==
    /\ oplog' = IF op_id[h] = Nil THEN oplog
                ELSE [oplog EXCEPT ![op_id[h]] = Nil]
    /\ op_id' = [op_id EXCEPT ![h] = Nil]

-----------------------------------------------------------------------------
(* Control                                                                  *)

Goto(h, l) == pc' = [pc EXCEPT ![h] = l]

At(h, l) == pc[h] = l

\* mrn::Lock: a constructor that blocks, a destructor that releases on every
\* return.
Acquire(h) == record_mutex = Nil /\ record_mutex' = h
Release(h) == record_mutex = h /\ record_mutex' = Nil

\* TRUNCATE runs under the server's exclusive metadata lock on the table.
ExclusiveFree == \A g \in Handlers : pc[g] \notin {"t_table", "t_index", "t_log"}

\* The record some other session's statement is working on.
Targeted(h, r) == \E g \in Handlers \ {h} : record_id[g] = r

\* A statement's return: ~Operation is the last thing that runs.  The ids
\* and the row buffer are dead from here on (the next statement assigns them
\* before it reads them), so they are reset.
Finish(h) ==
    /\ pc[h] \in {"done", "w_done", "d_done"}
    /\ FinishOperation(h)
    /\ Goto(h, "idle")
    /\ record_id' = [record_id EXCEPT ![h] = Nil]
    /\ key_id' = [key_id EXCEPT ![h] = Nil]
    /\ del_key_id' = [del_key_id EXCEPT ![h] = Nil]
    /\ new_pk' = [new_pk EXCEPT ![h] = Nil]
    /\ new_u' = [new_u EXCEPT ![h] = Nil]
    /\ UNCHANGED <<store, record_mutex, todo>>

-----------------------------------------------------------------------------
(* Faulty variants of actions below, each a bug this code had or could have; *)
(* they confirm that the properties can fail.                                *)

\* The key of the row that is already there is removed on a duplicate.
WriteUniqueDupRemovesKey(h) ==
    /\ At(h, "w_ukey")
    /\ \E k \in KeyIds : HasKey(k, new_u[h]) /\ DeleteKey(k)
    /\ Release(h)
    /\ Goto(h, "done")
    /\ UNCHANGED <<rec, col, log, ids, buffer, todo>>

\* A return that does not release record_mutex.
WriteUniqueDupKeepsMutex(h) ==
    /\ At(h, "w_ukey")
    /\ \E k \in KeyIds : HasKey(k, new_u[h])
    /\ Goto(h, "done")
    /\ UNCHANGED <<store, record_mutex, log, ids, buffer, todo>>

\* The value remains in the index table on a duplicated primary key.
WriteDupUndoKeepsKey(h) ==
    /\ At(h, "w_dup")
    /\ Release(h)
    /\ Goto(h, "done")
    /\ UNCHANGED <<store, log, ids, buffer, todo>>

\* record_target is forgotten.
WriteTargetNotRecorded(h) ==
    /\ At(h, "w_target")
    /\ Release(h)
    /\ Goto(h, "w_cols")
    /\ UNCHANGED <<store, log, ids, buffer, todo>>

\* Any existing key is taken for the record's own one.
UpdateUniqueKeepAnyKey(h) ==
    /\ At(h, "u_ukey")
    /\ new_u[h] = Keep \/ \E k \in KeyIds : HasKey(k, new_u[h])
    /\ key_id' = [key_id EXCEPT ![h] = Nil]
    /\ del_key_id' = [del_key_id EXCEPT ![h] = Nil]
    /\ Release(h)
    /\ Goto(h, "u_cols")
    /\ UNCHANGED <<store, log, record_id, buffer, todo>>

\* The key that stays is not taken off the list of keys to remove.
UpdateUniqueKeepOldKey(h) ==
    /\ At(h, "u_ukey")
    /\ \/ new_u[h] = Keep
       \/ del_key_id[h] # Nil /\ HasKey(del_key_id[h], new_u[h])
    /\ key_id' = [key_id EXCEPT ![h] = Nil]
    /\ Release(h)
    /\ Goto(h, "u_cols")
    /\ UNCHANGED <<store, log, record_id, del_key_id, buffer, todo>>

\* write_set is not consulted.
UpdateColumnsIgnoreWriteSet(h) ==
    /\ At(h, "u_cols") /\ new_pk[h] = rec[record_id[h]]
    /\ col' = [col EXCEPT ![record_id[h]] = new_u[h]]
    /\ Goto(h, "u_rest")
    /\ UNCHANGED <<rec, idx, record_mutex, log, ids, buffer, todo>>

-----------------------------------------------------------------------------
(* storage_write_row                                                        *)

WriteRow(h, p, u) ==
    /\ "write" \in Statements /\ ExclusiveFree
    /\ At(h, "idle")
    /\ StartOperation(h, "write")
    /\ new_pk' = [new_pk EXCEPT ![h] = p]
    /\ new_u' = [new_u EXCEPT ![h] = u]
    /\ Goto(h, "w_args")
    /\ UNCHANGED <<store, record_mutex, ids, todo>>

\* update_auto_increment or the check of the _id column fails.
WriteArgsFail(h) ==
    /\ At(h, "w_args") /\ "args" \in Faults
    /\ Goto(h, "done")
    /\ UNCHANGED <<store, record_mutex, log, ids, buffer, todo>>

WriteLock(h) ==
    /\ At(h, "w_args")
    /\ Acquire(h)
    /\ Goto(h, "w_ukey")
    /\ UNCHANGED <<store, log, ids, buffer, todo>>

\* storage_write_row_unique_index: the key is added, or it is there already
\* (HA_ERR_FOUND_DUPP_KEY), or grn_table_add fails.
WriteUniqueAdd(h) ==
    /\ At(h, "w_ukey")
    /\ \E k \in KeyIds :
         /\ AddKey(new_u[h], k)
         /\ key_id' = [key_id EXCEPT ![h] = k]
    /\ Goto(h, "w_pkey")
    /\ UNCHANGED <<rec, col, record_mutex, log, record_id, del_key_id, buffer, todo>>

WriteUniqueDup(h) ==
    /\ At(h, "w_ukey")
    /\ \E k \in KeyIds : HasKey(k, new_u[h])
    /\ Release(h)
    /\ Goto(h, "done")
    /\ UNCHANGED <<store, log, ids, buffer, todo>>

WriteUniqueFail(h) ==
    /\ At(h, "w_ukey") /\ "index_add" \in Faults
    /\ Release(h)
    /\ Goto(h, "done")
    /\ UNCHANGED <<store, log, ids, buffer, todo>>

\* grn_table_add on the record table; the columns of a reused id are not
\* touched.
WriteRecordAdd(h) ==
    /\ At(h, "w_pkey") /\ new_pk[h] # EmptyPk
    /\ \A r \in RecIds : rec[r] # new_pk[h]
    /\ \E r \in RecIds :
         /\ rec[r] = Nil
         /\ rec' = [rec EXCEPT ![r] = new_pk[h]]
         /\ record_id' = [record_id EXCEPT ![h] = r]
    /\ Goto(h, "w_target")
    /\ UNCHANGED <<col, idx, record_mutex, log, key_id, del_key_id, buffer, todo>>

WriteRecordDup(h) ==
    /\ At(h, "w_pkey") /\ new_pk[h] # EmptyPk
    /\ \E r \in RecIds : rec[r] = new_pk[h]
    /\ Goto(h, "w_dup")
    /\ UNCHANGED <<store, record_mutex, log, ids, buffer, todo>>

\* "primary key is empty", and a failing grn_table_add: both return at once.
WriteRecordFail(h) ==
    /\ At(h, "w_pkey")
    /\ new_pk[h] = EmptyPk \/ "table_add" \in Faults
    /\ Release(h)
    /\ Goto(h, "done")
    /\ UNCHANGED <<store, log, ids, buffer, todo>>

\* The primary key is a duplicate: the UNIQUE key is taken back.
WriteDupUndo(h) ==
    /\ At(h, "w_dup")
    /\ DeleteKey(key_id[h])
    /\ Release(h)
    /\ Goto(h, "done")
    /\ UNCHANGED <<rec, col, log, ids, buffer, todo>>

WriteTarget(h) ==
    /\ At(h, "w_target")
    /\ RecordTarget(h, record_id[h])
    /\ Release(h)
    /\ Goto(h, "w_cols")
    /\ UNCHANGED <<store, ids, buffer, todo>>

WriteColumns(h) ==
    /\ At(h, "w_cols")
    /\ SetColumn(record_id[h], new_u[h])
    /\ Goto(h, "w_rest")
    /\ UNCHANGED <<rec, record_mutex, log, ids, buffer, todo>>

WriteColumnsFail(h) ==
    /\ At(h, "w_cols") /\ "set_value" \in Faults
    /\ Goto(h, "w_err_key")
    /\ UNCHANGED <<store, record_mutex, log, ids, buffer, todo>>

\* The other columns and storage_write_row_multiple_column_indexes.
WriteRest(h) ==
    /\ At(h, "w_rest")
    /\ \/ Goto(h, "w_done")
       \/ "late_write" \in Faults /\ Goto(h, "w_err_key")
    /\ UNCHANGED <<store, record_mutex, log, ids, buffer, todo>>

WriteErrKey(h) ==
    /\ At(h, "w_err_key")
    /\ DeleteKey(key_id[h])
    /\ Goto(h, "w_err_rec")
    /\ UNCHANGED <<rec, col, record_mutex, log, ids, buffer, todo>>

WriteErrRecord(h) ==
    /\ At(h, "w_err_rec")
    /\ DeleteRecord(record_id[h])
    /\ Goto(h, "done")
    /\ UNCHANGED <<idx, record_mutex, log, ids, buffer, todo>>

-----------------------------------------------------------------------------
(* A scan or an index read positions the handler on a record; the statement *)
(* that uses the position runs later.                                       *)

ReadRow(h, r) ==
    /\ Statements \cap {"update", "delete"} # {} /\ ExclusiveFree
    /\ At(h, "idle") /\ rec[r] # Nil
    /\ SharedTargets \/ ~Targeted(h, r)
    /\ record_id' = [record_id EXCEPT ![h] = r]
    /\ Goto(h, "row")
    /\ UNCHANGED <<store, record_mutex, log, key_id, del_key_id, buffer, todo>>

-----------------------------------------------------------------------------
(* storage_update_row                                                       *)

UpdateRow(h, p, u) ==
    /\ "update" \in Statements
    /\ At(h, "row")
    /\ StartOperation(h, "update")
    /\ new_pk' = [new_pk EXCEPT ![h] = p]
    /\ new_u' = [new_u EXCEPT ![h] = u]
    /\ Goto(h, "u_target")
    /\ UNCHANGED <<store, record_mutex, ids, todo>>

UpdateTarget(h) ==
    /\ At(h, "u_target")
    /\ RecordTarget(h, record_id[h])
    /\ Goto(h, "u_args")
    /\ UNCHANGED <<store, record_mutex, ids, buffer, todo>>

\* The _id column in strict mode, or a foreign record that does not exist.
UpdateArgsFail(h) ==
    /\ At(h, "u_args") /\ "args" \in Faults
    /\ Goto(h, "done")
    /\ UNCHANGED <<store, record_mutex, log, ids, buffer, todo>>

UpdateLock(h) ==
    /\ At(h, "u_args")
    /\ Acquire(h)
    /\ Goto(h, "u_prep")
    /\ UNCHANGED <<store, log, ids, buffer, todo>>

\* storage_prepare_delete_row_unique_index: the id of the key the record's
\* column holds now.
PrepareDeleteKey(h) ==
    \/ \E k \in KeyIds :
         /\ col[record_id[h]] # Nil /\ HasKey(k, col[record_id[h]])
         /\ del_key_id' = [del_key_id EXCEPT ![h] = k]
    \/ /\ col[record_id[h]] = Nil \/ \A k \in KeyIds : ~HasKey(k, col[record_id[h]])
       /\ del_key_id' = [del_key_id EXCEPT ![h] = Nil]

UpdatePrepare(h) ==
    /\ At(h, "u_prep")
    /\ PrepareDeleteKey(h)
    /\ Goto(h, "u_ukey")
    /\ UNCHANGED <<store, record_mutex, log, record_id, key_id, buffer, todo>>

\* storage_update_row_unique_indexes, the key is new.
UpdateUniqueAdd(h) ==
    /\ At(h, "u_ukey") /\ new_u[h] # Keep
    /\ \E k \in KeyIds :
         /\ AddKey(new_u[h], k)
         /\ key_id' = [key_id EXCEPT ![h] = k]
    /\ Release(h)
    /\ Goto(h, "u_cols")
    /\ UNCHANGED <<rec, col, log, record_id, del_key_id, buffer, todo>>

\* The column is not written, or it is written with the value it has.
UpdateUniqueKeep(h) ==
    /\ At(h, "u_ukey")
    /\ \/ new_u[h] = Keep
       \/ del_key_id[h] # Nil /\ HasKey(del_key_id[h], new_u[h])
    /\ key_id' = [key_id EXCEPT ![h] = Nil]
    /\ del_key_id' = [del_key_id EXCEPT ![h] = Nil]
    /\ Release(h)
    /\ Goto(h, "u_cols")
    /\ UNCHANGED <<store, log, record_id, buffer, todo>>

UpdateUniqueDup(h) ==
    /\ At(h, "u_ukey") /\ new_u[h] # Keep
    /\ \E k \in KeyIds \ {del_key_id[h]} : HasKey(k, new_u[h])
    /\ Release(h)
    /\ Goto(h, "done")
    /\ UNCHANGED <<store, log, ids, buffer, todo>>

UpdateUniqueFail(h) ==
    /\ At(h, "u_ukey") /\ new_u[h] # Keep /\ "index_add" \in Faults
    /\ Release(h)
    /\ Goto(h, "done")
    /\ UNCHANGED <<store, log, ids, buffer, todo>>

UpdateColumns(h) ==
    /\ At(h, "u_cols") /\ new_pk[h] = rec[record_id[h]]
    /\ IF new_u[h] = Keep THEN UNCHANGED <<col, idx>>
                          ELSE SetColumn(record_id[h], new_u[h])
    /\ Goto(h, "u_rest")
    /\ UNCHANGED <<rec, record_mutex, log, ids, buffer, todo>>

\* The primary key would change, or a column write fails.
UpdateColumnsFail(h) ==
    /\ At(h, "u_cols")
    /\ new_pk[h] # rec[record_id[h]] \/ "set_value" \in Faults
    /\ Goto(h, "u_err")
    /\ UNCHANGED <<store, record_mutex, log, ids, buffer, todo>>

\* The other columns and storage_update_row_index.
UpdateRest(h) ==
    /\ At(h, "u_rest")
    /\ \/ Goto(h, "u_del_key")
       \/ "late_update" \in Faults /\ Goto(h, "u_err")
    /\ UNCHANGED <<store, record_mutex, log, ids, buffer, todo>>

\* storage_delete_row_unique_indexes, outside of record_mutex.
UpdateDeleteKey(h) ==
    /\ At(h, "u_del_key")
    /\ DeleteKey(del_key_id[h])
    /\ Goto(h, "done")
    /\ UNCHANGED <<rec, col, record_mutex, log, ids, buffer, todo>>

UpdateErr(h) ==
    /\ At(h, "u_err")
    /\ DeleteKey(key_id[h])
    /\ Goto(h, "done")
    /\ UNCHANGED <<rec, col, record_mutex, log, ids, buffer, todo>>

-----------------------------------------------------------------------------
(* storage_delete_row                                                       *)

DeleteRow(h) ==
    /\ "delete" \in Statements
    /\ At(h, "row")
    /\ StartOperation(h, "delete")
    /\ Goto(h, "d_target")
    /\ UNCHANGED <<store, record_mutex, ids, buffer, todo>>

DeleteTarget(h) ==
    /\ At(h, "d_target")
    /\ RecordTarget(h, record_id[h])
    /\ Goto(h, "d_args")
    /\ UNCHANGED <<store, record_mutex, ids, buffer, todo>>

\* Child rows exist: HA_ERR_ROW_IS_REFERENCED.
DeleteArgsFail(h) ==
    /\ At(h, "d_args") /\ "args" \in Faults
    /\ Goto(h, "done")
    /\ UNCHANGED <<store, record_mutex, log, ids, buffer, todo>>

DeleteLock(h) ==
    /\ At(h, "d_args")
    /\ Acquire(h)
    /\ Goto(h, "d_prep")
    /\ UNCHANGED <<store, log, ids, buffer, todo>>

DeletePrepare(h) ==
    /\ At(h, "d_prep")
    /\ PrepareDeleteKey(h)
    /\ Goto(h, "d_rec")
    /\ UNCHANGED <<store, record_mutex, log, record_id, key_id, buffer, todo>>

DeleteRecordStep(h) ==
    /\ At(h, "d_rec") /\ rec[record_id[h]] # Nil
    /\ DeleteRecord(record_id[h])
    /\ Goto(h, "d_index")
    /\ UNCHANGED <<idx, record_mutex, log, ids, buffer, todo>>

\* Groonga refuses: the record is gone already, or the deletion fails.
DeleteRecordFail(h) ==
    /\ At(h, "d_rec")
    /\ rec[record_id[h]] = Nil \/ "table_delete" \in Faults
    /\ Release(h)
    /\ Goto(h, "done")
    /\ UNCHANGED <<store, log, ids, buffer, todo>>

\* storage_delete_row_index: a failure skips the UNIQUE key.
DeleteIndex(h) ==
    /\ At(h, "d_index")
    /\ \/ Goto(h, "d_key") /\ UNCHANGED record_mutex
       \/ "index_update" \in Faults /\ Goto(h, "d_done") /\ Release(h)
    /\ UNCHANGED <<store, log, ids, buffer, todo>>

DeleteKeyStep(h) ==
    /\ At(h, "d_key")
    /\ DeleteKey(del_key_id[h])
    /\ Release(h)
    /\ Goto(h, "d_done")
    /\ UNCHANGED <<rec, col, log, ids, buffer, todo>>

-----------------------------------------------------------------------------
(* storage_delete_all_rows: a cursor over the records, then a cursor over   *)
(* the keys of the index table.  Neither takes record_mutex, and nothing is *)
(* recorded in the operations log.                                          *)

DeleteAllRows(h) ==
    /\ "delete_all" \in Statements /\ ExclusiveFree
    /\ At(h, "idle")
    /\ todo' = [todo EXCEPT ![h] = RecIds]
    /\ Goto(h, "a_recs")
    /\ UNCHANGED <<store, record_mutex, log, ids, buffer>>

DeleteAllRecord(h, r) ==
    /\ At(h, "a_recs") /\ r \in todo[h]
    /\ DeleteRecord(r)
    /\ todo' = [todo EXCEPT ![h] = @ \ {r}]
    /\ UNCHANGED <<idx, pc, record_mutex, log, ids, buffer>>

DeleteAllOpenIndex(h) ==
    /\ At(h, "a_recs") /\ todo[h] = {}
    /\ todo' = [todo EXCEPT ![h] = KeyIds]
    /\ Goto(h, "a_keys")
    /\ UNCHANGED <<store, record_mutex, log, ids, buffer>>

DeleteAllKey(h, k) ==
    /\ At(h, "a_keys") /\ k \in todo[h]
    /\ DeleteKey(k)
    /\ todo' = [todo EXCEPT ![h] = @ \ {k}]
    /\ UNCHANGED <<rec, col, pc, record_mutex, log, ids, buffer>>

DeleteAllDone(h) ==
    /\ At(h, "a_keys") /\ todo[h] = {}
    /\ Goto(h, "done")
    /\ UNCHANGED <<store, record_mutex, log, ids, buffer, todo>>

-----------------------------------------------------------------------------
(* truncate and storage_truncate, under the exclusive metadata lock         *)

Truncate(h) ==
    /\ "truncate" \in Statements
    /\ \A g \in Handlers : At(g, "idle")
    /\ Goto(h, "t_table")
    /\ UNCHANGED <<store, record_mutex, log, ids, buffer, todo>>

TruncateTable(h) ==
    /\ At(h, "t_table")
    /\ \/ /\ rec' = [r \in RecIds |-> Nil]
          /\ col' = [r \in RecIds |-> Nil]
          /\ Goto(h, "t_index")
       \/ "truncate" \in Faults /\ Goto(h, "done") /\ UNCHANGED <<rec, col>>
    /\ UNCHANGED <<idx, record_mutex, log, ids, buffer, todo>>

TruncateIndex(h) ==
    /\ At(h, "t_index")
    /\ \/ idx' = [k \in KeyIds |-> Nil] /\ Goto(h, "t_log")
       \/ "truncate" \in Faults /\ Goto(h, "done") /\ UNCHANGED idx
    /\ UNCHANGED <<rec, col, record_mutex, log, ids, buffer, todo>>

\* Operations::clear
TruncateLog(h) ==
    /\ At(h, "t_log")
    /\ oplog' = [o \in OpIds |-> Nil]
    /\ Goto(h, "done")
    /\ UNCHANGED <<store, record_mutex, op_id, ids, buffer, todo>>

-----------------------------------------------------------------------------
(* Specification                                                            *)

WriteStep(h) ==
    \/ WriteArgsFail(h) \/ WriteLock(h)
    \/ WriteUniqueAdd(h) \/ WriteUniqueDup(h) \/ WriteUniqueFail(h)
    \/ WriteRecordAdd(h) \/ WriteRecordDup(h) \/ WriteRecordFail(h)
    \/ WriteDupUndo(h) \/ WriteTarget(h)
    \/ WriteColumns(h) \/ WriteColumnsFail(h) \/ WriteRest(h)
    \/ WriteErrKey(h) \/ WriteErrRecord(h)

UpdateStep(h) ==
    \/ UpdateTarget(h) \/ UpdateArgsFail(h) \/ UpdateLock(h)
    \/ UpdatePrepare(h)
    \/ UpdateUniqueAdd(h) \/ UpdateUniqueKeep(h)
    \/ UpdateUniqueDup(h) \/ UpdateUniqueFail(h)
    \/ UpdateColumns(h) \/ UpdateColumnsFail(h) \/ UpdateRest(h)
    \/ UpdateDeleteKey(h) \/ UpdateErr(h)

DeleteStep(h) ==
    \/ DeleteTarget(h) \/ DeleteArgsFail(h) \/ DeleteLock(h)
    \/ DeletePrepare(h)
    \/ DeleteRecordStep(h) \/ DeleteRecordFail(h)
    \/ DeleteIndex(h) \/ DeleteKeyStep(h)

DeleteAllStep(h) ==
    \/ \E r \in RecIds : DeleteAllRecord(h, r)
    \/ DeleteAllOpenIndex(h)
    \/ \E k \in KeyIds : DeleteAllKey(h, k)
    \/ DeleteAllDone(h)

TruncateStep(h) == TruncateTable(h) \/ TruncateIndex(h) \/ TruncateLog(h)

\* A call of the server that starts a statement.
Begin(h) ==
    \/ \E p \in PKeys, u \in UKeys : WriteRow(h, p, u)
    \/ \E r \in RecIds : ReadRow(h, r)
    \/ \E p \in PKeys, u \in UKeys \cup {Keep} : UpdateRow(h, p, u)
    \/ DeleteRow(h)
    \/ DeleteAllRows(h)
    \/ Truncate(h)

\* What the code does once the server has called it.
Run(h) ==
    \/ WriteStep(h) \/ UpdateStep(h) \/ DeleteStep(h)
    \/ DeleteAllStep(h) \/ TruncateStep(h) \/ Finish(h)

Next == \E h \in Handlers : Begin(h) \/ Run(h)

Spec == Init /\ [][Next]_vars

\* A thread inside a handler call is scheduled: it only stops at a mutex.
FairSpec == Spec /\ \A h \in Handlers : WF_vars(Run(h))

-----------------------------------------------------------------------------
(* Properties                                                               *)

Live(r) == rec[r] # Nil

\* The record of an INSERT that failed after it had written columns, between
\* the removal of its key and its own removal.
Aborted(r) == \E h \in Handlers : pc[h] = "w_err_rec" /\ record_id[h] = r

\* UNIQUE means unique: no two records hold the same value of the UNIQUE
\* column, whatever the statements in flight are doing (the record that
\* storage_write_row's error path is about to remove excepted).
UniqueKey ==
    \A r1, r2 \in RecIds :
        /\ r1 # r2
        /\ Live(r1) /\ ~Aborted(r1)
        /\ Live(r2) /\ ~Aborted(r2)
        /\ col[r1] # Nil
        => col[r1] # col[r2]

\* Every stored value of the UNIQUE column has its key in the index table:
\* otherwise a later INSERT of the same value passes the duplicate check of
\* storage_write_row_unique_index.
RowHasKey ==
    \A r \in RecIds :
        Live(r) /\ ~Aborted(r) /\ col[r] # Nil
        => \E k \in KeyIds : idx[k] = col[r]

\* Labels at which a statement has keys of the index table that it will
\* either hand to its record or remove.
KeyHolding ==
    { "w_pkey", "w_dup", "w_target", "w_cols", "w_err_key",
      "u_cols", "u_err", "u_rest", "u_del_key", "d_index", "d_key" }

\* A key stays in the index table only while a record has its value or a
\* statement in flight owns it: otherwise an INSERT of that value is refused
\* as a duplicate although no row has it.
NoOrphanKey ==
    \A k \in KeyIds :
        idx[k] # Nil /\ ExclusiveFree
        => \/ \E r \in RecIds : Live(r) /\ col[r] = idx[k]
           \/ \E h \in Handlers :
                pc[h] \in KeyHolding /\ k \in {key_id[h], del_key_id[h]}

\* Labels at which a crash leaves the record or its key half changed.
Changing ==
    { "w_cols", "w_rest", "w_err_key", "w_err_rec",
      "u_args", "u_prep", "u_ukey", "u_cols", "u_rest", "u_del_key", "u_err",
      "d_args", "d_prep", "d_rec", "d_index", "d_key" }

\* While a statement may leave its record half changed, the operations log
\* names that record, under the statement's own entry: what auto repair
\* needs after a crash.
ChangeIsLogged ==
    \A h \in Handlers :
        Recording /\ pc[h] \in Changing
        => /\ op_id[h] # Nil
           /\ oplog[op_id[h]] # Nil
           /\ oplog[op_id[h]].record = record_id[h]
           /\ \A g \in Handlers \ {h} : op_id[g] # op_id[h]

\* The operations log has no entry but those of the statements in flight:
\* every return of every statement, the failing ones too, finishes its
\* Operation, so a clean shutdown leaves an empty log.
LogIsLive ==
    \A o \in OpIds : oplog[o] # Nil => \E h \in Handlers : op_id[h] = o

\* record_mutex is released on every path out of the code it protects.
MutexReleased == \A h \in Handlers : record_mutex = h ~> record_mutex # h

=============================================================================
