--------------------------- MODULE CrashRecovery ---------------------------
(***************************************************************************)
(* Crash of the server and automatic repair of a storage mode table.       *)
(*                                                                         *)
(* Groonga's objects are memory mapped files: what a Groonga call wrote    *)
(* survives a crash of the process, everything else is lost.  The next     *)
(* Database object collects the tables named in the operations log         *)
(* (Database::Database); the first handler that opens such a table undoes  *)
(* the interrupted statements (Operations::repair) and rebuilds the        *)
(* indexes (storage_reindex), under mrn_operations_mutex.  storage_open    *)
(* succeeds even when the repair fails, and row operations do not take     *)
(* mrn_operations_mutex.                                                   *)
(***************************************************************************)
EXTENDS StorageRows

CONSTANT MaxCrashes   \* bound on the number of crashes

ASSUME MaxCrashesAssumption == MaxCrashes \in Nat

VARIABLES
    opening,          \* each handler's progress in storage_open
    operations_mutex, \* mrn_operations_mutex: its holder, or Nil
    broken,           \* broken_table_names_ of the Database has the table
    ahead,            \* operations the cursor of Operations::repair has ahead
    current,          \* the operation whose record repair has just deleted
    repair_failed,    \* history: a repair by this process has failed
    crashes,          \* number of crashes so far
    committed         \* history: records whose INSERT has returned success
                      \* and that no statement has deleted since

repair == <<opening, operations_mutex, broken, ahead, current, repair_failed>>
rvars  == <<vars, repair, crashes, committed>>

OpenLabels == {"closed", "repair", "forget", "reindex", "fill", "open"}

RecoveryTypeOK ==
    /\ TypeOK
    /\ opening \in [Handlers -> OpenLabels]
    /\ operations_mutex \in Handlers \cup {Nil}
    /\ broken \in BOOLEAN
    /\ ahead \subseteq OpIds
    /\ current \in OpIds \cup {Nil}
    /\ repair_failed \in BOOLEAN
    /\ crashes \in 0 .. MaxCrashes
    /\ committed \subseteq RecIds

RecoveryInit ==
    /\ Init
    /\ opening = [h \in Handlers |-> "closed"]
    /\ operations_mutex = Nil
    /\ broken = FALSE
    /\ ahead = {}
    /\ current = Nil
    /\ repair_failed = FALSE
    /\ crashes = 0
    /\ committed = {}

-----------------------------------------------------------------------------

\* The record of a DELETE that has not returned and has not deleted it yet:
\* after a crash it may be gone or not.
BeingDeleted(r) ==
    \E h \in Handlers :
        /\ record_id[h] = r
        /\ pc[h] \in {"d_target", "d_args", "d_prep", "d_rec", "done"}

\* The process dies and is started again; Database::Database reads the log.
Crash ==
    /\ crashes < MaxCrashes
    /\ crashes' = crashes + 1
    /\ record_mutex' = Nil
    /\ pc' = [h \in Handlers |-> "idle"]
    /\ record_id' = [h \in Handlers |-> Nil]
    /\ key_id' = [h \in Handlers |-> Nil]
    /\ del_key_id' = [h \in Handlers |-> Nil]
    /\ new_pk' = [h \in Handlers |-> Nil]
    /\ new_u' = [h \in Handlers |-> Nil]
    /\ op_id' = [h \in Handlers |-> Nil]
    /\ todo' = [h \in Handlers |-> {}]
    /\ opening' = [h \in Handlers |-> "closed"]
    /\ operations_mutex' = Nil
    /\ ahead' = {}
    /\ current' = Nil
    /\ broken' = \E o \in OpIds : oplog[o] # Nil
    /\ repair_failed' = FALSE
    /\ committed' = {r \in committed : ~BeingDeleted(r)}
    /\ UNCHANGED <<store, oplog>>

OpenGoto(h, l) == opening' = [opening EXCEPT ![h] = l]

\* Faulty variant: broken_table_names_ is read without mrn_operations_mutex.
OpenCleanUnlocked(h) ==
    /\ opening[h] = "closed" /\ ExclusiveFree
    /\ ~broken
    /\ OpenGoto(h, "open")
    /\ UNCHANGED <<vars, operations_mutex, broken, ahead, current, repair_failed, crashes, committed>>

\* Faulty variant: no storage_reindex after the repair.
RepairDoneNoReindex(h) ==
    /\ opening[h] = "repair"
    /\ \A o \in ahead : oplog[o] = Nil
    /\ broken' = FALSE
    /\ ahead' = {}
    /\ operations_mutex' = Nil
    /\ OpenGoto(h, "open")
    /\ UNCHANGED <<vars, current, repair_failed, crashes, committed>>

\* Faulty variant: the wrong column is indexed.
ReindexFillWrongColumn(h) ==
    /\ opening[h] = "fill"
    /\ \E f \in [KeyIds -> {rec[r] : r \in RecIds}] : idx' = f
    /\ operations_mutex' = Nil
    /\ OpenGoto(h, "open")
    /\ UNCHANGED <<rec, col, record_mutex, pc, ids, buffer, log, todo,
                   broken, ahead, current, repair_failed, crashes, committed>>

\* storage_open of a table that is not in broken_table_names_.
OpenClean(h) ==
    /\ opening[h] = "closed" /\ operations_mutex = Nil /\ ExclusiveFree
    /\ ~broken
    /\ OpenGoto(h, "open")
    /\ UNCHANGED <<vars, operations_mutex, broken, ahead, current, repair_failed, crashes, committed>>

\* storage_open of a broken table: Operations::repair opens its cursor.
OpenBroken(h) ==
    /\ opening[h] = "closed" /\ operations_mutex = Nil /\ ExclusiveFree
    /\ broken
    /\ operations_mutex' = h
    /\ ahead' = OpIds
    /\ OpenGoto(h, "repair")
    /\ UNCHANGED <<vars, broken, current, repair_failed, crashes, committed>>

\* The operation has no record yet: only the entry is deleted.
RepairNoRecord(h, o) ==
    /\ opening[h] = "repair" /\ o \in ahead
    /\ oplog[o] # Nil /\ oplog[o].record = Nil
    /\ oplog' = [oplog EXCEPT ![o] = Nil]
    /\ ahead' = ahead \ {o}
    /\ UNCHANGED <<store, record_mutex, pc, ids, buffer, op_id, todo,
                   opening, operations_mutex, broken, current, repair_failed, crashes, committed>>

\* "write" and "delete": the record is deleted, then the entry.
RepairRecord(h, o) ==
    /\ opening[h] = "repair" /\ o \in ahead
    /\ oplog[o] # Nil /\ oplog[o].record # Nil
    /\ oplog[o].type \in {"write", "delete"}
    /\ rec[oplog[o].record] # Nil
    /\ DeleteRecord(oplog[o].record)
    /\ current' = o
    /\ OpenGoto(h, "forget")
    /\ UNCHANGED <<idx, record_mutex, pc, ids, buffer, log, todo,
                   operations_mutex, broken, ahead, repair_failed, crashes, committed>>

RepairForget(h) ==
    /\ opening[h] = "forget"
    /\ oplog' = [oplog EXCEPT ![current] = Nil]
    /\ ahead' = ahead \ {current}
    /\ current' = Nil
    /\ OpenGoto(h, "repair")
    /\ UNCHANGED <<store, record_mutex, pc, ids, buffer, op_id, todo,
                   operations_mutex, broken, repair_failed, crashes, committed>>

\* "update", or a record Groonga cannot delete: HA_ERR_CRASHED_ON_USAGE ends
\* the loop.  The table stays broken, storage_open returns 0 all the same.
RepairFail(h, o) ==
    /\ opening[h] = "repair" /\ o \in ahead
    /\ oplog[o] # Nil /\ oplog[o].record # Nil
    /\ \/ oplog[o].type = "update"
       \/ rec[oplog[o].record] = Nil
    /\ operations_mutex' = Nil
    /\ ahead' = {}
    /\ repair_failed' = TRUE
    /\ OpenGoto(h, "open")
    /\ UNCHANGED <<vars, broken, current, crashes, committed>>

\* The cursor is exhausted: mark_table_repaired.
RepairDone(h) ==
    /\ opening[h] = "repair"
    /\ \A o \in ahead : oplog[o] = Nil
    /\ broken' = FALSE
    /\ ahead' = {}
    /\ OpenGoto(h, "reindex")
    /\ UNCHANGED <<vars, operations_mutex, current, repair_failed, crashes, committed>>

\* storage_reindex: grn_table_truncate of the index table ...
ReindexTruncate(h) ==
    /\ opening[h] = "reindex"
    /\ idx' = [k \in KeyIds |-> Nil]
    /\ OpenGoto(h, "fill")
    /\ UNCHANGED <<rec, col, record_mutex, pc, ids, buffer, log, todo,
                   operations_mutex, broken, ahead, current, repair_failed, crashes, committed>>

\* ... and grn_obj_reindex, which adds the value of every record.
ReindexFill(h) ==
    /\ opening[h] = "fill"
    /\ LET values == {col[r] : r \in {q \in RecIds : rec[q] # Nil}} \ {Nil}
       IN  \E f \in [KeyIds -> UKeys \cup {Nil}] :
             /\ {f[k] : k \in KeyIds} \ {Nil} = values
             /\ \A j, k \in KeyIds : f[j] = f[k] /\ f[j] # Nil => j = k
             /\ idx' = f
    /\ operations_mutex' = Nil
    /\ OpenGoto(h, "open")
    /\ UNCHANGED <<rec, col, record_mutex, pc, ids, buffer, log, todo,
                   broken, ahead, current, repair_failed, crashes, committed>>

\* A step of a row statement by a handler that has the table open.
RowStep(h) ==
    /\ opening[h] = "open"
    /\ Begin(h) \/ Run(h)
    /\ committed' =
         (committed \cup {r \in RecIds : /\ pc[h] = "w_done" /\ pc'[h] = "idle"
                                         /\ r = record_id[h]})
           \ {r \in RecIds : rec[r] # Nil /\ rec'[r] = Nil}
    /\ UNCHANGED <<repair, crashes>>

OpenStep(h) ==
    \/ OpenClean(h) \/ OpenBroken(h)
    \/ \E o \in OpIds : RepairNoRecord(h, o) \/ RepairRecord(h, o) \/ RepairFail(h, o)
    \/ RepairForget(h) \/ RepairDone(h)
    \/ ReindexTruncate(h) \/ ReindexFill(h)

RecoveryNext == Crash \/ \E h \in Handlers : OpenStep(h) \/ RowStep(h)

RecoverySpec == RecoveryInit /\ [][RecoveryNext]_rvars

-----------------------------------------------------------------------------
(* Properties                                                               *)

\* The server considers the table sound, and no repair has failed since it
\* was started or is running.
Sound == ~broken /\ operations_mutex = Nil /\ ~repair_failed

\* After a crash in the middle of any statement, once storage_open considers
\* the table repaired the index table and the records agree again: no
\* duplicate, no value without its key, no key without a value.
RepairedIndex == Sound => UniqueKey /\ RowHasKey /\ NoOrphanKey

\* Auto repair works on the interrupted statements of the dead process only:
\* unless an earlier repair has failed, no statement is in flight while one
\* handler repairs and reindexes the table.
RepairIsAlone ==
    operations_mutex # Nil /\ ~repair_failed
    => \A g \in Handlers : pc[g] = "idle" /\ opening[g] # "open"

\* Auto repair removes incomplete records only: a row whose INSERT returned
\* success is there until a statement deletes it.
CommittedSurvives == \A r \in committed : Live(r)

=============================================================================
