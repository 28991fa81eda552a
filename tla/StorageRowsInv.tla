--------------------------- MODULE StorageRowsInv ---------------------------
(***************************************************************************)
(* The inductive invariants of StorageRows.  TypeInv is behind TypeOK and  *)
(* LogInv behind LogIsLive and ChangeIsLogged, whatever the statements and *)
(* the failures; KeyInv is behind UniqueKey, RowHasKey and NoOrphanKey,    *)
(* which the code keeps under the condition Isolated only.                 *)
(***************************************************************************)
EXTENDS StorageRows

\* What the sessions must not do, and what must not fail, for the index
\* table and the records to agree: two sessions never work on one record, no
\* DELETE without condition runs beside other statements, no primary key is
\* empty, and no step fails that the code does not clean up after.
Isolated ==
    /\ ~SharedTargets
    /\ "delete_all" \notin Statements
    /\ EmptyPk \notin PKeys
    /\ Faults \cap {"table_add", "late_update", "index_update", "truncate"} = {}

-----------------------------------------------------------------------------
(* Sets of labels                                                           *)

\* An INSERT before it has a record, and afterwards.
Unplaced == {"w_args", "w_ukey", "w_pkey", "w_dup"}
Placed   == {"w_target", "w_cols", "w_rest", "w_err_key", "w_err_rec"}
Updating == {"u_target", "u_args", "u_prep", "u_ukey", "u_cols", "u_rest",
             "u_del_key", "u_err"}
Deleting == {"d_target", "d_args", "d_prep", "d_rec"}

\* Statements that have no entry in the operations log, and those that do.
Truncating == {"t_table", "t_index", "t_log"}
Clearing   == {"a_recs", "a_keys"}
Logged     == Unplaced \cup Placed \cup Updating \cup Deleting \cup {"d_index", "d_key"}

\* The statement has added no key, and has none to remove.
NoNew == {"idle", "row", "w_args", "w_ukey", "u_target", "u_args", "u_prep",
          "u_ukey", "d_index", "d_key"} \cup Deleting
NoOld == {"idle", "row", "u_target", "u_args", "u_prep", "d_target", "d_args",
          "d_prep"} \cup Unplaced \cup Placed

\* The handler's record is there, and is its own.
Owning == {"row"} \cup Placed \cup Updating \cup Deleting

\* record_mutex is held.
Critical == {"w_ukey", "w_pkey", "w_dup", "w_target", "u_prep", "u_ukey",
             "d_prep", "d_rec", "d_index", "d_key"}

\* key_id is a key the statement has added, unless it is Nil.
HasNew == {"w_pkey", "w_dup", "w_target", "w_cols", "w_rest", "w_err_key",
           "u_cols", "u_rest", "u_del_key", "u_err"}

\* del_key_id is the key of the record's value, unless it is Nil ...
HasOld == {"u_ukey", "u_cols", "u_err", "d_rec"}
\* ... and then a key the record has given up.
HasDropped == {"u_rest", "u_del_key", "d_index", "d_key"}

Holds(h, k) ==
    \/ pc[h] \in HasNew /\ k = key_id[h]
    \/ pc[h] \in HasOld \cup HasDropped /\ k = del_key_id[h]

\* A record that counts: there, and not about to be removed by the error
\* path of its INSERT.
Stands(r) == Live(r) /\ ~Aborted(r)

-----------------------------------------------------------------------------
(* The parts of the invariant                                               *)

\* The row buffer is filled while a statement uses it.
BufferOK ==
    \A h \in Handlers :
        /\ pc[h] \in Unplaced \cup Placed => new_u[h] \in UKeys /\ new_pk[h] \in PKeys
        /\ pc[h] \in Updating => new_u[h] \in UKeys \cup {Keep}

TypeInv == TypeOK /\ BufferOK

\* TRUNCATE is alone: the server's exclusive metadata lock.
AloneOK ==
    \A h \in Handlers :
        pc[h] \in Truncating => \A g \in Handlers \ {h} : pc[g] = "idle"

\* The entry of the operations log that a handler has.
EntryOK ==
    /\ \A h \in Handlers :
         /\ pc[h] \in {"idle", "row"} \cup Truncating \cup Clearing => op_id[h] = Nil
         /\ op_id[h] # Nil => oplog[op_id[h]] # Nil
         /\ Recording /\ pc[h] \in Logged => op_id[h] # Nil
         /\ Recording /\ pc[h] \in Changing => oplog[op_id[h]].record = record_id[h]
    /\ \A g, h \in Handlers : g # h /\ op_id[g] # Nil => op_id[g] # op_id[h]

LogInv == TypeInv /\ AloneOK /\ EntryOK /\ LogIsLive

\* What a handler's ids are at each label; only for statements that Isolated
\* admits.
LabelOK ==
    \A h \in Handlers :
        /\ pc[h] \notin Clearing
        /\ pc[h] \in {"idle"} \cup Unplaced => record_id[h] = Nil
        /\ pc[h] \in NoNew => key_id[h] = Nil
        /\ pc[h] \in NoOld => del_key_id[h] = Nil
        /\ pc[h] \in HasNew /\ key_id[h] = Nil => pc[h] \in Updating /\ del_key_id[h] = Nil
        /\ pc[h] \in HasNew /\ key_id[h] # Nil => new_u[h] \in UKeys

MutexOK == \A h \in Handlers : pc[h] \in Critical => record_mutex = h

\* A handler owns a live record, alone; a record that is not there has no
\* value; TRUNCATE empties the record table before the index table.
TargetOK ==
    /\ \A h \in Handlers : pc[h] = "t_index" => \A r \in RecIds : ~Live(r)
    /\ \A r \in RecIds : rec[r] = Nil => col[r] = Nil
    /\ \A h \in Handlers : pc[h] \in Owning => record_id[h] \in RecIds /\ Live(record_id[h])
    /\ \A g, h \in Handlers :
         g # h /\ pc[g] \in Owning /\ pc[h] \in Owning => record_id[g] # record_id[h]

\* The keys of the index table are distinct, and a key that a statement is
\* to hand over or to remove is held by that statement alone.
KeyOK ==
    /\ \A j, k \in KeyIds : j # k /\ idx[j] # Nil => idx[j] # idx[k]
    /\ \A h \in Handlers : \A k \in KeyIds : Holds(h, k) => idx[k] # Nil
    /\ \A g, h \in Handlers : \A k \in KeyIds : Holds(g, k) /\ Holds(h, k) => g = h
    /\ \A h \in Handlers :
         pc[h] \in HasNew \cap Updating /\ key_id[h] # Nil => key_id[h] # del_key_id[h]

\* An added key belongs to no standing record but the statement's own.
NewKeyOK ==
    \A h \in Handlers :
        pc[h] \in HasNew /\ key_id[h] # Nil
        => /\ idx[key_id[h]] = new_u[h]
           /\ \A r \in RecIds \ {record_id[h]} : Stands(r) => col[r] # new_u[h]
           /\ pc[h] \in {"w_target", "w_cols"} => col[record_id[h]] = Nil
           /\ pc[h] = "w_err_key" => col[record_id[h]] \in {Nil, new_u[h]}
           /\ pc[h] \in {"w_rest", "u_rest", "u_del_key"} => col[record_id[h]] = new_u[h]

\* A statement that has no key to add writes the value that is there.
KeepOK ==
    \A h \in Handlers :
        pc[h] = "u_cols" /\ key_id[h] = Nil /\ new_u[h] # Keep
        => col[record_id[h]] = new_u[h]

\* A key to remove is the one of the record's value, until the record has
\* another value or is gone.
OldKeyOK ==
    \A h \in Handlers :
        /\ pc[h] \in HasOld /\ del_key_id[h] # Nil
             => idx[del_key_id[h]] = col[record_id[h]]
        /\ pc[h] \in {"u_ukey", "d_rec"} /\ del_key_id[h] = Nil
             => col[record_id[h]] = Nil
        /\ pc[h] \in {"u_cols", "u_err"} /\ key_id[h] # Nil /\ del_key_id[h] = Nil
             => col[record_id[h]] = Nil
        /\ pc[h] \in HasDropped /\ del_key_id[h] # Nil
             => \A r \in RecIds : Stands(r) => col[r] # idx[del_key_id[h]]

\* NoOrphanKey, with the records that stand.
Owned(k) ==
    \/ \E r \in RecIds : Stands(r) /\ col[r] = idx[k]
    \/ \E h \in Handlers : pc[h] \in KeyHolding /\ k \in {key_id[h], del_key_id[h]}

OwnedKeyOK ==
    (\A h \in Handlers : pc[h] \notin {"t_table", "t_index"})
    => \A k \in KeyIds : idx[k] # Nil => Owned(k)

KeyInv ==
    /\ TypeInv /\ AloneOK /\ LabelOK /\ MutexOK /\ TargetOK /\ KeyOK
    /\ NewKeyOK /\ KeepOK /\ OldKeyOK /\ UniqueKey /\ RowHasKey /\ OwnedKeyOK

=============================================================================
