---------------------------- MODULE TableShares ----------------------------
(***************************************************************************)
(* What the sessions share while they open, create, rename, drop and close *)
(* the tables of one database: the registry of open tables (MRN_SHARE and  *)
(* its use_count, mrn_table.cpp), the registry of long term shares, and    *)
(* the Database object that mrn::DatabaseManager caches.                   *)
(*                                                                         *)
(* Each registry has a mutex of its own, and a call takes them one after   *)
(* the other.  FLUSH TABLES closes the Database once no table is open;     *)
(* nothing else counts the users of a Database.  A SQL function opens the  *)
(* Database without opening a table; so does DROP TABLE.                   *)
(***************************************************************************)
EXTENDS Naturals, FiniteSets

CONSTANTS
    Sessions,   \* sessions; each has one handler object at a time
    Tables,     \* table names
    Shares,     \* MRN_SHARE objects
    LongTerms,  \* MRN_LONG_TERM_SHARE objects
    Databases,  \* mrn::Database objects
    Nil,        \* no object
    Locked      \* does mroonga_operations have a lock that a crash left?

ASSUME SharesAssumption ==
    /\ Nil \notin Sessions \cup Tables \cup Shares \cup LongTerms \cup Databases
    /\ IsFiniteSet(Sessions)
    /\ Locked \in BOOLEAN

VARIABLES
    open_tables,      \* mrn_open_tables: table -> share, or Nil
    use_count,        \* use_count of each share
    long_term_share,  \* long_term_share of each share
    long_term_shares, \* mrn_long_term_shares: table -> long term share, or Nil
    cache,            \* cache_ of the DatabaseManager: the Database, or Nil
    tables,           \* tables that exist
    pc,               \* what each session is doing
    name,             \* the table it works on
    to,               \* the new name of a RENAME
    share,            \* the share it holds, or Nil
    db                \* the Database its grn_ctx uses, or Nil

registry == <<open_tables, use_count, long_term_share, long_term_shares>>
mine     == <<pc, name, to, share, db>>
vars     == <<open_tables, use_count, long_term_share, long_term_shares, cache,
              tables, pc, name, to, share, db>>

Labels ==
    { "idle", "open_db", "open_columns", "open", "close", "flush",
      "create_db", "create_objects", "create_undo", "create_end",
      "drop_long", "drop_free", "drop_db", "drop_objects",
      "rename_db", "rename_to", "rename_objects", "rename_undo", "rename_long",
      "rename_end", "command" }

SharesTypeOK ==
    /\ open_tables \in [Tables -> Shares \cup {Nil}]
    /\ use_count \in [Shares -> Nat]
    /\ long_term_share \in [Shares -> LongTerms \cup {Nil}]
    /\ long_term_shares \in [Tables -> LongTerms \cup {Nil}]
    /\ cache \in Databases \cup {Nil}
    /\ tables \subseteq Tables
    /\ pc \in [Sessions -> Labels]
    /\ name \in [Sessions -> Tables \cup {Nil}]
    /\ to \in [Sessions -> Tables \cup {Nil}]
    /\ share \in [Sessions -> Shares \cup {Nil}]
    /\ db \in [Sessions -> Databases \cup {Nil}]

SharesInit ==
    /\ open_tables = [t \in Tables |-> Nil]
    /\ use_count = [x \in Shares |-> 0]
    /\ long_term_share = [x \in Shares |-> Nil]
    /\ long_term_shares = [t \in Tables |-> Nil]
    /\ cache = Nil
    /\ tables \in SUBSET Tables
    /\ pc = [s \in Sessions |-> "idle"]
    /\ name = [s \in Sessions |-> Nil]
    /\ to = [s \in Sessions |-> Nil]
    /\ share = [s \in Sessions |-> Nil]
    /\ db = [s \in Sessions |-> Nil]

-----------------------------------------------------------------------------
(* The server's metadata locks, and control                                 *)

\* The statements that have an exclusive lock on their tables.
Exclusive ==
    { "create_db", "create_objects", "create_undo", "create_end",
      "drop_long", "drop_free", "drop_db", "drop_objects",
      "rename_db", "rename_to", "rename_objects", "rename_undo", "rename_long",
      "rename_end" }

Uses(s, t) == t \in {name[s], to[s]}

\* The table may be opened, and may be created, renamed or dropped.
SharedFree(t) == \A s \in Sessions : Uses(s, t) => pc[s] \notin Exclusive
ExclusiveFree(t) == \A s \in Sessions : ~Uses(s, t)

Goto(s, l) == pc' = [pc EXCEPT ![s] = l]

Start(s, t, l) ==
    /\ pc[s] = "idle"
    /\ name' = [name EXCEPT ![s] = t]
    /\ Goto(s, l)

\* The handler object is destroyed.
End(s) ==
    /\ Goto(s, "idle")
    /\ name' = [name EXCEPT ![s] = Nil]
    /\ to' = [to EXCEPT ![s] = Nil]
    /\ db' = [db EXCEPT ![s] = Nil]

-----------------------------------------------------------------------------
(* Faulty variants of operations below                                      *)

\* The count is decremented twice.
FreeShareTwice(s, free_long_term_share) ==
    /\ use_count' = [use_count EXCEPT ![share[s]] = @ - 2]
    /\ share' = [share EXCEPT ![s] = Nil]
    /\ UNCHANGED <<open_tables, long_term_share, long_term_shares>>

\* The long term share is freed with the first close, not with the last.
FreeShareEarly(s, free_long_term_share) ==
    LET x == share[s]
        t == name[s]
    IN  /\ use_count' = [use_count EXCEPT ![x] = @ - 1]
        /\ open_tables' = IF use_count[x] = 1 THEN [open_tables EXCEPT ![t] = Nil]
                                              ELSE open_tables
        /\ long_term_shares' = IF free_long_term_share
                               THEN [long_term_shares EXCEPT ![t] = Nil]
                               ELSE long_term_shares
        /\ share' = [share EXCEPT ![s] = Nil]
        /\ UNCHANGED long_term_share

\* FLUSH TABLES closes the Database whether tables are open or not.
FlushAlways(s) ==
    /\ pc[s] = "flush"
    /\ cache' = Nil
    /\ End(s)
    /\ UNCHANGED <<registry, tables, share>>

\* The share is not taken out of the registry.
FreeShareRegistered(s, free_long_term_share) ==
    /\ use_count' = [use_count EXCEPT ![share[s]] = @ - 1]
    /\ share' = [share EXCEPT ![s] = Nil]
    /\ UNCHANGED <<open_tables, long_term_share, long_term_shares>>

-----------------------------------------------------------------------------
(* mrn_table.cpp                                                            *)

\* mrn_get_long_term_share: the one that is registered, or a new one.
GetLongTermShare(t, l) ==
    /\ IF long_term_shares[t] # Nil THEN l = long_term_shares[t]
       ELSE \A u \in Tables : long_term_shares[u] # l
    /\ long_term_shares' = [long_term_shares EXCEPT ![t] = l]

\* mrn_get_share, under mrn_open_tables_mutex.
GetShare(s, t) ==
    IF open_tables[t] # Nil
    THEN /\ share' = [share EXCEPT ![s] = open_tables[t]]
         /\ use_count' = [use_count EXCEPT ![open_tables[t]] = @ + 1]
         /\ UNCHANGED <<open_tables, long_term_share, long_term_shares>>
    ELSE \E x \in Shares \ {open_tables[u] : u \in Tables} :
           /\ \E l \in LongTerms :
                /\ GetLongTermShare(t, l)
                /\ long_term_share' = [long_term_share EXCEPT ![x] = l]
           /\ open_tables' = [open_tables EXCEPT ![t] = x]
           /\ use_count' = [use_count EXCEPT ![x] = 1]
           /\ share' = [share EXCEPT ![s] = x]

\* mrn_get_share fails to register the share it has made: the long term
\* share stays.
GetShareFails(t) ==
    /\ open_tables[t] = Nil
    /\ \E l \in LongTerms : GetLongTermShare(t, l)
    /\ UNCHANGED <<open_tables, use_count, long_term_share>>

\* mrn_free_long_term_share
FreeLongTermShare(t) == long_term_shares' = [long_term_shares EXCEPT ![t] = Nil]

\* mrn_free_share, under mrn_open_tables_mutex.
FreeShare(s, free_long_term_share) ==
    LET x == share[s]
        t == name[s]
    IN  /\ use_count' = [use_count EXCEPT ![x] = @ - 1]
        /\ IF use_count[x] = 1
           THEN /\ open_tables' = [open_tables EXCEPT ![t] = Nil]
                /\ long_term_share' = [long_term_share EXCEPT ![x] = Nil]
                /\ IF free_long_term_share THEN FreeLongTermShare(t)
                                           ELSE UNCHANGED long_term_shares
           ELSE UNCHANGED <<open_tables, long_term_share, long_term_shares>>
        /\ share' = [share EXCEPT ![s] = Nil]

-----------------------------------------------------------------------------
(* lib/mrn_database_manager.cpp                                             *)

\* DatabaseManager::open.  The Database is cached before is_broken() is
\* asked, and only the call that makes the Database asks.
OpenFails == cache = Nil /\ Locked

OpenDatabase(s, d) ==
    /\ IF cache = Nil THEN d \notin {db[r] : r \in Sessions} ELSE d = cache
    /\ cache' = d
    /\ db' = IF OpenFails THEN db ELSE [db EXCEPT ![s] = d]

\* ensure_database_open, as a step of a statement that goes on at l, or at
\* fail when the Database is refused.
EnsureDatabaseOpen(s, l, fail) ==
    /\ \E d \in Databases : OpenDatabase(s, d)
    /\ Goto(s, IF OpenFails THEN fail ELSE l)
    /\ UNCHANGED <<registry, tables, name, to, share>>

-----------------------------------------------------------------------------
(* open and close                                                           *)

Open(s, t) ==
    /\ t \in tables /\ SharedFree(t)
    /\ Start(s, t, "open_db")
    /\ GetShare(s, t)
    /\ UNCHANGED <<cache, tables, to, db>>

OpenNoShare(s, t) ==
    /\ t \in tables /\ SharedFree(t) /\ pc[s] = "idle"
    /\ GetShareFails(t)
    /\ UNCHANGED <<cache, tables, mine>>

OpenDb(s) == pc[s] = "open_db" /\ EnsureDatabaseOpen(s, "open_columns", "close")

\* The Groonga objects of the table are opened, or one of them is missing.
OpenColumns(s) ==
    /\ pc[s] = "open_columns"
    /\ \E l \in {"open", "close"} : Goto(s, l)
    /\ UNCHANGED <<registry, cache, tables, name, to, share, db>>

\* The error path of open().
OpenUndo(s) ==
    /\ pc[s] = "close"
    /\ FreeShare(s, FALSE)
    /\ End(s)
    /\ UNCHANGED <<cache, tables>>

Close(s) ==
    /\ pc[s] = "open"
    /\ FreeShare(s, TRUE)
    /\ \/ End(s)
       \/ Goto(s, "flush") /\ UNCHANGED <<name, to, db>>
    /\ UNCHANGED <<cache, tables>>

\* close() in FLUSH TABLES, under mrn_open_tables_mutex.
Flush(s) ==
    /\ pc[s] = "flush"
    /\ cache' = IF \A t \in Tables : open_tables[t] = Nil THEN Nil ELSE cache
    /\ End(s)
    /\ UNCHANGED <<registry, tables, share>>

-----------------------------------------------------------------------------
(* create                                                                   *)

Create(s, t) ==
    /\ t \notin tables /\ ExclusiveFree(t)
    /\ Start(s, t, "create_db")
    /\ GetShare(s, t)
    /\ UNCHANGED <<cache, tables, to, db>>

CreateDb(s) ==
    pc[s] = "create_db" /\ EnsureDatabaseOpen(s, "create_objects", "create_undo")

CreateObjects(s) ==
    /\ pc[s] = "create_objects"
    /\ \/ tables' = tables \cup {name[s]} /\ Goto(s, "create_end")
       \/ UNCHANGED tables /\ Goto(s, "create_undo")
    /\ UNCHANGED <<registry, cache, name, to, share, db>>

\* A failed create frees the long term share ...
CreateUndo(s) ==
    /\ pc[s] = "create_undo"
    /\ FreeLongTermShare(name[s])
    /\ long_term_share' = [long_term_share EXCEPT ![share[s]] = Nil]
    /\ Goto(s, "create_end")
    /\ UNCHANGED <<open_tables, use_count, cache, tables, name, to, share, db>>

\* ... a successful one leaves it behind, with the AUTO_INCREMENT option.
CreateEnd(s) ==
    /\ pc[s] = "create_end"
    /\ FreeShare(s, FALSE)
    /\ End(s)
    /\ UNCHANGED <<cache, tables>>

-----------------------------------------------------------------------------
(* delete_table                                                             *)

Drop(s, t) ==
    /\ t \in tables /\ ExclusiveFree(t)
    /\ Start(s, t, "drop_long")
    /\ GetShare(s, t)
    /\ UNCHANGED <<cache, tables, to, db>>

\* An internal table name, or a definition that cannot be read: the shares
\* are not looked at.
DropInternal(s, t) ==
    /\ t \in tables /\ ExclusiveFree(t)
    /\ Start(s, t, "drop_db")
    /\ UNCHANGED <<registry, cache, tables, to, share, db>>

DropLong(s) ==
    /\ pc[s] = "drop_long"
    /\ FreeLongTermShare(name[s])
    /\ long_term_share' = [long_term_share EXCEPT ![share[s]] = Nil]
    /\ Goto(s, "drop_free")
    /\ UNCHANGED <<open_tables, use_count, cache, tables, name, to, share, db>>

DropFree(s) ==
    /\ pc[s] = "drop_free"
    /\ FreeShare(s, FALSE)
    /\ Goto(s, "drop_db")
    /\ UNCHANGED <<cache, tables, name, to, db>>

\* generic_delete_table opens the Database while no share is held.
DropDb(s) ==
    /\ pc[s] = "drop_db"
    /\ \E d \in Databases : OpenDatabase(s, d)
    /\ IF OpenFails
       THEN pc' = [pc EXCEPT ![s] = "idle"] /\ name' = [name EXCEPT ![s] = Nil]
       ELSE Goto(s, "drop_objects") /\ UNCHANGED name
    /\ UNCHANGED <<registry, tables, to, share>>

DropObjects(s) ==
    /\ pc[s] = "drop_objects"
    /\ \/ tables' = tables \ {name[s]}
       \/ UNCHANGED tables
    /\ End(s)
    /\ UNCHANGED <<registry, cache, share>>

-----------------------------------------------------------------------------
(* rename_table and storage_rename_table                                    *)

Rename(s, t, u) ==
    /\ t \in tables /\ u \notin tables
    /\ ExclusiveFree(t) /\ ExclusiveFree(u)
    /\ Start(s, t, "rename_db")
    /\ to' = [to EXCEPT ![s] = u]
    /\ GetShare(s, t)
    /\ UNCHANGED <<cache, tables, db>>

RenameDb(s) ==
    pc[s] = "rename_db" /\ EnsureDatabaseOpen(s, "rename_to", "rename_end")

\* The new name gets a long term share with the counter of the old one.
RenameTo(s) ==
    /\ pc[s] = "rename_to"
    /\ \E l \in LongTerms : GetLongTermShare(to[s], l)
    /\ Goto(s, "rename_objects")
    /\ UNCHANGED <<open_tables, use_count, long_term_share, cache, tables, name, to, share, db>>

RenameObjects(s) ==
    /\ pc[s] = "rename_objects"
    /\ \/ tables' = (tables \ {name[s]}) \cup {to[s]} /\ Goto(s, "rename_long")
       \/ UNCHANGED tables /\ Goto(s, "rename_undo")
    /\ UNCHANGED <<registry, cache, name, to, share, db>>

RenameUndo(s) ==
    /\ pc[s] = "rename_undo"
    /\ FreeLongTermShare(to[s])
    /\ Goto(s, "rename_end")
    /\ UNCHANGED <<open_tables, use_count, long_term_share, cache, tables, name, to, share, db>>

RenameLong(s) ==
    /\ pc[s] = "rename_long"
    /\ FreeLongTermShare(name[s])
    /\ long_term_share' = [long_term_share EXCEPT ![share[s]] = Nil]
    /\ Goto(s, "rename_end")
    /\ UNCHANGED <<open_tables, use_count, cache, tables, name, to, share, db>>

RenameEnd(s) ==
    /\ pc[s] = "rename_end"
    /\ FreeShare(s, FALSE)
    /\ End(s)
    /\ UNCHANGED <<cache, tables>>

-----------------------------------------------------------------------------
(* A SQL function, and DROP DATABASE                                        *)

\* mroonga_command_init and the other functions that use the current database.
Command(s) ==
    /\ pc[s] = "idle"
    /\ \E d \in Databases : OpenDatabase(s, d)
    /\ Goto(s, IF OpenFails THEN "idle" ELSE "command")
    /\ UNCHANGED <<registry, tables, name, to, share>>

CommandDeinit(s) ==
    /\ pc[s] = "command"
    /\ End(s)
    /\ UNCHANGED <<registry, cache, tables, share>>

\* DatabaseManager::drop, once the tables are dropped.
DropDatabase(s) ==
    /\ pc[s] = "idle" /\ tables = {} /\ \A t \in Tables : ExclusiveFree(t)
    /\ cache' = Nil
    /\ UNCHANGED <<registry, tables, mine>>

-----------------------------------------------------------------------------

SharesStep(s) ==
    \/ \E t \in Tables : Open(s, t) \/ OpenNoShare(s, t) \/ Create(s, t)
    \/ \E t \in Tables : Drop(s, t) \/ DropInternal(s, t)
    \/ \E t, u \in Tables : Rename(s, t, u)
    \/ OpenDb(s) \/ OpenColumns(s) \/ OpenUndo(s) \/ Close(s) \/ Flush(s)
    \/ CreateDb(s) \/ CreateObjects(s) \/ CreateUndo(s) \/ CreateEnd(s)
    \/ DropLong(s) \/ DropFree(s) \/ DropDb(s) \/ DropObjects(s)
    \/ RenameDb(s) \/ RenameTo(s) \/ RenameObjects(s) \/ RenameUndo(s)
    \/ RenameLong(s) \/ RenameEnd(s)
    \/ Command(s) \/ CommandDeinit(s) \/ DropDatabase(s)

SharesNext == \E s \in Sessions : SharesStep(s)

SharesSpec == SharesInit /\ [][SharesNext]_vars

-----------------------------------------------------------------------------
(* Properties                                                               *)

Holders(t) == {s \in Sessions : name[s] = t /\ share[s] # Nil}

\* The use counts are right under every interleaving of open, close and DDL:
\* a share is freed by its last holder and never before, and the handlers of
\* a table all have the same one (record_mutex and the table lock are in it).
ShareCounted ==
    /\ \A t \in Tables :
         /\ open_tables[t] = Nil => Holders(t) = {}
         /\ open_tables[t] # Nil => use_count[open_tables[t]] = Cardinality(Holders(t))
                                   /\ Holders(t) # {}
    /\ \A s \in Sessions : share[s] # Nil => open_tables[name[s]] = share[s]

\* The handlers that have a table open share one AUTO_INCREMENT counter: the
\* long term share of their share is the registered one, no close, failed
\* open, failed create or rename of another session has freed it.
OneCounter ==
    \A s \in Sessions :
        pc[s] \in {"open_db", "open_columns", "open"}
        => /\ long_term_share[share[s]] # Nil
           /\ long_term_shares[name[s]] = long_term_share[share[s]]

\* "Fix a crash bug with concurrent FLUSH TABLES and INSERT" (news/14.md): the
\* Database that a handler with a share works in is never closed under it.
\* (That is all the code counts: a SQL function and the last part of DROP
\* TABLE hold no share.)
TableKeepsDatabase ==
    \A s \in Sessions : share[s] # Nil /\ db[s] # Nil => db[s] = cache

\* "The database maybe broken. ... you can remove this error by running
\* 'groonga ... table_remove mroonga_operations'" (mrn_database_manager.cpp):
\* until then a database that a crash left locked is not worked in.
BrokenRefused == Locked => \A s \in Sessions : db[s] = Nil

=============================================================================
