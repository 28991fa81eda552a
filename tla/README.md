# Mroonga: a TLA+ verification project

Mroonga is a storage engine for MySQL and MariaDB built on the full-text search
library Groonga. In *storage mode* a table is a Groonga table; in *wrapper mode*
Mroonga adds a full-text index to a table of another engine. This project models
the parts of Mroonga in which several sessions, a crash or a failing step can
break what the engine promises, checks them with TLC on small instances and
proves the most important facts for every instance with TLAPS.

What the code does wrong is part of the model: an action does what the source
does, and where a promise fails the property names the exception or a run shows
the violation.

Paths below are relative to the repository root (`src/` in `PROJECT.json`).

## 1. The system

### Components

| Component | State | Operations | What makes it hard |
|---|---|---|---|
| Storage row operations (`ha_mroonga.cpp`) | Groonga record table, columns, one index table per UNIQUE key; `record_id`, `key_id[]`, `del_key_id[]` in the handler; `share->record_mutex` | `storage_write_row`, `storage_update_row`, `storage_delete_row`, `storage_delete_all_rows`, `storage_truncate` | No transactions, no row locks; a statement is a sequence of Groonga calls, only some of them under `record_mutex`; each may fail; ids are reused |
| Operations log (`lib/mrn_operations.cpp`, `lib/mrn_operation.cpp`) | table `mroonga_operations` | `start`, `record_target`, `finish`, `repair`, `clear` | Must be right at every instant, because a crash may come at any |
| Crash recovery (`lib/mrn_database.cpp`, `storage_open`, `storage_reindex`) | `broken_table_names_`, `mrn_operations_mutex` | repair at the first open after a crash | Runs beside other sessions' opens; may itself fail or be interrupted |
| Table shares (`mrn_table.cpp`) | `mrn_open_tables`, `use_count`, `mrn_long_term_share` | `mrn_get_share`, `mrn_free_share`, … called by open, close, create, rename, drop | Reference counting across sessions and error paths |
| Database manager (`lib/mrn_database_manager.cpp`) | cache of open `Database` objects | `open`, `close`, `drop`, `clear` | FLUSH TABLES closes databases that others use |
| Context pool, KILL (`lib/mrn_context_pool.cpp`, `udf/`, `SlotData`) | `pool_`, count of contexts, `associated_grn_ctxs` | `pull`, `release`, `clear`, kill and close connection | Two critical sections in `pull`; KILL takes no lock |
| AUTO_INCREMENT | counter and `auto_inc_inited` in the long term share, `auto_inc_mutex` | `get_auto_increment`, `storage_info`, end of `storage_write_row`, truncate | Lazy initialisation beside writers; one unlocked read; wrap-around |
| Table locks of storage mode | server's lock types | `storage_store_lock`, `external_lock` | Decides what may run concurrently |
| Wrapper mode rows | wrapped engine's rows, Groonga table of primary keys, full-text indexes | `wrapper_write_row`, `wrapper_update_row`, `wrapper_delete_row`, … | The index is changed by hand, part by part; ROLLBACK reaches the rows, not the index |
| DDL | Groonga table, columns, index tables and index columns of a table; the server's dictionary | create, drop, rename, in-place ALTER, ENABLE and DISABLE KEYS, REPAIR | Many objects, no transaction, undo by hand; a missing object is taken for a disabled key |
| Cursors, index reads, full-text search, condition push down | search state of a handler | `index_*`, `rnd_*`, `ft_*`, `cond_push`, `reset` | Results of one search used by the next; shortcuts (count skip, fast ORDER BY LIMIT) must not change the answer |
| Data conversion, key codec | none | `generic_store_bulk`, `storage_store_field`, `storage_encode_key`, `MultipleColumnKeyCodec`, `TimeConverter` | INSERT, SELECT and lookup convert by different code; order of encoded keys; time zones; edges of every type |
| Names and parameters | none | `PathMapper`, `IndexTableName`, … | Injectivity |
| Database repairer, CHECK/REPAIR | – | `DatabaseRepairer`, `xxx_recreate_indexes` | REPAIR removes and makes again what is in use |
| Plugin lifecycle, variables, SQL functions | global context, `mrn_db` | init/deinit, variable updates | Order at shutdown |

Interaction: the server calls a handler object (one per session and table). The
handler finds the table's `MRN_SHARE` (shared by all sessions), which carries
`record_mutex` and points to the long term share with the AUTO_INCREMENT counter;
it works in a `Database` of the database manager through a Groonga context of its
own, and records what it does in that Database's operations log. SQL functions
borrow contexts from the pool instead. FLUSH TABLES, through `close()`, clears
pool and database cache. KILL reaches contexts through the session's slot data.

### Properties that make each component correct

* Rows: a UNIQUE column is unique; every stored value has its key and every key a
  value (`UniqueKey`, `RowHasKey`, `NoOrphanKey`); a lock is given back
  (`MutexReleased`).
* Log: it names what is being changed, all the time, and nothing else
  (`ChangeIsLogged`, `LogIsLive`).
* Recovery: after the repair rows and keys agree again (`RepairedIndex`), nobody
  works on the table during it (`RepairIsAlone`), and no complete row is removed
  (`CommittedSurvives`, which the code does not keep).
* Shares: freed by the last user and no earlier (`ShareCounted`), one counter per
  table (`OneCounter`), no Database closed under a table (`TableKeepsDatabase`), a
  broken database is refused (`BrokenRefused`, not kept).
* Pool: a context has one owner (`ContextOwned`), is counted (`CountIsOpen`), the
  pool does not grow without need (`NotIncreasedContinually`), KILL cancels only
  the killed session's work (`CancelIsOwn`).
* AUTO_INCREMENT: the counter is ahead of all rows (`CounterAhead`), generated
  values are new (`GeneratedIsNew`), also after a deletion as long as the table
  stays open, and, out of what was asked for, given to one statement only.
* Search: whatever access path and short cut, a SELECT delivers what SQL promises
  (`SelectAnswers`), the record buffer holds the record Mroonga is at
  (`BufferIsRecord`) or one that WHERE cannot tell from it (`SkippedIsAlike`), the
  next statement finds a clean handler (`HandlerIsClean`), and every read loop ends
  (`StatementEnds`).
* Values: what was written is read (`ReadsBack`) and found (`LookupFinds`), and the
  order of stored values and encoded keys is that of SQL (`KeyOrder`, `CodecOrder`).
* Schema: indexes answer as the rows do (`IndexAnswers`), UNIQUE keys are unique
  whenever they were added (`UniqueChecked`), a table of the dictionary opens
  (`TableOpens`), and DROP leaves nothing behind (`NothingLeft`).

`PROJECT.json` lists the hazards behind these properties, each at its line, also
those for which the code offers no protection.

## 2. Modules

| Module | Models | Run by |
|---|---|---|
| `StorageRows` | row statements and operations log | `MCStorageRows` |
| `StorageRowsInv` | inductive invariants of `StorageRows` | `MCStorageRows` |
| `CrashRecovery` | extends `StorageRows` with crash, open, repair, reindex | `MCCrashRecovery` |
| `CrashRecoveryProofs` | theorems of both: types, log, UNIQUE keys; repair alone, repaired index | TLAPS |
| `TableShares` | shares, long term shares, cached Database | `MCTableShares` |
| `TableSharesProofs` | theorems: types, counts, one counter, Database | TLAPS |
| `ContextPool` | context pool, SQL functions, KILL | `MCContextPool` |
| `ContextPoolProofs` | theorems: types, ownership, count, KILL | TLAPS |
| `AutoIncrement` | the counter | `MCAutoIncrement` |
| `AutoIncrementProofs` | theorems: types, counter ahead, values new | TLAPS |
| `FieldTypes` | the columns of a table by type | (operators) |
| `ConditionConverter` | condition push down: which conditions, into which expression | (operators) |
| `KeyCodec` | `MultipleColumnKeyCodec` | (operators) |
| `SelectSpec` | what a SELECT promises: abstract specification | `MCSearch` |
| `Search` | reading a storage mode table; implements `SelectSpec` | `MCSearch` |
| `SearchProofs` | theorems: types, clean handler, record buffer, count skip, end of a statement | TLAPS |
| `TimeConverter` | `TimeConverter`, local time | (operators) |
| `FieldValues` | a column: INSERT, UPDATE, SELECT, lookup | `MCFieldValues` |
| `CodecProofs` | lemmas: bytes, orders, times; decoding is the inverse of encoding | TLAPS |
| `FieldValuesProofs` | theorems: types, read back, found, ordered | TLAPS |
| `GrnObjects` | the Groonga objects of a table, helpers of both modes | (extended by the next three) |
| `WrapperTable` | wrapper mode: rows, full-text indexes, DDL | `MCSchema` |
| `StorageSchema` | storage mode: DDL, multiple column indexes | `MCSchema` |
| `TableSchema` | both, behind the entries of the handler | `MCSchema` |
| `SchemaProofs` | theorems: types, table opens, nothing left, indexes answer, UNIQUE keys are unique | TLAPS |

Modules contain, commented "Faulty variant", operators that differ from an
action the way a plausible bug would. No specification uses them; substituting
one for its action must make the property named in `PROJECT.json` fail, which shows
that the property depends on that piece of code.

### StorageRows

`rec`, `col` and `idx` are the record table, the UNIQUE column and the index table.
`record_id`, `key_id`, `del_key_id` are the handler's members; `new_pk`, `new_u`
the row buffer. `pc` is the place in the statement: one action per Groonga call that
changes something, per lock operation and per early return. Labels `w_*` are
`storage_write_row`, `u_*` `storage_update_row`, `d_*` `storage_delete_row`, `a_*`
`storage_delete_all_rows`, `t_*` `storage_truncate`. `ReadRow` is the scan that
positions the handler before an UPDATE or DELETE; the record may be gone, or its id
reused, when the statement runs.

Parameters choose the environment: `Statements` and `Faults` (which calls may fail),
`SharedTargets` (may two sessions work on one record), `Recording`.

Taken from Groonga and marked external: `grn_table_add` of a present key adds
nothing; ids of deleted records and keys may be reused; `grn_table_delete_by_id`
resets the columns of a record and refuses an absent id on the record table; setting
the column of an index source adds its key. `Operations::start` (an add and two
column writes on a context of one session) is one step. FOREIGN KEY checks and
multiple column indexes appear only as the failures they cause.

### CrashRecovery

`Crash` keeps what Groonga holds in memory mapped files and loses the rest;
`Database::Database` then marks the table broken if the log names it. `OpenBroken`
… `ReindexFill` are `storage_open`, `Operations::repair` and `storage_reindex`, under
`mrn_operations_mutex`. Row statements are the actions of `StorageRows`, by handlers
that have the table open. `committed` is a history variable.

### TableShares

Every statement that touches the registries, step by step between the points where
it gives up `mrn_open_tables_mutex`, with the failures of each step. The server's
metadata locks are the guards `SharedFree` and `ExclusiveFree`. `Locked` says that
the operations table was locked when the process died.

### ContextPool

`Calls` are calls of SQL functions in progress. `PullNone` and `PullOpen` are the two
critical sections of `pull`. `KillLook` and `KillCancel` split KILL where the killed
session may run in between. `leaked` records the two ways in which a context leaves
its call while KILL can still reach it; `CancelIsOwn` excepts exactly those.

### AutoIncrement

`Insert` begins an INSERT of any number of rows, each of which is an `ExplicitRow` or a
`GeneratedRow`, in any order. `Ask`, `AskRead`/`AskSet` are `get_auto_increment`; the split
is where other sessions go on writing rows while the table is read under
`auto_inc_mutex`. `Note`, `Info*` and `Bump` are the end of `storage_write_row`. `MaxValue`
stands for 2^64 - 1 and arithmetic wraps. `Limit` is the bound: an INSERT begins, and asks for
values, only while none is above it.

The handler says that its interval of values has no end (`*nb_reserved_values =
UINT_MAX64`, `ha_mroonga.cpp:18506`), so the server, in `handler::update_auto_increment`,
asks once per statement. It goes on behind an explicit value that is not below the next
one, and behind the rows it announced. Two sessions can therefore generate the same value:
`INSERT … SELECT` announces one row, and `VALUES (NULL), (5), (NULL)` generates 6, which
the counter may have given to another session. Both statements are in the model. The
PRIMARY KEY refuses the second row, so this is an error and no duplicate; `GeneratedIsNew`
claims that two generated values differ only where both are `Announced`, that is, below the
end of what their INSERT asked for. That a value is new to what was in the table when
the INSERT asked is claimed for every one. For the greatest value the server asks once more
before the statement fails; that is left out.

### Search, ConditionConverter, SelectSpec

One session runs one SELECT after the other on one handler object, on a small
table whose record ids do not follow the primary key. The server is modelled by its
calls: it picks an access path (`Paths`), loops over the read calls and evaluates
WHERE, the ends of ranges, sort keys and the answer on the record buffer `buf`
only. Actions are the calls: `CondPush`, `RndInit`, `IndexInit`, `RndNext`,
`IndexReadFirst`, `IndexReadNext`, `FtInit`, `FtRead`, `RndPos`, `End`, `Reset`.
`storage_get_next_record` chooses between the four cursors as the code does.

`ConditionConverter` translates `is_convertable…` and `convert…` to an expression
and `grn_expr_exec` evaluates it; `Holds` is the meaning SQL gives to the condition.
A string is its bytes, and a small number stands for them. `Collation` says for a column
that `should_normalize()` wants normalised which string stands for a value: `Weight` is
what the server compares, what the keys of an index are made of, and what ORDER BY goes by.
Of a constant `append_const_item()` passes the bytes, and Groonga sees (`Seen`) the
bytes of the column, except where a search in the index is the answer: `=`, BETWEEN and
IN on an indexed column.
`Search` itself knows of a condition only what its CONSTANT operators say:
`Convertable`, `MatchCount`, `GroongaHolds`, `SqlHolds`, `ReadColumns` and
`SaysTheSame`. `MCSearch` gives them the definitions of `ConditionConverter`, so
that the run is about the code's conversion; the theorems are about any.

`SelectSpec` knows rows, not access paths: a matching row is delivered once, in
order, up to LIMIT. The refinement mapping keeps `table`, `query` and `out`, and
maps the phases of the handler to "running". `SelectAnswers` says that every step
of `Search` is a step of `SelectSpec` or none.

Statements for which the code is known to be wrong are named by three operators
and not run: `AcceptedWrongly` (a condition is taken over and converted to another
one, such as NOT BETWEEN, or is one that compares strings by their bytes although their
collation has another order: `<`, `<=`, `>=` and `>` on a normalised column,
`mrn_condition_converter.cpp:333`, and IN on one without an index, line 512, which is
logged as not supported and accepted; `doc/source/news/11.rst:474` warns that "the
result of search may different than usual"), `LosesEmpty` (an index of a string column does not hold
empty strings) and `LimitedMatch` (on MariaDB a full-text result is cut before the
rest of WHERE is evaluated).

### FieldValues, TimeConverter, KeyCodec

A byte has `Base` values, an hour `SecPerHour` seconds and a second `UsecPerSec`
parts, so that all widths and both sides of each boundary fit; the calendar is one
of months of 30 days. `stored` is what Groonga keeps, in host byte order. `WriteRow` and
`UpdateRow` are the conversion loops of `storage_write_row` and
`storage_update_row`; `LookUp` and `LookUpPrefix` those of `storage_index_read_map`.
`SqlValues(f)` is what the server can hold in the column f; `Samples(f)`, the values a
run writes, is a part of it. Four operators name the values the conversions change or
miss, and the properties except exactly those: `Shifted` (the server's time zone skips
the clock time), `NegativeFraction` (a fraction of a second before 1970 or in a negative
TIME), `ZeroDate` (a month or a day of zero, with a warning), and for lookups
`LookupDiffers` (in addition the year 0000 of YEAR(4), which is looked up as 1900, a
negative MEDIUMINT, which is looked up as a positive number, and texts that end in a
space, which `storage_encode_key_normalize_min_sort_chars` turns into a byte 0). `Kept` are the records that hold no shifted time.

A coordinate is a number of quarters of a millisecond of arc. `generic_store_bulk_geometry`
(`mrn_set_geometry`) rounds it to whole milliseconds with `GRN_GEO_DEGREE2MSEC`,
`storage_store_field_geometry` multiplies it out: POINT(35.720253 139.762573) reads as
POINT(35.72025305555556 139.76257305555555), without a warning, as in
`mysql-test/mroonga/storage/geometry/r/contains.result` (lines 8 to 10 and 118). For a geometry
`ReadsBack` therefore claims the value within half a millisecond (`Near`). What does not fit
into the int of a `grn_geo_point` is undefined and left out (`Coordinates`). `LatLong` are
the SRIDs for which `geo_need_reverse()` says yes. There INSERT takes the server's first
coordinate, the longitude, for the latitude, and SELECT gives the longitude back as the
first: POINT(a b) is read as POINT(b a). `geo_store_rectangle()` is with SELECT, and
`doc/source/news/11.rst:490` says "Fixed a bug that latitude and longitude are stored
conversely."; `mysql-test/mroonga/storage/alter_table/mysql/r/spatial.result` reads SRID 4326
right because it looks only after an ALTER TABLE that copies the table and so exchanges
them once more. `ReadsBack` excepts these columns (`AxesSwapped`) and fails in the run
without the exception.

### GrnObjects, WrapperTable, StorageSchema, TableSchema

`dict` is what the server's dictionary says, `grn[n]` the Groonga objects whose names
begin with the table name n, `lexicon` a table the user has made and named in a key's
`lexicon` parameter. A handler function is one action with one parameter f, the call
that fails, if any: DDL has the exclusive metadata lock, and how row changes
interleave is the subject of `StorageRows`. What is undone and what is not after f is
what the code does.

Two ghost variables carry the exceptions. `exact` holds the keys whose index must
answer: an action takes a key out when the code gives up on it (a failed index
update, a ROLLBACK of the wrapped engine, DELETE of all rows for a multiple column
key that is not UNIQUE, REPAIR of one, a duplicate accepted by ADD UNIQUE) and puts it back
when a later statement makes the index again. `torn` says what a half-done DDL
statement left behind: a table or column gone, an index gone, objects under another
name. Every property holds in full as long as both are untouched.

## 3. Runs

| Run | Question | Result |
|---|---|---|
| `storage_rows` | Do rows and UNIQUE keys agree at every step, with the failures the code cleans up after? | holds; also checks the inductive invariant `KeyInv` |
| `storage_shared` | Log and mutex, with every statement, every failure, two sessions on one record | holds |
| `storage_delete_all` | UNIQUE with DELETE without a condition beside INSERT | violated: the keys are deleted outside `record_mutex` |
| `crash_recovery` | One crash anywhere, then automatic repair | holds when the repair succeeds |
| `crash_reuse` | Does the repair remove incomplete records only? | violated: the id of a deleted record is reused before the crash |
| `context_pool` | Ownership, counting, KILL | holds, with the two stated exceptions for KILL |
| `auto_increment` | Counter and generated values | holds |
| `table_shares` | Use counts, long term shares, Database under FLUSH TABLES | holds for whoever has a share |
| `table_shares_broken` | Is a database with a locked log refused? | violated: to the first open only |
| `search` | Does every SELECT of a small language, on every access path and build, return what SQL promises? Does the handler stay clean? | holds with the stated exceptions; 669,941 states |
| `values` | Every column type at its edges, seven time zones, strict or not: read back, looked up, ordered? | holds with the stated exceptions; 133,140 states |
| `schema` | One table from CREATE to DROP in both modes, any order of DDL and row changes, one failed call or ROLLBACK anywhere | holds with the stated exceptions; about 145,000 states |

### Bounds

* Two sessions everywhere but in `table_shares` (three: two users of one share and
  a third that flushes or renames). All races found here need two actors.
* `storage_rows`: 2 primary keys, 3 UNIQUE values, 2 records, 3 key ids: an UPDATE
  holds an old and a new key while another session holds a third, and ids are
  reused. `storage_shared` has one record and one value so that all statements,
  faults and fairness fit.
* `crash_recovery`: one crash. With two crashes `RepairedIndex` fails (a crash
  inside `storage_reindex` after the log was emptied); hazards list. The
  constraint `NoFailedRepair` stops exploring after a failed repair: the code then
  returns success from `storage_open` and promises nothing.
* `context_pool`: 2 calls, 3 contexts (one more than could ever be open if
  `NotIncreasedContinually` holds).
* `auto_increment`: INSERTs of up to 3 rows, announced or not, that begin and ask for values
  up to 2; the explicit values are 1 and 3, so that they fall below, on and above the counter
  and the next value, before, between and behind generated rows. 1.9 million states.
* `table_shares`: 2 tables, 2 shares, 2 long term shares, 4 Database objects (one
  cached, the others still in the hands of sessions).

* `search`: 4 rows that differ in every column, with values below, at and above
  zero; 4 range keys of one to three columns and a full-text key; strings of which two, 'A' and
  'a', are one in the collation and are not neighbours in bytes, and a column with a
  binary collation in another charset; 29 conditions of which
  Mroonga takes over some and not others, each with a reason of its own;
  4 combinations of server and `mroonga_condition_push_down_type`. All sequences of
  statements are covered because the handler's state between two is a variable.
* `values`: two rows suffice, since order and equality are relations between two. Points
  are exact, a half, and rounded up and down, on both sides of zero, with no, a
  projected and a latitude first reference system.
  The zones are UTC, zones ahead of and behind it, and changes to summer time in the
  night, at midnight and on a New Year, with and without the early reading of an
  ambiguous time. The theorems below have no such bounds.
* `schema`: two names (RENAME there and back, and a name left occupied), at most 2 of
  7 keys at a time: FULLTEXT on one and on two columns, UNIQUE, multiple column,
  UNIQUE multiple column, one with a lexicon, one on a FOREIGN KEY; 3 record ids,
  rows with and without an empty value, so that duplicates occur in all
  positions. `MaxMishaps` = 1: one failure shows what it leaves behind and every statement
  then runs on that. Named bounds: `GetsRows` and `Changes` (after a half-done DDL
  statement only a table of one row gets another and columns do not change; a table
  with a column that ALTER TABLE added has at most one row), `AtMostOne` (keys per
  ALTER). The VIEW hides the postings of keys outside `exact` and those under a
  name the table does not have; no action and no property reads them.

Symmetry is used for sessions, names, ids and values that no definition tells apart, and
in no run with a temporal property.

### Fairness

`MutexReleased` is a liveness property. `FairSpec` assumes weak fairness of
`Run(h)`, the code between the server's call and its return: a thread in a handler
call is scheduled, and stops only at a mutex. No fairness is assumed of the calls
themselves. That a SELECT ends is shown without fairness: `StatementEnds` gives each
step a measure that decreases, and the absence of deadlock shows that there is a step.

### Deadlock

Deadlock is checked in every run but `schema`: with every session idle a new
statement can always begin, so a state without a successor would be a lost mutex. In
`schema` a table whose wrapped table was lost by a failed RENAME accepts no statement
any more, which is what the code does.

## 4. Proofs

The theorems hold for every number of sessions, keys, ids, names, contexts and
crashes. Each module of proofs states the invariants that make its theorems
inductive, then one lemma per action, and in it one step per part that the action
can disturb. Each inductive invariant was checked with TLC on the run of its
component before it was proved.

### Rows and the operations log (`CrashRecoveryProofs`)

* `TypeCorrect`: `Spec => []TypeOK`, by `TypeInv` (types, and that the row buffer
  is filled while a statement uses it).
* `LogCorrect`, `ChangesLogged`: `Spec => []LogIsLive`, `Spec => []ChangeIsLogged`,
  whatever the statements and faults and also when sessions share records. The
  inductive invariant `LogInv` adds that each session in a logged statement has an
  entry of its own, and that TRUNCATE, which empties the log, runs alone.
* `UniqueKeyCorrect`, `RowHasKeyCorrect`, `NoOrphanKeyCorrect` and `KeyInvCorrect`:
  the three UNIQUE key properties and their inductive invariant, under `Isolated`.

`Isolated` says what must not happen for these to hold: two sessions on one record,
DELETE without a condition beside other statements, an empty primary key, and four
failures after which the code does not clean up (`grn_table_add` on the record table,
a failure of an UPDATE after it wrote the UNIQUE column, of a DELETE's index step, of
TRUNCATE). TLC shows for each that the properties fail without it.

Why an inductive invariant is needed: that a duplicate check protects the later
column write, made after `record_mutex` was released, depends on who owns a key in
between. `KeyInv` says it: a key that a statement has added (`HasNew`) or is to remove
(`HasOld`, `HasDropped`) is held by that statement alone (`KeyOK`); an added key
belongs to no other standing record (`NewKeyOK`); a key to remove is that of the
record's value until the record has another value or is gone (`OldKeyOK`); the
handler's record is there and its own (`TargetOK`); duplicate checks are made under
the mutex (`MutexOK`).

### Crash recovery (`CrashRecoveryProofs`)

* `RecoveryTypeCorrect`, `RepairIsAloneCorrect`: for any number of crashes at any
  step, without a condition. `RecoveryInv` adds to the types who may be where while
  `operations_mutex` is held (`OpeningOK`).
* `RepairedIndexCorrect`: under `Undoable` (`Isolated`, recording on, no TRUNCATE),
  for behaviours in which no repair fails and no crash falls into `InWindow`, the
  steps between the emptying of the log and the end of the reindexing. TLC has a
  counterexample without each of them; the crash in the window is a hazard of
  `PROJECT.json`. The argument: while the table is sound the invariants `LogInv` and
  `KeyInv` of the row statements hold (`SoundOK`), so an entry of the log stands for
  every row that a crash can leave half-written; while it is not sound the log says
  what to undo (`RepairOK`: a broken table has entries, the cursor of the repair
  leaves none behind, and the records that no entry names have distinct values);
  reindexing such rows makes the table sound again.

### Table shares (`TableSharesProofs`)

* `SharesTypeCorrect`, `ShareCountedCorrect`, `OneCounterCorrect`,
  `TableKeepsDatabaseCorrect`, without a condition. `use_count` is changed in one
  step and the user's own pointer in another, so the count is right only with the
  user's place in the code taken into account: `LabelOK` says which pointers a place
  has, `ExclusiveOK` that RENAME and DROP, under the server's exclusive metadata
  lock, are alone with their table, `DistinctOK` that two tables have two shares,
  `CounterOK` that a share and the registry of long term shares have one counter.

### Context pool (`ContextPoolProofs`)

* `PoolTypeCorrect`, `ContextOwnedCorrect`, `CountIsOpenCorrect`,
  `NotIncreasedCorrect`, `CancelIsOwnCorrect`, without a condition. Ownership needs
  that a call has a context exactly from pull to release (`HolderOK`) and that no open
  context is forgotten (`NoneLost`). The number of open contexts is compared with the
  number of calls by cardinalities: a context is opened only when the pool is empty,
  and then every open context has a call of its own. KILL reads the session's list
  and cancels the context in different steps; `SlotOK` and `KillingOK` say that what is
  on a list, and what a KILL is looking at, belongs to a call of that session unless
  it is recorded as left there (`leaked`).

### AUTO_INCREMENT (`AutoIncrementProofs`)

* `AutoIncTypeCorrect`, without a condition, also when the arithmetic wraps.
* `CounterAheadCorrect`: `AutoIncSpec /\ []NotExhausted => []CounterAhead`.
  `NotExhausted` says that the type has numbers left; the counter wraps at the end,
  a hazard of `PROJECT.json`. A handler reads the last record and sets the counter
  later, so `ReadAhead` and `ReadBound` bound what it has read and `KeptAhead` what
  the open table keeps.
* `GeneratedIsNewCorrect`: under the same condition, for INSERTs with any mixture of
  explicit and generated rows, announced or not. The next value a handler generates is new to
  the rows it saw when it asked and only grows, also over explicit values (`ReservedOK`); what
  it still has of what it asked for is below the counter and nobody else's
  (`DisjointOK`). Two values generated behind
  what was announced may be equal, and nothing is claimed of them but that they are new.

### Schema (`SchemaProofs`)

* `SchemaTypeCorrect` and `TableOpensCorrect`, without a condition, by one inductive
  invariant `TypeInv`: that a table can be opened needs the types of all objects,
  that the rows and the records of wrapper mode fit (`RowsOK`) and which objects each
  mode can have (`ModeOK`), and the types need that the table is there.
* `NothingLeftCorrect`: `CleanOK` says for a table that stands what DROP relies on:
  unless a statement failed half-way (`torn`), the objects named by the dictionary are
  all there are.
* `IndexAnswersCorrect` and `UniqueCheckedCorrect`, about the keys in `exact`, those
  that no failed call, ROLLBACK or REPAIR has left incomplete. That an index answers is
  not inductive: a statement that adds a posting relies on what the table held. The
  invariant `IndexInv` adds that an absent index table has no postings (`AbsentOK`, so
  that ENABLE KEYS and ADD INDEX start from nothing), that a key in `exact` has its
  index column (`ExactOK`), that lexicon columns need the lexicon (`LexiconOK`), and
  that the postings of such a key are exactly those of the rows: in storage mode with
  rows that differ in each UNIQUE key (`StorageOK`), in wrapper mode under the rows'
  records, of which every row has one (`WrapperOK`). Three steps are more than
  case work: ADD UNIQUE INDEX on one column compares the sizes of two tables, and equal
  sizes mean distinct values (`SameSizes`, by cardinalities); the loop of
  `wrapper_update_row_index` over keys and parts reaches the last part when nothing
  fails (`AllParts`); a word search finds the right rows because record IDs are one to
  one with primary keys (`WordsFound`).

### Reading a table (`SearchProofs`)

* `SearchTypeCorrect`, `HandlerStaysClean`, `SkippedAlike`, `BufferHoldsRecord` and
  `StatementsEnd`: the invariants and the two action properties of the run `search`,
  for any table, any keys of any number of columns, any set of statements, both
  servers and any meaning of conditions that keeps `ConditionAssumption`. The last two
  are properties of steps, proved from the same invariant.
* The invariant `SearchInv` (`SearchInvariant`) says of a statement on its way:
  * which cursors are open in which phase, that `active_index` is the plan's key and
    that `ignoring_no_key_columns` is only set when the key has all columns in use
    (`CleanInv`); that the cursors are lists of entries of that key, each record once
    (`CursorInv`);
  * that an exact lookup reads only rows with the values looked up, now and with every
    `storage_index_next_same()` to come (`ReachInv`);
  * that the record buffer is the record Mroonga is at in the columns the statement or
    its key uses, or, under count skip, has the values looked up (`BufInv`);
  * that COUNT has counted records that are not ahead of it any more (`CountInv`).
    The ranges of a statement must be apart for that (`RangesOK`), which the server's
    range optimizer guarantees and `PathsAre` shows of the model's.
* `SkippedAlike` is where these meet: `CountSkipChecker` admits conditions on the
  first key parts only, the lookup fixes exactly these parts, and the buffer
  and the record both have the values looked up, up to the collation: the buffer may hold
  'a' where the record has 'A'. WHERE sees only the `Weight` of each
  (`ConditionAssumption`).
* Two facts about bytes carry the rest. An index only read decodes the key:
  `DecodeEncode` (in `CodecProofs`) says `decode()` gives back what `encode()` was given,
  for every type of part, signs, floats, NULL and padded texts. A lookup of the first
  columns opens a cursor between the least and the greatest key with these values:
  `RangeKeysBegin` says that just these keys are between them (`BetweenKeys` is the half the
  invariant needs). `EncodeKeepsOrder` is the order of whole and of partial keys, for parts
  of any type: with `CodecKeepsOrder`, which has the order of one part, encoded keys are
  in the order of the columns.
* `StatementsEnd` needs that an opened cursor has no more entries than the table
  records (`CursorLen`, `ListLen`, by cardinalities), so that the measure `Left` can pay
  for a range before it is opened.

The proof made two conditions explicit that the model had left unsaid: a COUNT has
no ORDER BY, and the server converts a constant to the type of the column before it
makes a range of it (`StatementAssumption`).

### Values and keys (`CodecProofs`, `FieldValuesProofs`)

* `FieldTypeCorrect`, `ColumnsReadBack`, `LookupsFind`, `ColumnsKeepOrder`,
  `CodecKeepsOrder`: the five properties of the run `values`, with the same exceptions,
  for every column (type, sign, width, precision, SRID, NULL or not), every value in
  `SqlValues`, every time zone with one summer time, every even `Base` and any number
  of records. For a geometry `ColumnsReadBack` says what rounding leaves: half a millisecond
  of arc in each coordinate, except in the columns of `AxesSwapped`.
* That a record reads as it was written is not inductive: of a stored value alone one
  cannot say how it came about. `FieldInvariant` says for each record that it holds what
  `generic_store_bulk` makes of the value last written (`Held`) and for an answer that it
  is the set of records equal to the key, or within the LIKE range, that
  `storage_encode_key` makes (`Answered`). `SameConversions` says that the conversions
  depend on the column and the zone only, which no statement changes. The five
  properties then are facts about conversions.
* Those are proved type by type, in the same four steps: what is stored (`…Stored`),
  that it reads as the value (`…Read`), that the key made for a lookup equals the stored
  value exactly if the value read is the one looked up (`…LookUp`), and that Groonga's
  and the codec's orders are the server's (`…KeyOrder`, `…Codec`). `ReadsValue`,
  `LookUpExact`, `OrderExact` and `CodecExact` join the types.
* `CodecProofs` has the arithmetic. The bytes of a number are a positional notation
  (`QuotientStep`), so that the value comes back by induction from the last byte
  (`HostUnsignedBytes`); two numbers differ first at the highest byte whose quotients
  differ (`HighestDifferenceExists`), which makes the order of bytes that of numbers
  (`NetworkOrder`); flipping the top bit adds half of the range (`FlipTopNetwork`) and
  flipping all bits is the complement (`FlipAllNetwork`), which is how negative integers
  and floats come into that order. `GmtimeClock` and `ClockGmtime` say that the calendar
  and its inverse fit, `UnpackPack` when a Groonga time unpacks as it was packed.

The proof corrected the properties: they looked for a skipped hour at the date as
written, not at the one with its month and day corrected, and not at all for a YEAR whose
New Year is skipped; and `LookupFinds` did not say that a text ending in a space is looked
up as another. The samples and zones of the run contain these cases now.

### Assumptions on constants

Each module with constants names them (`ConstantsAssumption` and the like): special
values differ from ids and keys, bounds are natural numbers, the parts of a key are a
nonempty sequence. TLC
evaluates them in every run. For the values they are: the columns and samples are those
of a server (`FieldAssumption`, `SampleAssumption`, `PrefixAssumption`); a space is
between the least and the greatest byte (`SpaceAssumption`); a zone is at most 14 hours
from UTC (`ZoneAssumption`); a packed date fits into its bytes (`DateAssumption`);
`Base ^ n`, of which the provers know nothing, is what multiplying n times yields, up to
eight bytes (`PowerAssumption`); the marks for NULL and for no value are no values
(`NullAssumption`, `NoneAssumption`). For reading a table: keys are
nonempty sequences of columns and a part of a multiple column key has the type of
its column (`KeyAssumption`); a table is a finite set of records whose values their
columns can hold (`TableAssumption`); a statement asks for columns of the table
(`StatementAssumption`); a condition depends on the columns it compares, on strings by
their collation, and, for MATCH, on the relevance (`ConditionAssumption`); a collation orders strings by the ones
that stand for them, of which the empty one stands for itself only (`CollationAssumption`).

Assumed of what is outside the repository: the normalizer of an index makes of a string
what the column's collation makes of it, in the same order; Groonga answers `=`, BETWEEN and
IN on an indexed column from the index, with the constants normalised as the keys are.

### Only model-checked

* `MutexReleased`: liveness under fairness.
* `SelectAnswers`, the refinement of `SelectSpec`. It rests on Groonga's evaluation of
  the converted condition being that of WHERE. For a condition tree of any depth
  this is an induction over the tree, and `ConditionConverter` translates the tree by
  a RECURSIVE operator; neither is within reach of TLAPS. The step from the cursors'
  order to the order of the answer, over all the statements read so far, is not proved either.

## 5. Not modelled, and the plan

Proofs that could come next: `SelectAnswers` for statements without pushed
conditions, on top of `SearchInv`.

Parts of components that are not modelled:

* Table locks: `storage_store_lock`, `external_lock` and `start_stmt` are guards of
  `StorageRows`, not actions; LOCK TABLES and the handler pointers it keeps are not.
* DDL: ALTER by copy (which is CREATE, INSERT, RENAME and DROP), generated columns
  and PRIMARY KEY changes in place, options in comments, and a crash during DDL:
  DDL is not recorded in the operations log, so nothing is promised.
* Search: the query parser and its pragmas, relevance beyond a number, spatial
  search, estimates (`records_in_range`) and multi range reads, which never decide
  an answer.
* Values: character set conversion; what a normaliser does to a text; strings other than the
  empty one that are nothing to their collation; `KEY … USING HASH`, whose index has no
  normalizer (`ha_mroonga.cpp:4875`); vector columns.
* CHECK TABLE and `DatabaseRepairer`: they ask Groonga whether its files are corrupt.
* KILL of the context a handler itself uses; thread pools (`set_n_workers`).
* Plugin initialisation and shutdown, updates of system variables: a sequence
  without concurrency in the server's start and end.

Left out for good: names and parameters (pure string functions), what SQL functions
compute (Groonga), information schema statistics, wrapper functions that only pass a
call on, optimizer estimates, build, packages, tests.
