---------------------------- MODULE ContextPool ----------------------------
(***************************************************************************)
(* mrn::ContextPool (lib/mrn_context_pool.cpp), the user defined functions *)
(* that borrow a grn_ctx from it (udf/*.cpp), and the list of contexts     *)
(* that KILL cancels (SlotData::associated_grn_ctxs).                      *)
(*                                                                         *)
(* A function's init pulls a context and its deinit releases it.  pull     *)
(* takes the mutex twice: once to look into the pool, and once more to     *)
(* open a context when there was none.  mroonga_command alone registers    *)
(* its context with the session, so that KILL reaches it; the error path   *)
(* of its init releases the context without taking it off that list.       *)
(***************************************************************************)
EXTENDS Integers, Sequences, FiniteSets

CONSTANTS
    Calls,      \* calls of a function that may be in progress at a time, each
                \* in a session of its own
    Contexts,   \* grn_ctx objects
    Nil         \* no context

ASSUME ContextsAssumption == Nil \notin Contexts /\ IsFiniteSet(Calls)

VARIABLES
    pool,       \* pool_
    opened,     \* contexts that are open
    n_pooling,  \* *n_pooling_contexts_
    expired,    \* now - last_pull_time_ >= CLEAR_THREATHOLD_IN_SECONDS
    rc,         \* rc of each context
    pc,         \* where each call is
    kind,       \* which function it calls
    ctx,        \* info->ctx
    slot,       \* associated_grn_ctxs of the call's session
    killing,    \* the context that a KILL is looking at, or Nil
    leaked      \* history: contexts that left their call while a KILL could
                \* still reach them

vars == <<pool, opened, n_pooling, expired, rc, pc, kind, ctx, slot, killing, leaked>>

Labels == {"idle", "open", "associate", "database", "ready", "release"}

Pooled == {pool[i] : i \in 1 .. Len(pool)}

PoolTypeOK ==
    /\ pool \in Seq(Contexts)
    /\ opened \subseteq Contexts
    /\ n_pooling \in Nat
    /\ expired \in BOOLEAN
    /\ rc \in [Contexts -> {"success", "error", "cancel"}]
    /\ pc \in [Calls -> Labels]
    /\ kind \in [Calls -> {"command", "other"}]
    /\ ctx \in [Calls -> Contexts \cup {Nil}]
    /\ slot \in [Calls -> SUBSET Contexts]
    /\ killing \in Contexts \cup {Nil}
    /\ leaked \subseteq Contexts

PoolInit ==
    /\ pool = <<>>
    /\ opened = {}
    /\ n_pooling = 0
    /\ expired = TRUE
    /\ rc = [c \in Contexts |-> "success"]
    /\ pc = [s \in Calls |-> "idle"]
    /\ kind = [s \in Calls |-> "other"]
    /\ ctx = [s \in Calls |-> Nil]
    /\ slot = [s \in Calls |-> {}]
    /\ killing = Nil
    /\ leaked = {}

Goto(s, l) == pc' = [pc EXCEPT ![s] = l]

-----------------------------------------------------------------------------
(* Faulty variants of operations below                                      *)

\* The context stays in the pool.
PullWithoutPop(s, k) ==
    /\ pc[s] = "idle" /\ Len(pool) > 0
    /\ kind' = [kind EXCEPT ![s] = k]
    /\ ctx' = [ctx EXCEPT ![s] = pool[Len(pool)]]
    /\ expired' = FALSE
    /\ Goto(s, "associate")
    /\ UNCHANGED <<pool, opened, n_pooling, rc, slot, killing, leaked>>

\* The counter is not decremented.
CloseAllUncounted(n) ==
    /\ opened' = opened \ {pool[i] : i \in 1 .. n}
    /\ UNCHANGED n_pooling

\* The context that pull has just popped is counted as closed too.
CloseAllOneMore(n) ==
    /\ opened' = opened \ {pool[i] : i \in 1 .. n}
    /\ n_pooling' = n_pooling - Len(pool)

\* The context is dropped instead of being pooled.
ReleaseDropped(s) ==
    /\ pc[s] = "release"
    /\ rc' = [rc EXCEPT ![ctx[s]] = "success"]
    /\ ctx' = [ctx EXCEPT ![s] = Nil]
    /\ Goto(s, "idle")
    /\ UNCHANGED <<pool, opened, n_pooling, expired, kind, slot, killing, leaked>>

\* The context stays on the list that KILL walks.
DeinitAssociated(s) ==
    /\ pc[s] = "ready"
    /\ Goto(s, "release")
    /\ UNCHANGED <<pool, opened, n_pooling, expired, rc, kind, ctx, slot, killing, leaked>>

-----------------------------------------------------------------------------
(* The pool                                                                 *)

\* clear_without_lock, on the first n contexts of the pool.
CloseAll(n) ==
    /\ opened' = opened \ {pool[i] : i \in 1 .. n}
    /\ n_pooling' = n_pooling - n

\* pull finds a context, and closes the others when nobody has pulled for
\* five minutes.
PullPooled(s, k) ==
    /\ pc[s] = "idle" /\ Len(pool) > 0
    /\ kind' = [kind EXCEPT ![s] = k]
    /\ ctx' = [ctx EXCEPT ![s] = pool[Len(pool)]]
    /\ IF expired
       THEN CloseAll(Len(pool) - 1) /\ pool' = <<>>
       ELSE pool' = SubSeq(pool, 1, Len(pool) - 1) /\ UNCHANGED <<opened, n_pooling>>
    /\ expired' = FALSE
    /\ Goto(s, "associate")
    /\ UNCHANGED <<rc, slot, killing, leaked>>

\* pull finds none and gives the mutex back ...
PullNone(s, k) ==
    /\ pc[s] = "idle" /\ Len(pool) = 0
    /\ kind' = [kind EXCEPT ![s] = k]
    /\ expired' = FALSE
    /\ Goto(s, "open")
    /\ UNCHANGED <<pool, opened, n_pooling, rc, ctx, slot, killing, leaked>>

\* ... and takes it again to open one, whatever has been released since.
PullOpen(s, c) ==
    /\ pc[s] = "open" /\ c \notin opened
    /\ opened' = opened \cup {c}
    /\ n_pooling' = n_pooling + 1
    /\ rc' = [rc EXCEPT ![c] = "success"]
    /\ ctx' = [ctx EXCEPT ![s] = c]
    /\ Goto(s, "associate")
    /\ UNCHANGED <<pool, expired, kind, slot, killing, leaked>>

\* release: push_back, then the context is made clean, in one lock.
Release(s) ==
    /\ pc[s] = "release"
    /\ pool' = Append(pool, ctx[s])
    /\ rc' = [rc EXCEPT ![ctx[s]] = "success"]
    /\ ctx' = [ctx EXCEPT ![s] = Nil]
    /\ Goto(s, "idle")
    /\ UNCHANGED <<opened, n_pooling, expired, kind, slot, killing, leaked>>

\* clear, called by close() of a table under FLUSH TABLES.
Clear ==
    /\ Len(pool) > 0
    /\ CloseAll(Len(pool))
    /\ pool' = <<>>
    /\ UNCHANGED <<expired, rc, pc, kind, ctx, slot, killing, leaked>>

\* Five minutes pass without a pull.
Expire ==
    /\ ~expired /\ expired' = TRUE
    /\ UNCHANGED <<pool, opened, n_pooling, rc, pc, kind, ctx, slot, killing, leaked>>

-----------------------------------------------------------------------------
(* The functions                                                            *)

\* mroonga_command registers its context; the other functions do not.
Associate(s) ==
    /\ pc[s] = "associate"
    /\ slot' = IF kind[s] = "command" THEN [slot EXCEPT ![s] = @ \cup {ctx[s]}] ELSE slot
    /\ Goto(s, "database")
    /\ UNCHANGED <<pool, opened, n_pooling, expired, rc, kind, ctx, killing, leaked>>

\* init returns, with a database in use.
InitDone(s) ==
    /\ pc[s] = "database"
    /\ Goto(s, "ready")
    /\ UNCHANGED <<pool, opened, n_pooling, expired, rc, kind, ctx, slot, killing, leaked>>

\* init fails: the database cannot be opened, a parameter is wrong.
InitFail(s) ==
    /\ pc[s] = "database"
    /\ leaked' = IF kind[s] = "command" THEN leaked \cup {ctx[s]} ELSE leaked
    /\ Goto(s, "release")
    /\ UNCHANGED <<pool, opened, n_pooling, expired, rc, kind, ctx, slot, killing>>

\* grn_ctx_send and grn_ctx_recv fail and leave rc set.
CommandFail(s) ==
    /\ pc[s] = "ready" /\ rc[ctx[s]] = "success"
    /\ rc' = [rc EXCEPT ![ctx[s]] = "error"]
    /\ UNCHANGED <<pool, opened, n_pooling, expired, pc, kind, ctx, slot, killing, leaked>>

Deinit(s) ==
    /\ pc[s] = "ready"
    /\ slot' = IF kind[s] = "command" THEN [slot EXCEPT ![s] = @ \ {ctx[s]}] ELSE slot
    /\ leaked' = IF killing = ctx[s] THEN leaked \cup {ctx[s]} ELSE leaked
    /\ Goto(s, "release")
    /\ UNCHANGED <<pool, opened, n_pooling, expired, rc, kind, ctx, killing>>

\* mrn_hton_kill_query and mrn_hton_kill_connection, run by the killing
\* session: they walk the list of the killed one without a lock, so between
\* reaching a context ...
KillLook(s, c) ==
    /\ killing = Nil /\ c \in slot[s]
    /\ killing' = c
    /\ UNCHANGED <<pool, opened, n_pooling, expired, rc, pc, kind, ctx, slot, leaked>>

\* ... and setting its rc the killed session may do anything.
KillCancel ==
    /\ killing # Nil
    /\ rc' = [rc EXCEPT ![killing] = IF @ = "success" THEN "cancel" ELSE @]
    /\ killing' = Nil
    /\ UNCHANGED <<pool, opened, n_pooling, expired, pc, kind, ctx, slot, leaked>>

\* mrn_hton_close_connection deletes the slot data.
CloseConnection(s) ==
    /\ pc[s] = "idle" /\ slot[s] # {}
    /\ slot' = [slot EXCEPT ![s] = {}]
    /\ UNCHANGED <<pool, opened, n_pooling, expired, rc, pc, kind, ctx, killing, leaked>>

Call(s) ==
    \/ \E k \in {"command", "other"} : PullPooled(s, k) \/ PullNone(s, k)
    \/ \E c \in Contexts : PullOpen(s, c)
    \/ Associate(s) \/ InitDone(s) \/ InitFail(s) \/ CommandFail(s)
    \/ Deinit(s) \/ Release(s) \/ CloseConnection(s)
    \/ \E c \in Contexts : KillLook(s, c)

PoolNext == Clear \/ Expire \/ KillCancel \/ \E s \in Calls : Call(s)

PoolSpec == PoolInit /\ [][PoolNext]_vars

-----------------------------------------------------------------------------
(* Properties                                                               *)

\* A context is in one pair of hands: it is in the pool once, or one call
\* has it; neither FLUSH TABLES nor the five minute limit of pull closes a
\* context that a call still has.
ContextOwned ==
    /\ \A i, j \in 1 .. Len(pool) : pool[i] = pool[j] => i = j
    /\ Pooled \subseteq opened
    /\ \A s \in Calls : ctx[s] # Nil => ctx[s] \in opened \ Pooled
    /\ \A s, t \in Calls : ctx[s] = ctx[t] /\ ctx[s] # Nil => s = t

\* The status variable counts every open context, in the pool or in use.
CountIsOpen == n_pooling = Cardinality(opened)

\* "It's not increased continually" (status_variables.rst): a pull opens a
\* context only when every open one was in use, although it looks and opens
\* in two separate critical sections; there are never more contexts than
\* calls in progress at a time.
NotIncreasedContinually ==
    n_pooling + Cardinality({s \in Calls : pc[s] = "open"}) <= Cardinality(Calls)

\* KILL reaches the killed session only: a cancelled context belongs to a
\* call in progress whose session has it on its list, and no pooled context
\* is handed out cancelled, with exactly two exceptions: a context that the
\* error path of mroonga_command_init left on the list, and one that
\* mroonga_command_deinit took off it while a KILL was looking at it.
CancelIsOwn ==
    \A c \in opened \ leaked :
        rc[c] = "cancel"
        => \E s \in Calls : ctx[s] = c /\ kind[s] = "command" /\ pc[s] # "idle"

=============================================================================
