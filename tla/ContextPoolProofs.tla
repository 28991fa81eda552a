------------------------- MODULE ContextPoolProofs -------------------------
(***************************************************************************)
(* Proofs about ContextPool, for any set of calls and contexts.            *)
(*                                                                         *)
(*   PoolTypeCorrect          every variable keeps its type;               *)
(*   ContextOwnedCorrect      a context is in one pair of hands;           *)
(*   CountIsOpenCorrect       the status variable counts the open ones;    *)
(*   NotIncreasedCorrect      there are never more of them than calls;     *)
(*   CancelIsOwnCorrect       KILL reaches the killed session only.        *)
(***************************************************************************)
EXTENDS ContextPool, FiniteSetTheorems, SequenceTheorems, TLAPS

-----------------------------------------------------------------------------
(* The inductive invariant                                                  *)

Holding == {"associate", "database", "ready", "release"}
Holders == {s \in Calls : ctx[s] # Nil}

\* The types, where all that is known of the counter is that it is a number:
\* that it is not negative follows from what it counts.
BaseTypeOK ==
    /\ pool \in Seq(Contexts)
    /\ opened \subseteq Contexts
    /\ n_pooling \in Int
    /\ expired \in BOOLEAN
    /\ rc \in [Contexts -> {"success", "error", "cancel"}]
    /\ pc \in [Calls -> Labels]
    /\ kind \in [Calls -> {"command", "other"}]
    /\ ctx \in [Calls -> Contexts \cup {Nil}]
    /\ slot \in [Calls -> SUBSET Contexts]
    /\ killing \in Contexts \cup {Nil}
    /\ leaked \subseteq Contexts

\* A call has a context from pull to release.
HolderOK == \A s \in Calls : pc[s] \in Holding <=> ctx[s] # Nil

\* No open context is forgotten: it is in the pool or a call has it.
NoneLost == \A c \in opened : c \in Pooled \/ \E s \in Calls : ctx[s] = c

\* A call of mroonga_command that KILL may reach.
Reachable(s, c) ==
    ctx[s] = c /\ kind[s] = "command" /\ pc[s] \in {"database", "ready"}

\* What is on a list and has not been left there belongs to the session's
\* call, and so does the context that a KILL is looking at.
SlotOK == \A s \in Calls : \A c \in slot[s] \ leaked : Reachable(s, c)
KillingOK ==
    killing # Nil /\ killing \notin leaked => \E s \in Calls : Reachable(s, killing)

OwnedInv == BaseTypeOK /\ HolderOK /\ ContextOwned /\ NoneLost
CountInv == OwnedInv /\ IsFiniteSet(opened) /\ CountIsOpen /\ NotIncreasedContinually
KillInv  == OwnedInv /\ SlotOK /\ KillingOK /\ CancelIsOwn

-----------------------------------------------------------------------------
(* Types                                                                    *)

\* The last context of the pool, and what pull leaves of it.
LEMMA FrontFacts ==
    ASSUME NEW S, NEW q \in Seq(S), Len(q) > 0
    PROVE  /\ q[Len(q)] \in S
           /\ SubSeq(q, 1, Len(q) - 1) \in Seq(S)
           /\ Len(SubSeq(q, 1, Len(q) - 1)) = Len(q) - 1
           /\ \A i \in 1 .. Len(q) - 1 : SubSeq(q, 1, Len(q) - 1)[i] = q[i]
<1>1. Len(q) \in Nat /\ \A i \in 1 .. Len(q) : q[i] \in S
  OBVIOUS
<1> DEFINE n == Len(q) - 1
<1>2. n \in Nat /\ \A i \in 1 .. n : q[i] \in S
  BY <1>1
<1> HIDE DEF n
<1>3. /\ SubSeq(q, 1, n) \in Seq(S)
      /\ Len(SubSeq(q, 1, n)) = IF 1 <= n THEN n - 1 + 1 ELSE 0
      /\ \A i \in 1 .. n - 1 + 1 : SubSeq(q, 1, n)[i] = q[1 + i - 1]
  BY <1>2, SubSeqProperties
<1>4. Len(SubSeq(q, 1, n)) = n /\ \A i \in 1 .. n : SubSeq(q, 1, n)[i] = q[i]
  BY <1>2, <1>3
<1> QED
  BY <1>1, <1>3, <1>4 DEF n

\* pull takes the last context; Append, SubSeq and <<>> give sequences again.
LEMMA TypeStep ==
    ASSUME BaseTypeOK, HolderOK, PoolNext
    PROVE  BaseTypeOK' /\ HolderOK'
<1> USE ContextsAssumption DEF BaseTypeOK, HolderOK, Labels, Holding, Goto
<1>1. CASE Clear
  BY <1>1 DEF Clear, CloseAll
<1>2. CASE Expire
  BY <1>2 DEF Expire
<1>3. CASE KillCancel
  BY <1>3 DEF KillCancel
<1>4. ASSUME NEW s \in Calls, Call(s) PROVE BaseTypeOK' /\ HolderOK'
  <2>1. ASSUME NEW k \in {"command", "other"}, PullPooled(s, k)
        PROVE  BaseTypeOK' /\ HolderOK'
    <3>1. ctx' = [ctx EXCEPT ![s] = pool[Len(pool)]] /\ pool[Len(pool)] \in Contexts
      BY <2>1, FrontFacts DEF PullPooled
    <3>2. pool' \in Seq(Contexts)
      <4>1. pool' = <<>> \/ pool' = SubSeq(pool, 1, Len(pool) - 1)
        BY <2>1 DEF PullPooled
      <4>2. Len(pool) > 0 /\ pool \in Seq(Contexts)
        BY <2>1 DEF PullPooled
      <4>3. SubSeq(pool, 1, Len(pool) - 1) \in Seq(Contexts)
        BY <4>2, FrontFacts
      <4>4. <<>> \in Seq(Contexts)
        OBVIOUS
      <4> QED
        BY <4>1, <4>3, <4>4, Zenon
    <3>3. opened' \subseteq Contexts /\ n_pooling' \in Int
      BY <2>1 DEF PullPooled, CloseAll
    <3>4. /\ pc' = [pc EXCEPT ![s] = "associate"] /\ kind' = [kind EXCEPT ![s] = k]
          /\ expired' = FALSE /\ UNCHANGED <<rc, slot, killing, leaked>>
      BY <2>1 DEF PullPooled
    <3> HIDE DEF PullPooled
    <3>5. HolderOK'
      BY <3>1, <3>4
    <3> QED
      BY <3>1, <3>2, <3>3, <3>4, <3>5
  <2>2. ASSUME NEW k \in {"command", "other"}, PullNone(s, k)
        PROVE  BaseTypeOK' /\ HolderOK'
    BY <2>2 DEF PullNone
  <2>3. ASSUME NEW c \in Contexts, PullOpen(s, c)
        PROVE  BaseTypeOK' /\ HolderOK'
    BY <2>3 DEF PullOpen
  <2>4. CASE Associate(s)
    BY <2>4 DEF Associate
  <2>5. CASE InitDone(s)
    BY <2>5 DEF InitDone
  <2>6. CASE InitFail(s)
    BY <2>6 DEF InitFail
  <2>7. CASE CommandFail(s)
    BY <2>7 DEF CommandFail
  <2>8. CASE Deinit(s)
    BY <2>8 DEF Deinit
  <2>9. CASE Release(s)
    BY <2>9 DEF Release
  <2>10. CASE CloseConnection(s)
    BY <2>10 DEF CloseConnection
  <2>11. ASSUME NEW c \in Contexts, KillLook(s, c)
         PROVE  BaseTypeOK' /\ HolderOK'
    BY <2>11 DEF KillLook
  <2> QED
    BY <1>4, <2>1, <2>2, <2>3, <2>4, <2>5, <2>6, <2>7, <2>8, <2>9, <2>10, <2>11 DEF Call
<1> QED
  BY <1>1, <1>2, <1>3, <1>4 DEF PoolNext

-----------------------------------------------------------------------------
(* A context is in one pair of hands                                        *)

\* The pool is the same, and so is what the calls have.
LEMMA OwnedSame ==
    ASSUME OwnedInv, UNCHANGED <<pool, opened, ctx>>, BaseTypeOK', HolderOK'
    PROVE  OwnedInv'
BY DEF OwnedInv, ContextOwned, NoneLost, Pooled

\* Only pull, release and clear move contexts about.
LEMMA OwnedStep ==
    ASSUME OwnedInv, PoolNext
    PROVE  OwnedInv'
<1> USE ContextsAssumption
<1>0. BaseTypeOK' /\ HolderOK'
  BY TypeStep DEF OwnedInv
<1>1. CASE Clear
  <2>1. pool' = <<>> /\ opened' = opened \ Pooled /\ ctx' = ctx
    BY <1>1 DEF Clear, CloseAll, Pooled
  <2>2. Pooled' = {}
    BY <2>1 DEF Pooled
  <2> QED
    BY <1>0, <2>1, <2>2 DEF OwnedInv, ContextOwned, NoneLost
<1>2. CASE Expire
  BY <1>0, <1>2, OwnedSame DEF Expire
<1>3. CASE KillCancel
  BY <1>0, <1>3, OwnedSame DEF KillCancel
<1>4. ASSUME NEW s \in Calls, Call(s) PROVE OwnedInv'
  <2>1. ASSUME NEW k \in {"command", "other"}, PullPooled(s, k) PROVE OwnedInv'
    <3> DEFINE last == pool[Len(pool)]
    <3>1. /\ pool \in Seq(Contexts) /\ Len(pool) > 0 /\ Len(pool) \in Nat
          /\ last \in Contexts /\ last \in Pooled
          /\ ctx' = [ctx EXCEPT ![s] = last] /\ ctx \in [Calls -> Contexts \cup {Nil}]
      BY <2>1, FrontFacts DEF PullPooled, OwnedInv, BaseTypeOK, Pooled
    <3>2. \A i \in 1 .. Len(pool) - 1 : pool[i] \in Pooled \ {last}
      BY <3>1 DEF OwnedInv, ContextOwned, Pooled
    <3>3. \A c \in Pooled \ {last} : \E i \in 1 .. Len(pool) - 1 : pool[i] = c
      BY <3>1 DEF Pooled
    <3>4. /\ Pooled' \subseteq Pooled \ {last} /\ opened' \subseteq opened
          /\ last \in opened' /\ Pooled' \subseteq opened'
          /\ \A i, j \in 1 .. Len(pool') : pool'[i] = pool'[j] => i = j
          /\ \A c \in opened' : c \in Pooled' \/ c = last \/ c \notin Pooled
          /\ \A c \in opened \ Pooled : c \in opened'
      <4>1. CASE expired
        <5>1. pool' = <<>> /\ opened' = opened \ {pool[i] : i \in 1 .. Len(pool) - 1}
          BY <2>1, <4>1 DEF PullPooled, CloseAll
        <5>2. Pooled' = {} /\ Len(pool') = 0
          BY <5>1 DEF Pooled
        <5> QED
          BY <3>1, <3>2, <3>3, <5>1, <5>2 DEF OwnedInv, ContextOwned
      <4>2. CASE ~expired
        <5>1. pool' = SubSeq(pool, 1, Len(pool) - 1) /\ opened' = opened
          BY <2>1, <4>2 DEF PullPooled
        <5>2. /\ Len(pool') = Len(pool) - 1
              /\ \A i \in 1 .. Len(pool) - 1 : pool'[i] = pool[i]
          BY <3>1, <5>1, FrontFacts
        <5>3. Pooled' = Pooled \ {last}
          BY <3>1, <3>2, <3>3, <5>2 DEF Pooled
        <5>4. \A i, j \in 1 .. Len(pool') : pool'[i] = pool'[j] => i = j
          BY <3>1, <5>2 DEF OwnedInv, ContextOwned
        <5> QED
          BY <3>1, <5>1, <5>3, <5>4 DEF OwnedInv, ContextOwned
      <4> QED
        BY <2>1, <4>1, <4>2 DEF PullPooled
    <3>5. ctx[s] = Nil
      BY <2>1 DEF PullPooled, OwnedInv, HolderOK, Holding
    <3>6. \A t \in Calls : ctx[t] # last
      BY <3>1 DEF OwnedInv, ContextOwned, BaseTypeOK
    <3>7. ContextOwned'
      <4>1. \A t \in Calls : ctx'[t] = IF t = s THEN last ELSE ctx[t]
        BY <3>1
      <4>2. /\ \A t \in Calls : ctx[t] # Nil => ctx[t] \in opened \ Pooled
            /\ \A t, u \in Calls : ctx[t] = ctx[u] /\ ctx[t] # Nil => t = u
        BY DEF OwnedInv, ContextOwned
      <4>3. \A t \in Calls : ctx'[t] # Nil => ctx'[t] \in opened' \ Pooled'
        BY <3>4, <4>1, <4>2
      <4>4. \A t, u \in Calls : ctx'[t] = ctx'[u] /\ ctx'[t] # Nil => t = u
        BY <3>6, <4>1, <4>2
      <4> QED
        BY <3>4, <4>3, <4>4 DEF ContextOwned
    <3>8. NoneLost'
      <4>1. \A t \in Calls : ctx'[t] = IF t = s THEN last ELSE ctx[t]
        BY <3>1
      <4>2. \A c \in opened : c \in Pooled \/ \E t \in Calls : ctx[t] = c
        BY DEF OwnedInv, NoneLost
      <4>3. \A c \in opened' : c \in Pooled' \/ \E t \in Calls : ctx'[t] = c
        BY <3>4, <3>5, <4>1, <4>2, ContextsAssumption DEF OwnedInv, BaseTypeOK
      <4> QED
        BY <4>3 DEF NoneLost
    <3> QED
      BY <1>0, <3>7, <3>8 DEF OwnedInv
  <2>2. ASSUME NEW k \in {"command", "other"}, PullNone(s, k) PROVE OwnedInv'
    BY <1>0, <2>2, OwnedSame DEF PullNone
  <2>3. ASSUME NEW c \in Contexts, PullOpen(s, c) PROVE OwnedInv'
    <3>1. /\ pool' = pool /\ Pooled' = Pooled /\ ctx' = [ctx EXCEPT ![s] = c]
          /\ opened' = opened \cup {c} /\ c \notin opened
          /\ ctx \in [Calls -> Contexts \cup {Nil}] /\ ctx[s] = Nil
      BY <2>3 DEF PullOpen, Pooled, OwnedInv, BaseTypeOK, HolderOK, Holding
    <3>2. ContextOwned'
      <4>1. \A t \in Calls : ctx'[t] = IF t = s THEN c ELSE ctx[t]
        BY <3>1
      <4>2. \A i, j \in 1 .. Len(pool') : pool'[i] = pool'[j] => i = j
        BY <3>1 DEF OwnedInv, ContextOwned
      <4>3. /\ Pooled \subseteq opened
            /\ \A t \in Calls : ctx[t] # Nil => ctx[t] \in opened \ Pooled
            /\ \A t, u \in Calls : ctx[t] = ctx[u] /\ ctx[t] # Nil => t = u
        BY DEF OwnedInv, ContextOwned
      <4>4. /\ Pooled' \subseteq opened'
            /\ \A t \in Calls : ctx'[t] # Nil => ctx'[t] \in opened' \ Pooled'
        BY <3>1, <4>1, <4>3
      <4>5. \A t, u \in Calls : ctx'[t] = ctx'[u] /\ ctx'[t] # Nil => t = u
        BY <3>1, <4>1, <4>3
      <4> QED
        BY <4>2, <4>4, <4>5 DEF ContextOwned
    <3>3. NoneLost'
      <4>1. \A t \in Calls : ctx'[t] = IF t = s THEN c ELSE ctx[t]
        BY <3>1
      <4>2. \A b \in opened : b \in Pooled \/ \E t \in Calls : ctx[t] = b
        BY DEF OwnedInv, NoneLost
      <4>3. \A b \in opened' : b \in Pooled' \/ \E t \in Calls : ctx'[t] = b
        BY <3>1, <4>1, <4>2, ContextsAssumption DEF OwnedInv, BaseTypeOK
      <4> QED
        BY <4>3 DEF NoneLost
    <3> QED
      BY <1>0, <3>2, <3>3 DEF OwnedInv
  <2>4. CASE Associate(s)
    BY <1>0, <2>4, OwnedSame DEF Associate
  <2>5. CASE InitDone(s)
    BY <1>0, <2>5, OwnedSame DEF InitDone
  <2>6. CASE InitFail(s)
    BY <1>0, <2>6, OwnedSame DEF InitFail
  <2>7. CASE CommandFail(s)
    BY <1>0, <2>7, OwnedSame DEF CommandFail
  <2>8. CASE Deinit(s)
    BY <1>0, <2>8, OwnedSame DEF Deinit
  <2>9. CASE Release(s)
    <3>1. /\ pool \in Seq(Contexts) /\ ctx \in [Calls -> Contexts \cup {Nil}]
          /\ ctx[s] # Nil /\ ctx[s] \in Contexts
          /\ pool' = Append(pool, ctx[s]) /\ ctx' = [ctx EXCEPT ![s] = Nil]
          /\ opened' = opened
      BY <2>9 DEF Release, OwnedInv, BaseTypeOK, HolderOK, Holding
    <3>2. /\ Len(pool') = Len(pool) + 1 /\ Len(pool) \in Nat
          /\ pool'[Len(pool) + 1] = ctx[s]
          /\ \A i \in 1 .. Len(pool) : pool'[i] = pool[i]
      BY <3>1
    <3>3. Pooled' = Pooled \cup {ctx[s]}
      BY <3>2 DEF Pooled
    <3>4. ctx[s] \in opened \ Pooled
      BY <3>1 DEF OwnedInv, ContextOwned
    <3>5. ContextOwned'
      <4>1. \A i, j \in 1 .. Len(pool') : pool'[i] = pool'[j] => i = j
        BY <3>2, <3>4 DEF OwnedInv, ContextOwned, Pooled
      <4> QED
        BY <3>1, <3>3, <3>4, <4>1 DEF OwnedInv, ContextOwned
    <3>6. NoneLost'
      BY <3>1, <3>3 DEF OwnedInv, NoneLost
    <3> QED
      BY <1>0, <3>5, <3>6 DEF OwnedInv
  <2>10. CASE CloseConnection(s)
    BY <1>0, <2>10, OwnedSame DEF CloseConnection
  <2>11. ASSUME NEW c \in Contexts, KillLook(s, c) PROVE OwnedInv'
    BY <1>0, <2>11, OwnedSame DEF KillLook
  <2> QED
    BY <1>4, <2>1, <2>2, <2>3, <2>4, <2>5, <2>6, <2>7, <2>8, <2>9, <2>10, <2>11 DEF Call
<1> QED
  BY <1>1, <1>2, <1>3, <1>4 DEF PoolNext

LEMMA OwnedInit == PoolInit => OwnedInv
<1> SUFFICES ASSUME PoolInit PROVE OwnedInv
  OBVIOUS
<1>1. Pooled = {}
  BY DEF PoolInit, Pooled
<1> QED
  BY <1>1 DEF PoolInit, OwnedInv, BaseTypeOK, HolderOK, Holding, ContextOwned, NoneLost, Labels

\* A context is in the pool once or one call has it, and no context that a
\* call has is closed: whatever pull, release, FLUSH TABLES and the five
\* minute limit do at the same time, for any number of sessions.
THEOREM ContextOwnedCorrect == PoolSpec => []ContextOwned
<1>1. OwnedInv /\ [PoolNext]_vars => OwnedInv'
  <2> SUFFICES ASSUME OwnedInv, UNCHANGED vars PROVE OwnedInv'
    BY OwnedStep
  <2> QED
    BY DEF vars, OwnedInv, BaseTypeOK, HolderOK, ContextOwned, NoneLost, Pooled
<1>2. OwnedInv => ContextOwned
  BY DEF OwnedInv
<1> QED
  BY OwnedInit, <1>1, <1>2, PTL DEF PoolSpec

-----------------------------------------------------------------------------
(* How many contexts there are                                              *)

Opening == {s \in Calls : pc[s] = "open"}

\* The first n contexts of a pool without repetitions are n contexts.
LEMMA PrefixCount ==
    ASSUME NEW S, NEW q \in Seq(S), NEW n \in 0 .. Len(q),
           \A i, j \in 1 .. Len(q) : q[i] = q[j] => i = j,
           NEW T, T = {q[i] : i \in 1 .. n}
    PROVE  IsFiniteSet(T) /\ Cardinality(T) = n
<1> DEFINE f == [i \in 1 .. n |-> q[i]]
<1>0. n \in Nat /\ \A i \in 1 .. n : i \in 1 .. Len(q)
  OBVIOUS
<1>1. f \in Bijection(1 .. n, T)
  <2>1. f \in [1 .. n -> T]
    OBVIOUS
  <2>2. \A i, j \in 1 .. n : f[i] = f[j] => i = j
    BY <1>0
  <2>3. \A t \in T : \E i \in 1 .. n : f[i] = t
    OBVIOUS
  <2> HIDE DEF f
  <2> QED
    BY <2>1, <2>2, <2>3 DEF Bijection, Injection, IsInjective, Surjection
<1>2. ExistsBijection(1 .. n, T)
  BY <1>1 DEF ExistsBijection
<1>3. IsFiniteSet(1 .. n) /\ Cardinality(1 .. n) = n
  <2>1. IsFiniteSet(1 .. n) /\ Cardinality(1 .. n) = IF 1 > n THEN 0 ELSE n - 1 + 1
    BY <1>0, FS_Interval
  <2> QED
    BY <1>0, <2>1
<1> QED
  BY <1>2, <1>3, FS_Bijection

\* clear_without_lock on the first n contexts keeps the count right.
LEMMA CloseAllCount ==
    ASSUME OwnedInv, IsFiniteSet(opened), CountIsOpen,
           NEW n \in 0 .. Len(pool), CloseAll(n)
    PROVE  IsFiniteSet(opened') /\ CountIsOpen' /\ n_pooling' <= n_pooling
<1> DEFINE T == {pool[i] : i \in 1 .. n}
<1>1. IsFiniteSet(T) /\ Cardinality(T) = n
  <2>1. pool \in Seq(Contexts) /\ \A i, j \in 1 .. Len(pool) : pool[i] = pool[j] => i = j
    BY DEF OwnedInv, BaseTypeOK, ContextOwned
  <2> QED
    BY <2>1, PrefixCount
<1>2. T \subseteq opened
  BY DEF OwnedInv, BaseTypeOK, ContextOwned, Pooled
<1>3. opened' = opened \ T /\ n_pooling' = n_pooling - n
  BY DEF CloseAll
<1> HIDE DEF T
<1>4. opened \cap T = T
  BY <1>2
<1>5. IsFiniteSet(opened \ T) /\ Cardinality(opened \ T) = Cardinality(opened) - n
  BY <1>1, <1>4, FS_Difference, ZenonT(60)
<1> QED
  BY <1>3, <1>5 DEF CountIsOpen, OwnedInv, BaseTypeOK

\* When the pool is empty every open context is in the hands of a call.
LEMMA EmptyPoolCount ==
    ASSUME OwnedInv, IsFiniteSet(opened), Len(pool) = 0
    PROVE  IsFiniteSet(Holders) /\ Cardinality(opened) = Cardinality(Holders)
<1> DEFINE f == [s \in Holders |-> ctx[s]]
<1>1. Pooled = {}
  BY DEF Pooled
<1>2. IsFiniteSet(Holders)
  BY ContextsAssumption, FS_Subset DEF Holders
<1>3. f \in Bijection(Holders, opened)
  <2>1. f \in Injection(Holders, opened)
    <3>1. \A s \in Holders : s \in Calls /\ ctx[s] # Nil /\ ctx[s] \in opened
      BY DEF Holders, OwnedInv, ContextOwned
    <3>2. \A s, t \in Holders : f[s] = f[t] => s = t
      BY <3>1 DEF OwnedInv, ContextOwned
    <3>3. f \in [Holders -> opened]
      BY <3>1
    <3> HIDE DEF f
    <3> QED
      BY <3>2, <3>3 DEF Injection, IsInjective
  <2>2. \A c \in opened : \E s \in Holders : f[s] = c
    BY <1>1, ContextsAssumption DEF Holders, OwnedInv, NoneLost, BaseTypeOK
  <2> QED
    BY <2>1, <2>2 DEF Bijection, Injection, IsInjective, Surjection
<1>4. ExistsBijection(Holders, opened)
  BY <1>3 DEF ExistsBijection
<1> QED
  BY <1>2, <1>4, FS_Bijection

\* Neither the open contexts nor the calls that are about to open one change.
LEMMA CountSame ==
    ASSUME CountInv, OwnedInv', UNCHANGED <<opened, n_pooling>>, Opening' = Opening
    PROVE  CountInv'
BY DEF CountInv, CountIsOpen, NotIncreasedContinually, Opening

\* pull gives the mutex back between looking and opening, and still opens no
\* context too many: a call that found the pool empty is one more call
\* without a context.
LEMMA CountStep ==
    ASSUME CountInv, PoolNext
    PROVE  CountInv'
<1> USE ContextsAssumption
<1>0. OwnedInv /\ OwnedInv' /\ IsFiniteSet(opened) /\ CountIsOpen
  BY OwnedStep DEF CountInv
<1>a. /\ pc \in [Calls -> Labels] /\ n_pooling \in Int /\ pool \in Seq(Contexts)
      /\ n_pooling' \in Int
  BY <1>0 DEF OwnedInv, BaseTypeOK
<1>b. IsFiniteSet(Opening) /\ Cardinality(Opening) \in Nat /\ Cardinality(Calls) \in Nat
  BY FS_Subset, FS_CardinalityType DEF Opening
<1>c. n_pooling + Cardinality(Opening) <= Cardinality(Calls)
  BY DEF CountInv, NotIncreasedContinually, Opening
<1>d. ASSUME IsFiniteSet(opened'), CountIsOpen',
             n_pooling' + Cardinality(Opening') <= Cardinality(Calls)
      PROVE  CountInv'
  BY <1>0, <1>d DEF CountInv, NotIncreasedContinually, Opening
<1>1. CASE Clear
  <2>1. CloseAll(Len(pool)) /\ Opening' = Opening
    BY <1>1 DEF Clear, Opening
  <2>2. IsFiniteSet(opened') /\ CountIsOpen' /\ n_pooling' <= n_pooling
    BY <1>0, <1>a, <2>1, CloseAllCount
  <2> QED
    BY <1>a, <1>b, <1>c, <1>d, <2>1, <2>2
<1>2. CASE Expire
  BY <1>0, <1>2, CountSame DEF Expire, Opening
<1>3. CASE KillCancel
  BY <1>0, <1>3, CountSame DEF KillCancel, Opening
<1>4. ASSUME NEW s \in Calls, Call(s) PROVE CountInv'
  <2>1. ASSUME NEW k \in {"command", "other"}, PullPooled(s, k) PROVE CountInv'
    <3>1. Opening' = Opening
      BY <1>a, <2>1 DEF PullPooled, Goto, Opening
    <3>2. CASE expired
      <4>1. CloseAll(Len(pool) - 1) /\ Len(pool) - 1 \in 0 .. Len(pool)
        BY <1>a, <2>1, <3>2 DEF PullPooled
      <4>2. IsFiniteSet(opened') /\ CountIsOpen' /\ n_pooling' <= n_pooling
        BY <1>0, <4>1, CloseAllCount
      <4> QED
        BY <1>a, <1>b, <1>c, <1>d, <3>1, <4>2
    <3>3. CASE ~expired
      BY <1>0, <2>1, <3>1, <3>3, CountSame DEF PullPooled
    <3> QED
      BY <3>2, <3>3
  <2>2. ASSUME NEW k \in {"command", "other"}, PullNone(s, k) PROVE CountInv'
    <3>1. /\ Opening' = Opening \cup {s} /\ s \notin Opening
          /\ Len(pool) = 0 /\ UNCHANGED <<opened, n_pooling>>
      BY <1>a, <2>2 DEF PullNone, Goto, Opening
    <3>2. IsFiniteSet(Holders) /\ n_pooling = Cardinality(Holders)
      BY <1>0, <3>1, EmptyPoolCount DEF CountIsOpen
    <3>3. Holders \cap (Opening \cup {s}) = {} /\ Holders \cup (Opening \cup {s}) \subseteq Calls
      BY <1>0, <2>2 DEF Holders, Opening, PullNone, OwnedInv, HolderOK, Holding
    <3>4. IsFiniteSet(Opening \cup {s}) /\ Cardinality(Opening \cup {s}) \in Nat
      BY <1>b, FS_AddElement, FS_CardinalityType
    <3>5. Cardinality(Holders \cup (Opening \cup {s}))
            = Cardinality(Holders) + Cardinality(Opening \cup {s})
      <4>1. Cardinality(Holders \cup (Opening \cup {s}))
              = Cardinality(Holders) + Cardinality(Opening \cup {s}) - Cardinality({})
        BY <3>2, <3>3, <3>4, FS_Union
      <4> QED
        BY <3>2, <3>4, <4>1, FS_EmptySet, FS_CardinalityType
    <3>6. Cardinality(Holders \cup (Opening \cup {s})) <= Cardinality(Calls)
      BY <3>3, FS_Subset
    <3>7. n_pooling' + Cardinality(Opening') <= Cardinality(Calls)
      BY <3>1, <3>2, <3>5, <3>6
    <3> QED
      BY <1>0, <1>d, <3>1, <3>7 DEF CountIsOpen
  <2>3. ASSUME NEW c \in Contexts, PullOpen(s, c) PROVE CountInv'
    <3>1. /\ Opening' = Opening \ {s} /\ s \in Opening /\ c \notin opened
          /\ opened' = opened \cup {c} /\ n_pooling' = n_pooling + 1
      BY <1>a, <2>3 DEF PullOpen, Goto, Opening
    <3>2. IsFiniteSet(opened') /\ CountIsOpen'
      BY <1>0, <3>1, FS_AddElement DEF CountIsOpen
    <3>3. Cardinality(Opening') = Cardinality(Opening) - 1
      BY <1>b, <3>1, FS_RemoveElement
    <3> QED
      BY <1>a, <1>b, <1>c, <1>d, <3>1, <3>2, <3>3
  <2>4. CASE Associate(s)
    BY <1>0, <1>a, <2>4, CountSame DEF Associate, Goto, Opening
  <2>5. CASE InitDone(s)
    BY <1>0, <1>a, <2>5, CountSame DEF InitDone, Goto, Opening
  <2>6. CASE InitFail(s)
    BY <1>0, <1>a, <2>6, CountSame DEF InitFail, Goto, Opening
  <2>7. CASE CommandFail(s)
    BY <1>0, <1>a, <2>7, CountSame DEF CommandFail, Goto, Opening
  <2>8. CASE Deinit(s)
    BY <1>0, <1>a, <2>8, CountSame DEF Deinit, Goto, Opening
  <2>9. CASE Release(s)
    BY <1>0, <1>a, <2>9, CountSame DEF Release, Goto, Opening
  <2>10. CASE CloseConnection(s)
    BY <1>0, <1>a, <2>10, CountSame DEF CloseConnection, Goto, Opening
  <2>11. ASSUME NEW c \in Contexts, KillLook(s, c) PROVE CountInv'
    BY <1>0, <1>a, <2>11, CountSame DEF KillLook, Goto, Opening
  <2> QED
    BY <1>4, <2>1, <2>2, <2>3, <2>4, <2>5, <2>6, <2>7, <2>8, <2>9, <2>10, <2>11 DEF Call
<1> QED
  BY <1>1, <1>2, <1>3, <1>4 DEF PoolNext

LEMMA CountInit == PoolInit => CountInv
<1> SUFFICES ASSUME PoolInit PROVE CountInv
  OBVIOUS
<1>1. OwnedInv
  BY OwnedInit
<1>2. opened = {} /\ n_pooling = 0 /\ Opening = {}
  BY DEF PoolInit, Opening
<1>3. Cardinality(Calls) \in Nat
  BY ContextsAssumption, FS_CardinalityType
<1> QED
  BY <1>1, <1>2, <1>3, FS_EmptySet DEF CountInv, CountIsOpen, NotIncreasedContinually, Opening

LEMMA CountInvariant == PoolSpec => []CountInv
<1>1. CountInv /\ [PoolNext]_vars => CountInv'
  <2> SUFFICES ASSUME CountInv, UNCHANGED vars PROVE CountInv'
    BY CountStep
  <2> QED
    BY DEF vars, CountInv, OwnedInv, BaseTypeOK, HolderOK, ContextOwned, NoneLost, Pooled,
           CountIsOpen, NotIncreasedContinually
<1> QED
  BY CountInit, <1>1, PTL DEF PoolSpec

\* Every variable keeps its type; the counter does not become negative,
\* although two places subtract from it.
THEOREM PoolTypeCorrect == PoolSpec => []PoolTypeOK
<1>1. CountInv => PoolTypeOK
  <2> SUFFICES ASSUME CountInv PROVE PoolTypeOK
    OBVIOUS
  <2>1. n_pooling \in Nat
    BY FS_CardinalityType DEF CountInv, CountIsOpen
  <2> QED
    BY <2>1 DEF CountInv, OwnedInv, BaseTypeOK, PoolTypeOK
<1> QED
  BY CountInvariant, <1>1, PTL

\* The status variable counts every open context after any sequence of pull,
\* release and clear_without_lock.
THEOREM CountIsOpenCorrect == PoolSpec => []CountIsOpen
<1>1. CountInv => CountIsOpen
  BY DEF CountInv
<1> QED
  BY CountInvariant, <1>1, PTL

\* There are never more contexts than calls in progress at a time, although
\* pull looks into the pool and opens a context in two critical sections.
THEOREM NotIncreasedCorrect == PoolSpec => []NotIncreasedContinually
<1>1. CountInv => NotIncreasedContinually
  BY DEF CountInv
<1> QED
  BY CountInvariant, <1>1, PTL

-----------------------------------------------------------------------------
(* KILL                                                                     *)

\* A context leaves its call clean or leaked: the lists, the KILL that looks
\* and the cancelled contexts stay with the calls of mroonga_command.
LEMMA KillStep ==
    ASSUME KillInv, PoolNext
    PROVE  KillInv'
<1> USE ContextsAssumption
<1>0. OwnedInv /\ OwnedInv' /\ BaseTypeOK /\ BaseTypeOK' /\ HolderOK
  BY OwnedStep DEF KillInv, OwnedInv
<1>a. SlotOK /\ KillingOK /\ CancelIsOwn
  BY DEF KillInv
<1> USE DEF SlotOK, KillingOK, CancelIsOwn, Reachable, BaseTypeOK, Goto
<1>1. CASE Clear
  BY <1>0, <1>a, <1>1 DEF Clear, CloseAll, KillInv
<1>2. CASE Expire
  BY <1>0, <1>a, <1>2 DEF Expire, KillInv
<1>3. CASE KillCancel
  BY <1>0, <1>a, <1>3 DEF KillCancel, KillInv
<1>4. ASSUME NEW s \in Calls, Call(s) PROVE KillInv'
  <2>1. ASSUME NEW k \in {"command", "other"}, PullPooled(s, k) PROVE KillInv'
    <3>1. ctx[s] = Nil /\ opened' \subseteq opened /\ pool[Len(pool)] \in Contexts
      BY <1>0, <2>1, FrontFacts DEF PullPooled, CloseAll, HolderOK, Holding
    <3> QED
      BY <1>0, <1>a, <2>1, <3>1 DEF PullPooled, KillInv
  <2>2. ASSUME NEW k \in {"command", "other"}, PullNone(s, k) PROVE KillInv'
    <3>1. ctx[s] = Nil
      BY <1>0, <2>2 DEF PullNone, HolderOK, Holding
    <3> QED
      BY <1>0, <1>a, <2>2, <3>1 DEF PullNone, KillInv
  <2>3. ASSUME NEW c \in Contexts, PullOpen(s, c) PROVE KillInv'
    <3>1. ctx[s] = Nil
      BY <1>0, <2>3 DEF PullOpen, HolderOK, Holding
    <3> QED
      BY <1>0, <1>a, <2>3, <3>1 DEF PullOpen, KillInv
  <2>4. CASE Associate(s)
    BY <1>0, <1>a, <2>4 DEF Associate, KillInv
  <2>5. CASE InitDone(s)
    BY <1>0, <1>a, <2>5 DEF InitDone, KillInv
  <2>6. CASE InitFail(s)
    BY <1>0, <1>a, <2>6 DEF InitFail, KillInv
  <2>7. CASE CommandFail(s)
    BY <1>0, <1>a, <2>7 DEF CommandFail, KillInv
  <2>8. CASE Deinit(s)
    BY <1>0, <1>a, <2>8 DEF Deinit, KillInv
  <2>9. CASE Release(s)
    BY <1>0, <1>a, <2>9 DEF Release, KillInv
  <2>10. CASE CloseConnection(s)
    BY <1>0, <1>a, <2>10 DEF CloseConnection, KillInv
  <2>11. ASSUME NEW c \in Contexts, KillLook(s, c) PROVE KillInv'
    BY <1>0, <1>a, <2>11 DEF KillLook, KillInv
  <2> QED
    BY <1>4, <2>1, <2>2, <2>3, <2>4, <2>5, <2>6, <2>7, <2>8, <2>9, <2>10, <2>11 DEF Call
<1> QED
  BY <1>1, <1>2, <1>3, <1>4 DEF PoolNext

\* A cancelled context belongs to a call of mroonga_command in progress, in
\* every interleaving of KILL with the killed session, except for the two
\* ways out of mroonga_command that the history variable leaked records.
THEOREM CancelIsOwnCorrect == PoolSpec => []CancelIsOwn
<1>1. PoolInit => KillInv
  <2> SUFFICES ASSUME PoolInit PROVE KillInv
    OBVIOUS
  <2> QED
    BY OwnedInit DEF KillInv, PoolInit, SlotOK, KillingOK, CancelIsOwn
<1>2. KillInv /\ [PoolNext]_vars => KillInv'
  <2> SUFFICES ASSUME KillInv, UNCHANGED vars PROVE KillInv'
    BY KillStep
  <2> QED
    BY DEF vars, KillInv, OwnedInv, BaseTypeOK, HolderOK, ContextOwned, NoneLost, Pooled,
           SlotOK, KillingOK, CancelIsOwn, Reachable
<1>3. KillInv => CancelIsOwn
  BY DEF KillInv
<1> QED
  BY <1>1, <1>2, <1>3, PTL DEF PoolSpec

=============================================================================
