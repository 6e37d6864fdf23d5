---------------------- MODULE ApplicationLock_proof -----------------------
(***************************************************************************)
(* Proofs about ApplicationLock, for any number of owners, applications    *)
(* and calls, and any lease, clock skew and delay: the typed inductive     *)
(* invariant IInv, mutual exclusion, no takeover of a live lock, and the   *)
(* implementation of ApplicationLease.                                     *)
(***************************************************************************)
EXTENDS ApplicationLock, TLAPS

USE NobodyIsNoOwner, ClockAssumption

---------------------------------------------------------------------------
\* A new call changes no other, but for noting that it is not alone.
LEMMA BeginLeavesOthers ==
  ASSUME NEW c \in Calls, NEW o \in Owners, NEW k \in Keys, Begin(c, o, k),
         NEW d \in Calls, d # c
  PROVE  calls'[d] = IF Runs(d, o, k) THEN [calls[d] EXCEPT !.alone = FALSE] ELSE calls[d]
<1>1. PICK skew \in 0..MaxSkew : AddCall(c, o, k, now + skew)
  BY DEF Begin
<1> QED
  BY <1>1 DEF AddCall

LEMMA BeginAddsOne ==
  ASSUME NEW c \in Calls, NEW o \in Owners, NEW k \in Keys, Begin(c, o, k)
  PROVE  \E skew \in 0..MaxSkew :
           calls'[c] = [pc |-> "query", owner |-> o, key |-> k, at |-> now, stamp |-> now + skew,
                        alone |-> ~\E e \in Calls : Runs(e, o, k)]
<1>1. PICK skew \in 0..MaxSkew : AddCall(c, o, k, now + skew)
  BY DEF Begin
<1> QED
  BY <1>1 DEF AddCall

LEMMA BeginKeepsTypes ==
  ASSUME TypeOK, NEW c \in Calls, NEW o \in Owners, NEW k \in Keys, Begin(c, o, k)
  PROVE  calls' \in [Calls -> Call \cup {Idle}]
<1>1. DOMAIN calls' = Calls /\ calls' = [d \in Calls |-> calls'[d]]
  BY DEF Begin, AddCall
<1>2. calls'[c] \in Call
  <2>1. PICK skew \in 0..MaxSkew :
          calls'[c] = [pc |-> "query", owner |-> o, key |-> k, at |-> now, stamp |-> now + skew,
                       alone |-> ~\E e \in Calls : Runs(e, o, k)]
    BY BeginAddsOne
  <2>2. now + skew \in Nat /\ now \in Nat
    BY DEF TypeOK
  <2> QED
    BY <2>1, <2>2 DEF Call
<1>3. ASSUME NEW d \in Calls, d # c PROVE calls'[d] \in Call \cup {Idle}
  <2>1. CASE Runs(d, o, k)
    <3>1. calls[d] \in Call
      BY <2>1 DEF TypeOK, Runs, Running, Idle
    <3>2. calls'[d] = [calls[d] EXCEPT !.alone = FALSE]
      BY <1>3, <2>1, BeginLeavesOthers
    <3> QED
      BY <3>1, <3>2 DEF Call
  <2>2. CASE ~Runs(d, o, k)
    <3>1. calls'[d] = calls[d]
      BY <1>3, <2>2, BeginLeavesOthers
    <3> QED
      BY <3>1 DEF TypeOK
  <2> QED
    BY <2>1, <2>2
<1> QED
  BY <1>1, <1>2, <1>3

\* The same, field by field.
LEMMA BeginSetsFields ==
  ASSUME TypeOK, NEW c \in Calls, NEW o \in Owners, NEW k \in Keys, Begin(c, o, k)
  PROVE  /\ calls'[c].pc = "query" /\ calls'[c].owner = o /\ calls'[c].key = k
         /\ calls'[c].at = now /\ calls'[c].stamp \in now..(now + MaxSkew)
         /\ calls'[c].alone = ~\E e \in Calls : Runs(e, o, k)
         /\ \A d \in Calls \ {c} : ~Running(d) => calls'[d] = calls[d]
         /\ \A d \in Calls \ {c} : Running(d) =>
              /\ calls'[d].pc = calls[d].pc
              /\ calls'[d].owner = calls[d].owner /\ calls'[d].key = calls[d].key
              /\ calls'[d].at = calls[d].at /\ calls'[d].stamp = calls[d].stamp
              /\ calls'[d].alone => calls[d].alone /\ ~Runs(d, o, k)
<1>1. PICK skew \in 0..MaxSkew :
        calls'[c] = [pc |-> "query", owner |-> o, key |-> k, at |-> now, stamp |-> now + skew,
                     alone |-> ~\E e \in Calls : Runs(e, o, k)]
  BY BeginAddsOne
<1>2. calls'[c].stamp \in now..(now + MaxSkew)
  BY <1>1 DEF TypeOK
<1>3. ASSUME NEW d \in Calls \ {c}, ~Running(d) PROVE calls'[d] = calls[d]
  BY <1>3, BeginLeavesOthers DEF Runs
<1>4. ASSUME NEW d \in Calls \ {c}, Running(d)
      PROVE  /\ calls'[d].pc = calls[d].pc
             /\ calls'[d].owner = calls[d].owner /\ calls'[d].key = calls[d].key
             /\ calls'[d].at = calls[d].at /\ calls'[d].stamp = calls[d].stamp
             /\ calls'[d].alone => calls[d].alone /\ ~Runs(d, o, k)
  <2>1. calls[d] \in Call
    BY <1>4 DEF TypeOK, Running, Idle
  <2>2. CASE Runs(d, o, k)
    <3>1. calls'[d] = [calls[d] EXCEPT !.alone = FALSE]
      BY <2>2, BeginLeavesOthers
    <3> QED
      BY <2>1, <3>1 DEF Call
  <2>3. CASE ~Runs(d, o, k)
    <3>1. calls'[d] = calls[d]
      BY <2>3, BeginLeavesOthers
    <3> QED
      BY <2>3, <3>1
  <2> QED
    BY <2>2, <2>3
<1> QED
  BY <1>1, <1>2, <1>3, <1>4

\* Every step of the lock collection keeps the variables in their types.
LEMMA NextKeepsTypes == TypeOK /\ [Next]_vars => TypeOK'
<1> SUFFICES ASSUME TypeOK, [Next]_vars PROVE TypeOK'
  OBVIOUS
<1> USE DEF TypeOK, Lock, Call, NoLock, Idle, LockDocument
<1>1. ASSUME NEW c \in Calls, NEW o \in Owners, NEW k \in Keys, Begin(c, o, k)
      PROVE  TypeOK'
  BY <1>1, BeginKeepsTypes DEF Begin
<1>2. ASSUME NEW c \in Calls, UpdateMatched(c) PROVE TypeOK'
  BY <1>2 DEF UpdateMatched, Return
<1>3. ASSUME NEW c \in Calls, MatchNothing(c) PROVE TypeOK'
  BY <1>3 DEF MatchNothing, Return
<1>4. ASSUME NEW c \in Calls, InsertLock(c) PROVE TypeOK'
  BY <1>4 DEF InsertLock, Return
<1>5. ASSUME NEW c \in Calls, DuplicateKey(c) PROVE TypeOK'
  BY <1>5 DEF DuplicateKey, Return
<1>6. ASSUME NEW c \in Calls, Forget(c) PROVE TypeOK'
  BY <1>6 DEF Forget
<1>7. ASSUME NEW S, NEW o \in Owners, Delete(S, o) PROVE TypeOK'
  BY <1>7 DEF Delete
<1>8. ASSUME NEW k \in Keys, ReapLock(k) PROVE TypeOK'
  BY <1>8 DEF ReapLock
<1>9. CASE Tick
  BY <1>9 DEF Tick
<1>10. CASE UNCHANGED vars
  BY <1>10 DEF vars
<1> QED
  BY <1>1, <1>2, <1>3, <1>4, <1>5, <1>6, <1>7, <1>8, <1>9, <1>10
  DEF Next, ReleaseApplicationLock, ReleaseAllApplicationLocksForOwner

---------------------------------------------------------------------------
\* A call keeps the stamp it began with, and the clock does not run past the
\* end of a running call.
LEMMA NextKeepsStamps == TypeOK /\ StampsAreRecent /\ [Next]_vars => StampsAreRecent'
<1> DEFINE Recent(d) ==
      calls'[d] # Idle =>
        /\ calls'[d].at <= now'
        /\ calls'[d].at <= calls'[d].stamp
        /\ calls'[d].stamp <= calls'[d].at + MaxSkew
        /\ calls'[d].pc \in {"query", "insert"} => now' <= calls'[d].at + MaxDelay
<1> SUFFICES ASSUME TypeOK, StampsAreRecent, [Next]_vars, NEW d \in Calls
             PROVE  Recent(d)
  BY DEF StampsAreRecent, Running
<1> USE DEF TypeOK, Call, Idle, Running, StampsAreRecent
<1>1. ASSUME NEW c \in Calls, NEW o \in Owners, NEW k \in Keys, Begin(c, o, k)
      PROVE  Recent(d)
  <2>1. calls[c] = Idle /\ now' = now
    BY <1>1 DEF Begin
  <2>2. CASE d = c
    <3>1. /\ calls'[d].at = now /\ calls'[d].stamp \in now..(now + MaxSkew)
      BY <1>1, <2>2, BeginSetsFields
    <3> QED
      BY <2>1, <3>1
  <2>3. CASE d # c
    <3>1. CASE Running(d)
      <4>1. /\ calls'[d].pc = calls[d].pc
            /\ calls'[d].at = calls[d].at /\ calls'[d].stamp = calls[d].stamp
        BY <1>1, <2>3, <3>1, BeginSetsFields
      <4> QED
        BY <2>1, <3>1, <4>1
    <3>2. CASE ~Running(d)
      <4>1. calls'[d] = calls[d]
        BY <1>1, <2>3, <3>2, BeginSetsFields
      <4> QED
        BY <2>1, <4>1
    <3> QED
      BY <3>1, <3>2
  <2> QED
    BY <2>2, <2>3
<1>2. ASSUME NEW c \in Calls, Answer(c)
      PROVE  Recent(d)
  <2>1. PICK result : Running(c) /\ Return(c, result) /\ now' = now
    BY <1>2 DEF Answer, UpdateMatched, MatchNothing, InsertLock, DuplicateKey
  <2> QED
    BY <2>1 DEF Return
<1>3. ASSUME calls'[d] = calls[d] \/ calls'[d] = Idle, now' = now
      PROVE  Recent(d)
  BY <1>3
<1>4. ASSUME NEW c \in Calls, Forget(c)
      PROVE  Recent(d)
  BY <1>3, <1>4 DEF Forget
<1>5. ASSUME NEW S, NEW o \in Owners, Delete(S, o)
      PROVE  Recent(d)
  BY <1>3, <1>5 DEF Delete
<1>6. ASSUME NEW k \in Keys, ReapLock(k)
      PROVE  Recent(d)
  BY <1>3, <1>6 DEF ReapLock
<1>7. CASE Tick
  BY <1>7 DEF Tick
<1>8. CASE UNCHANGED vars
  BY <1>3, <1>8 DEF vars
<1> HIDE DEF Recent
<1> QED
  BY <1>1, <1>2, <1>4, <1>5, <1>6, <1>7, <1>8
  DEF Next, Answer, ReleaseApplicationLock, ReleaseAllApplicationLocksForOwner

\* The document behind a lock that is relied on stays the caller's: nobody
\* else can have taken it over, and no refresh of the same owner can have
\* shortened the lease by more than the margin.
LEMMA NextKeepsReliance == IInv /\ [Next]_vars => RelianceIsBacked'
<1> SUFFICES ASSUME IInv, [Next]_vars, NEW d \in Calls, Relies(d)'
             PROVE  /\ locks'[calls'[d].key].ownerId = calls'[d].owner
                    /\ calls'[d].stamp + APPLICATION_LOCK_TTL_MS
                         <= locks'[calls'[d].key].expiresAt + MaxSkew + MaxDelay
  BY DEF RelianceIsBacked
<1> DEFINE Backed(x) ==
      /\ locks'[calls'[x].key].ownerId = calls'[x].owner
      /\ calls'[x].stamp + APPLICATION_LOCK_TTL_MS
           <= locks'[calls'[x].key].expiresAt + MaxSkew + MaxDelay
<1> USE DEF IInv, TypeOK, Lock, Call, Idle, NoLock, Holding
\* A step that leaves the clock, the document and this call alone.
<1>1. ASSUME calls'[d] = calls[d], now' = now, locks'[calls[d].key] = locks[calls[d].key]
      PROVE  Backed(d)
  BY <1>1 DEF Relies, RelianceIsBacked
<1>2. ASSUME NEW c \in Calls, NEW o \in Owners, NEW k \in Keys, Begin(c, o, k)
      PROVE  Backed(d)
  <2>1. d # c
    BY <1>2, BeginSetsFields DEF Relies
  <2>2. calls'[d] = calls[d]
    <3>1. calls'[d].pc = "held"
      BY DEF Relies
    <3>2. ~Running(d)
      BY <1>2, <2>1, <3>1, BeginSetsFields DEF Running
    <3> QED
      BY <1>2, <2>1, <3>2, BeginSetsFields
  <2> QED
    BY <1>1, <1>2, <2>2 DEF Begin
<1>3. ASSUME NEW c \in Calls, UpdateMatched(c)
      PROVE  Backed(d)
  <2> DEFINE k == calls[c].key
  <2> DEFINE s == calls[c].stamp
  <2>1. /\ calls[c] \in Call
        /\ calls[c].pc = "query"
        /\ now' = now
        /\ locks'[k] = LockDocument(calls[c].owner, s)
        /\ \A j \in Keys \ {k} : locks'[j] = locks[j]
        /\ calls'[c] = [calls[c] EXCEPT !.pc = "held"]
        /\ \A e \in Calls \ {c} : calls'[e] = calls[e]
    BY <1>3 DEF UpdateMatched, Return
  <2>2. CASE d = c
    BY <2>1, <2>2 DEF LockDocument
  <2>3. CASE d # c /\ calls[d].key # k
    <3>1. calls[d] \in Call
      BY <2>1, <2>3 DEF Relies
    <3> QED
      BY <1>1, <2>1, <2>3, <3>1
  <2>4. CASE d # c /\ calls[d].key = k
    <3>1. /\ calls[d] \in Call
          /\ calls'[d] = calls[d]
          /\ Relies(d)
      BY <2>1, <2>4 DEF Relies
    <3>2. /\ locks[k].ownerId = calls[d].owner
          /\ calls[d].stamp + APPLICATION_LOCK_TTL_MS
               <= locks[k].expiresAt + MaxSkew + MaxDelay
      BY <3>1, <2>4 DEF RelianceIsBacked
    <3>3. /\ calls[d].stamp <= now + MaxSkew
          /\ now <= s + MaxDelay
          /\ s <= now + MaxSkew
      BY <3>1, <2>1 DEF StampsAreRecent, Running
    <3>4. now + 2 * MaxSkew + MaxDelay < calls[d].stamp + APPLICATION_LOCK_TTL_MS
      BY <3>1 DEF Relies
    <3>5. locks[k] \in Lock \cup {NoLock} /\ k \in Keys
      BY <2>1
    <3>6. ~(locks[k].expiresAt <= s)
      BY <3>1, <3>2, <3>3, <3>4, <3>5, <2>1
    <3>7. locks[k].ownerId = calls[c].owner
      BY <1>3, <3>6 DEF UpdateMatched, Matches
    <3>8. calls[d].stamp + APPLICATION_LOCK_TTL_MS
            <= s + APPLICATION_LOCK_TTL_MS + MaxSkew + MaxDelay
      BY <3>1, <3>3, <2>1
    <3> QED
      BY <2>1, <2>4, <3>1, <3>2, <3>7, <3>8 DEF LockDocument
  <2> QED
    BY <2>2, <2>3, <2>4
<1>4. ASSUME NEW c \in Calls, MatchNothing(c) \/ DuplicateKey(c)
      PROVE  Backed(d)
  <2>1. d # c
    BY <1>4 DEF MatchNothing, DuplicateKey, Return, Relies
  <2> QED
    BY <1>1, <1>4, <2>1 DEF MatchNothing, DuplicateKey, Return
<1>5. ASSUME NEW c \in Calls, InsertLock(c)
      PROVE  Backed(d)
  <2>1. /\ calls[c] \in Call
        /\ locks[calls[c].key] = NoLock
        /\ now' = now
        /\ locks'[calls[c].key] = LockDocument(calls[c].owner, calls[c].stamp)
        /\ \A j \in Keys \ {calls[c].key} : locks'[j] = locks[j]
        /\ calls'[c] = [calls[c] EXCEPT !.pc = "held"]
        /\ \A e \in Calls \ {c} : calls'[e] = calls[e]
    BY <1>5 DEF InsertLock, Return
  <2>2. CASE d = c
    BY <2>1, <2>2 DEF LockDocument
  <2>3. CASE d # c
    <3>1. calls[d] \in Call /\ calls'[d] = calls[d] /\ Relies(d)
      BY <2>1, <2>3 DEF Relies
    <3>2. calls[d].key # calls[c].key
      BY <2>1, <3>1 DEF RelianceIsBacked
    <3> QED
      BY <1>1, <2>1, <3>1, <3>2
  <2> QED
    BY <2>2, <2>3
<1>6. ASSUME NEW c \in Calls, Forget(c)
      PROVE  Backed(d)
  <2>1. d # c
    BY <1>6 DEF Forget, Relies
  <2> QED
    BY <1>1, <1>6, <2>1 DEF Forget
<1>7. ASSUME NEW S, NEW o \in Owners, Delete(S, o)
      PROVE  Backed(d)
  <2>1. calls'[d] = calls[d] /\ now' = now /\ calls[d] \in Call
    BY <1>7 DEF Delete, Relies
  <2>2. Relies(d) /\ locks[calls[d].key].ownerId = calls[d].owner
    BY <2>1 DEF Relies, RelianceIsBacked
  <2>3. ~(calls[d].owner = o /\ calls[d].key \in S)
    BY <1>7, <2>1, <2>2 DEF Delete, Relies
  <2>4. locks'[calls[d].key] = locks[calls[d].key]
    BY <1>7, <2>1, <2>2, <2>3 DEF Delete
  <2> QED
    BY <1>1, <2>1, <2>4
<1>8. ASSUME NEW k \in Keys, ReapLock(k)
      PROVE  Backed(d)
  <2>1. calls'[d] = calls[d] /\ now' = now /\ calls[d] \in Call /\ Relies(d)
    BY <1>8 DEF ReapLock, Relies
  <2>2. calls[d].key # k
    <3> SUFFICES ASSUME calls[d].key = k PROVE FALSE
      OBVIOUS
    <3>1. calls[d].stamp + APPLICATION_LOCK_TTL_MS
            <= locks[k].expiresAt + MaxSkew + MaxDelay
      BY <2>1 DEF RelianceIsBacked
    <3>2. now + 2 * MaxSkew + MaxDelay < calls[d].stamp + APPLICATION_LOCK_TTL_MS
      BY <2>1 DEF Relies
    <3>3. locks[k].expiresAt <= now + MaxSkew /\ locks[k].expiresAt \in Nat
      BY <1>8 DEF ReapLock, Expired
    <3> QED
      BY <2>1, <3>1, <3>2, <3>3
  <2> QED
    BY <1>1, <1>8, <2>1, <2>2 DEF ReapLock
<1>9. CASE Tick
  <2>1. calls' = calls /\ locks' = locks /\ now' = now + 1 /\ calls[d] \in Call
    BY <1>9 DEF Tick, Relies
  <2>2. Relies(d)
    BY <2>1 DEF Relies
  <2> QED
    BY <2>1, <2>2 DEF RelianceIsBacked
<1>10. CASE UNCHANGED vars
  BY <1>1, <1>10 DEF vars
<1> QED
  BY <1>2, <1>3, <1>4, <1>5, <1>6, <1>7, <1>8, <1>9, <1>10
  DEF Next, ReleaseApplicationLock, ReleaseAllApplicationLocksForOwner

---------------------------------------------------------------------------
LEMMA InitInvariant == Init => IInv
  BY DEF Init, IInv, TypeOK, StampsAreRecent, RelianceIsBacked, Relies, Holding, Idle, NoLock

\* IInv, the types together with the two facts about stamps and reliance, is
\* an inductive invariant of the lock collection.
THEOREM LockInvariant == Spec => []IInv
<1>1. IInv /\ [Next]_vars => IInv'
  BY NextKeepsTypes, NextKeepsStamps, NextKeepsReliance DEF IInv
<1> QED
  BY InitInvariant, <1>1, PTL DEF Spec

\* The variables of the lock collection stay in their types.
THEOREM LockTypes == Spec => []TypeOK
  BY LockInvariant, PTL DEF IInv

\* A call that relies on its lock has a document of its own behind it, whose
\* lease outlasts the call's but for the skew and the delay.
THEOREM LockReliance == Spec => []RelianceIsBacked
<1>1. IInv => RelianceIsBacked
  BY DEF IInv
<1> QED
  BY <1>1, LockInvariant, PTL

\* Two different owners never rely on the lock of one application at the same
\* time, whatever the lease, the clock skew and the delay of calls are: the one
\* document of an application has one owner, and it backs both.
THEOREM LockExclusion == Spec => []MutualExclusion
<1>1. IInv => MutualExclusion
  BY DEF IInv, RelianceIsBacked, MutualExclusion
<1> QED
  BY LockInvariant, <1>1, PTL

\* A lock passes to another owner without being deleted in between only when
\* its lease is over by a clock that is at most MaxSkew ahead.
THEOREM LockTakeover == Spec => NoTakeoverBeforeExpiry
<1> DEFINE Takeover ==
      \A k \in Keys :
        /\ locks[k] # NoLock
        /\ locks'[k] # NoLock
        /\ locks'[k].ownerId # locks[k].ownerId
        => locks[k].expiresAt <= now + MaxSkew
<1>1. IInv /\ [Next]_vars => Takeover
  <2> SUFFICES ASSUME IInv, [Next]_vars, NEW k \in Keys,
                      locks[k] # NoLock,
                      locks'[k] # NoLock,
                      locks'[k].ownerId # locks[k].ownerId
               PROVE  locks[k].expiresAt <= now + MaxSkew
    OBVIOUS
  <2> USE DEF IInv, TypeOK
  <2>1. ASSUME NEW c \in Calls, UpdateMatched(c)
        PROVE  locks[k].expiresAt <= now + MaxSkew
    <3>1. calls[c].key = k /\ calls[c] # Idle
      BY <2>1 DEF UpdateMatched, Call, Idle
    <3>2. locks[k].expiresAt <= calls[c].stamp
      BY <2>1, <3>1 DEF UpdateMatched, Matches, LockDocument, Call, Idle
    <3>3. calls[c].stamp <= now + MaxSkew
      BY <3>1 DEF StampsAreRecent, Call, Idle
    <3>4. calls[c].stamp \in Nat /\ locks[k].expiresAt \in Nat
      BY <3>1 DEF Call, Idle, Lock, NoLock
    <3> QED
      BY <3>2, <3>3, <3>4
  <2>2. ASSUME NEW c \in Calls, InsertLock(c) PROVE FALSE
    BY <2>2 DEF InsertLock, Call, Idle
  <2>3. ASSUME NEW S, NEW o \in Owners, Delete(S, o) PROVE FALSE
    BY <2>3 DEF Delete
  <2>4. ASSUME NEW j \in Keys, ReapLock(j) PROVE FALSE
    BY <2>4 DEF ReapLock
  <2>5. ASSUME locks' = locks PROVE FALSE
    BY <2>5
  <2> QED
    BY <2>1, <2>2, <2>3, <2>4, <2>5
    DEF Next, vars, Begin, MatchNothing, DuplicateKey, Forget, Tick,
        ReleaseApplicationLock, ReleaseAllApplicationLocksForOwner
<1> HIDE DEF Takeover
<1>2. Spec => [][Takeover]_vars
  BY LockInvariant, <1>1, PTL DEF Spec
<1> QED
  BY <1>2 DEF NoTakeoverBeforeExpiry, Takeover

---------------------------------------------------------------------------
(* One's own lock *)

SameLock(c, d) == calls[c].owner = calls[d].owner /\ calls[c].key = calls[d].key

\* Of calls that overlap, none is alone; and while a call that is alone goes
\* on to insert, what is in its way is not its own.
OwnLock ==
  /\ \A c, d \in Calls :
       c # d /\ Running(c) /\ Running(d) /\ SameLock(c, d) => ~calls[c].alone
  /\ \A c \in Calls :
       calls[c].pc = "insert" /\ calls[c].alone => locks[calls[c].key].ownerId # calls[c].owner

LEMMA BeginKeepsOwnLock ==
  ASSUME TypeOK, OwnLock, NEW b \in Calls, NEW o \in Owners, NEW k \in Keys, Begin(b, o, k)
  PROVE  OwnLock'
<1>1. ASSUME NEW d \in Calls, d # b, Running(d)'
      PROVE  /\ Running(d) /\ calls'[d].pc = calls[d].pc
             /\ calls'[d].owner = calls[d].owner /\ calls'[d].key = calls[d].key
             /\ calls'[d].alone => calls[d].alone /\ ~Runs(d, o, k)
  <2>1. Running(d)
    BY <1>1, BeginSetsFields DEF Running
  <2> QED
    BY <1>1, <2>1, BeginSetsFields
<1>2. /\ calls'[b].pc = "query" /\ calls'[b].owner = o /\ calls'[b].key = k
      /\ calls'[b].alone = ~\E e \in Calls : Runs(e, o, k)
  BY BeginSetsFields
<1>3. ASSUME NEW c \in Calls, NEW d \in Calls,
             c # d, Running(c)', Running(d)', SameLock(c, d)'
      PROVE  ~calls'[c].alone
  <2>1. CASE c = b
    <3>1. Runs(d, o, k)
      BY <1>1, <1>2, <1>3, <2>1 DEF Runs, SameLock
    <3> QED
      BY <1>2, <2>1, <3>1
  <2>2. CASE d = b
    <3>1. Runs(c, o, k)
      BY <1>1, <1>2, <1>3, <2>2 DEF Runs, SameLock
    <3> QED
      BY <1>1, <1>3, <2>2, <3>1
  <2>3. CASE c # b /\ d # b
    <3>1. Running(c) /\ Running(d) /\ SameLock(c, d) /\ (calls'[c].alone => calls[c].alone)
      BY <1>1, <1>3, <2>3 DEF SameLock
    <3> QED
      BY <1>3, <3>1 DEF OwnLock
  <2> QED
    BY <2>1, <2>2, <2>3
<1>4. ASSUME NEW c \in Calls, calls'[c].pc = "insert", calls'[c].alone
      PROVE  locks'[calls'[c].key].ownerId # calls'[c].owner
  <2>1. c # b /\ Running(c)'
    BY <1>2, <1>4 DEF Running
  <2>2. /\ calls[c].pc = "insert" /\ calls[c].alone
        /\ calls'[c].owner = calls[c].owner /\ calls'[c].key = calls[c].key
    BY <1>1, <1>4, <2>1
  <2> QED
    BY <2>2 DEF OwnLock, Begin
<1> QED
  BY <1>3, <1>4 DEF OwnLock

\* Calls that end, and locks that go, change nothing of what is asked.
LEMMA RemovalKeepsOwnLock ==
  ASSUME TypeOK, OwnLock,
         \A c \in Calls : calls'[c] = calls[c] \/ calls'[c] = Idle,
         \A k \in Keys : locks'[k] = locks[k] \/ locks'[k] = NoLock
  PROVE  OwnLock'
<1>1. ASSUME NEW c \in Calls, NEW d \in Calls,
             c # d, Running(c)', Running(d)', SameLock(c, d)'
      PROVE  ~calls'[c].alone
  <2>1. calls'[c] = calls[c] /\ calls'[d] = calls[d]
    BY <1>1 DEF Running, Idle
  <2> QED
    BY <1>1, <2>1 DEF OwnLock, Running, SameLock
<1>2. ASSUME NEW c \in Calls, calls'[c].pc = "insert", calls'[c].alone
      PROVE  locks'[calls'[c].key].ownerId # calls'[c].owner
  <2>1. calls'[c] = calls[c] /\ calls[c] \in Call
    BY <1>2 DEF TypeOK, Idle
  <2>2. locks[calls[c].key].ownerId # calls[c].owner
    BY <1>2, <2>1 DEF OwnLock
  <2>3. calls[c].key \in Keys /\ calls[c].owner \in Owners
    BY <2>1 DEF Call
  <2> QED
    BY <2>1, <2>2, <2>3 DEF NoLock
<1> QED
  BY <1>1, <1>2 DEF OwnLock

\* A call that ends with a lock of its own ends what it overlapped.
LEMMA AnswerKeepsOwnLock ==
  ASSUME TypeOK, OwnLock, NEW b \in Calls, Answer(b)
  PROVE  OwnLock'
<1> USE DEF TypeOK
<1>1. /\ Running(b) /\ calls[b] \in Call
      /\ \E result \in {"insert", "held", "refused"} :
           calls'[b] = [calls[b] EXCEPT !.pc = result]
      /\ \A d \in Calls \ {b} : calls'[d] = calls[d]
  BY DEF Answer, UpdateMatched, MatchNothing, InsertLock, DuplicateKey, Return, Running, Call, Idle
<1>2. /\ calls'[b].owner = calls[b].owner /\ calls'[b].key = calls[b].key
      /\ calls'[b].alone = calls[b].alone
  BY <1>1 DEF Call
<1>3. ASSUME NEW c \in Calls, NEW d \in Calls,
             c # d, Running(c)', Running(d)', SameLock(c, d)'
      PROVE  ~calls'[c].alone
  <2>1. Running(c) /\ Running(d) /\ SameLock(c, d) /\ calls'[c].alone = calls[c].alone
    BY <1>1, <1>2, <1>3 DEF Running, SameLock
  <2> QED
    BY <1>3, <2>1 DEF OwnLock
<1>4. ASSUME NEW c \in Calls, calls'[c].pc = "insert", calls'[c].alone
      PROVE  locks'[calls'[c].key].ownerId # calls'[c].owner
  <2>1. CASE c = b
    <3>1. MatchNothing(b)
      BY <1>1, <1>4, <2>1
      DEF Answer, UpdateMatched, InsertLock, DuplicateKey, Return, Call
    <3>2. locks' = locks /\ ~Matches(calls[b].key, calls[b].owner, calls[b].stamp)
      BY <3>1 DEF MatchNothing
    <3>3. calls[b].owner # Nobody
      BY <1>1 DEF Call
    <3> QED
      BY <1>2, <2>1, <3>2, <3>3 DEF Matches, NoLock
  <2>2. CASE c # b
    <3>1. calls'[c] = calls[c] /\ Running(c) /\ calls[c] \in Call
      BY <1>1, <1>4, <2>2 DEF Running, Idle
    <3>2. locks[calls[c].key].ownerId # calls[c].owner
      BY <1>4, <3>1 DEF OwnLock
    <3>3. ~SameLock(b, c)
      BY <1>1, <1>4, <2>2, <3>1 DEF OwnLock, SameLock
    <3>4. \/ locks' = locks
          \/ locks' = [locks EXCEPT ![calls[b].key] = LockDocument(calls[b].owner, calls[b].stamp)]
      BY DEF Answer, UpdateMatched, MatchNothing, InsertLock, DuplicateKey
    <3>5. calls[c].key \in Keys
      BY <3>1 DEF Call
    <3> QED
      BY <3>1, <3>2, <3>3, <3>4, <3>5 DEF SameLock, LockDocument
  <2> QED
    BY <2>1, <2>2
<1> QED
  BY <1>3, <1>4 DEF OwnLock

LEMMA OwnLockInvariant == Spec => []OwnLock
<1>1. Init => OwnLock
  BY DEF Init, OwnLock, Running, Idle
<1>2. TypeOK /\ OwnLock /\ [Next]_vars => OwnLock'
  <2> SUFFICES ASSUME TypeOK, OwnLock, [Next]_vars PROVE OwnLock'
    OBVIOUS
  <2>1. ASSUME NEW c \in Calls, NEW o \in Owners, NEW k \in Keys, Begin(c, o, k) PROVE OwnLock'
    BY <2>1, BeginKeepsOwnLock
  <2>2. ASSUME NEW c \in Calls, Answer(c) PROVE OwnLock'
    BY <2>2, AnswerKeepsOwnLock
  <2>3. ASSUME NEW c \in Calls, Forget(c) PROVE OwnLock'
    <3>1. /\ \A d \in Calls : calls'[d] = calls[d] \/ calls'[d] = Idle
          /\ \A k \in Keys : locks'[k] = locks[k]
      BY <2>3 DEF Forget, TypeOK
    <3> QED
      BY <3>1, RemovalKeepsOwnLock
  <2>4. ASSUME NEW S, NEW o \in Owners, Delete(S, o) PROVE OwnLock'
    <3>1. /\ \A d \in Calls : calls'[d] = calls[d] \/ calls'[d] = Idle
          /\ \A k \in Keys : locks'[k] = locks[k] \/ locks'[k] = NoLock
      BY <2>4 DEF Delete
    <3> QED
      BY <3>1, RemovalKeepsOwnLock
  <2>5. ASSUME NEW k \in Keys, ReapLock(k) PROVE OwnLock'
    <3>1. /\ \A d \in Calls : calls'[d] = calls[d]
          /\ \A j \in Keys : locks'[j] = locks[j] \/ locks'[j] = NoLock
      BY <2>5 DEF ReapLock, TypeOK
    <3> QED
      BY <3>1, RemovalKeepsOwnLock
  <2>6. ASSUME UNCHANGED <<locks, calls>> PROVE OwnLock'
    BY <2>6, RemovalKeepsOwnLock
  <2> QED
    BY <2>1, <2>2, <2>3, <2>4, <2>5, <2>6
    DEF Next, vars, Tick, Answer, ReleaseApplicationLock, ReleaseAllApplicationLocksForOwner
<1> QED
  BY <1>1, <1>2, LockTypes, PTL DEF Spec

\* A user whose calls do not overlap is never refused because of his own lock,
\* whatever is reaped, taken over or released between the filter and the
\* insert of his upsert (acquireOrRefreshApplicationLock, re-entrant).
THEOREM OwnLockNeverRefused == Spec => OwnLockIsNoObstacle
<1> DEFINE Refusal ==
      \A c \in Calls :
        /\ Running(c) /\ calls[c].alone
        /\ calls'[c] # Idle /\ calls'[c].pc = "refused"
        => locks[calls[c].key].ownerId \notin {Nobody, calls[c].owner}
<1>1. TypeOK /\ OwnLock /\ [Next]_vars => Refusal
  <2> SUFFICES ASSUME TypeOK, OwnLock, [Next]_vars, NEW c \in Calls,
                      Running(c), calls[c].alone, calls'[c] # Idle, calls'[c].pc = "refused"
               PROVE  locks[calls[c].key].ownerId \notin {Nobody, calls[c].owner}
    OBVIOUS
  <2>1. DuplicateKey(c)
    <3> USE DEF TypeOK, Running, Call, Idle
    <3>1. ASSUME NEW d \in Calls, NEW o \in Owners, NEW k \in Keys, Begin(d, o, k) PROVE FALSE
      <4>1. d # c
        BY <3>1 DEF Begin
      <4>2. calls'[c].pc = calls[c].pc
        BY <3>1, <4>1, BeginSetsFields
      <4> QED
        BY <4>2
    <3>2. ASSUME NEW d \in Calls, UpdateMatched(d) \/ MatchNothing(d) \/ InsertLock(d) PROVE FALSE
      BY <3>2 DEF UpdateMatched, MatchNothing, InsertLock, Return
    <3>3. ASSUME NEW d \in Calls, DuplicateKey(d) PROVE d = c
      BY <3>3 DEF DuplicateKey, Return
    <3>4. ASSUME NEW d \in Calls, Forget(d) PROVE FALSE
      BY <3>4 DEF Forget
    <3>5. ASSUME NEW S, NEW o \in Owners, Delete(S, o) PROVE FALSE
      BY <3>5 DEF Delete
    <3>6. ASSUME calls' = calls PROVE FALSE
      BY <3>6
    <3> QED
      BY <3>1, <3>2, <3>3, <3>4, <3>5, <3>6
      DEF Next, vars, ReapLock, Tick, ReleaseApplicationLock, ReleaseAllApplicationLocksForOwner
  <2>2. locks[calls[c].key] # NoLock /\ calls[c].pc = "insert" /\ calls[c].key \in Keys
    BY <2>1 DEF DuplicateKey, TypeOK, Call, Idle
  <2>3. locks[calls[c].key].ownerId # Nobody
    BY <2>2 DEF TypeOK, Lock
  <2>4. locks[calls[c].key].ownerId # calls[c].owner
    BY <2>2 DEF OwnLock
  <2> QED
    BY <2>3, <2>4
<1> HIDE DEF Refusal
<1>2. Spec => [][Refusal]_vars
  BY LockTypes, OwnLockInvariant, <1>1, PTL DEF Spec
<1> QED
  BY <1>2 DEF OwnLockIsNoObstacle, Refusal

---------------------------------------------------------------------------
\* The lock collection implements the abstract lease: acquisitions are grants,
\* deletions of every kind free applications, and the clock lets leases lapse.
THEOREM LockImplementsLease == Spec => ImplementsLease
<1>1. Init => Lease!Init
  BY DEF Init, Lease!Init, LeaseHolder, LapsedLeases, NoLock
<1>2. IInv /\ [Next]_vars => [Lease!Next]_(Lease!vars)
  <2> SUFFICES ASSUME IInv, [Next]_vars PROVE Lease!Next \/ UNCHANGED Lease!vars
    OBVIOUS
  <2> USE DEF IInv, TypeOK, LeaseHolder, LapsedLeases
  <2>1. ASSUME NEW c \in Calls, UpdateMatched(c) \/ InsertLock(c)
        PROVE  Lease!Next
    <3>0. PICK k \in Keys, o \in Owners : k = calls[c].key /\ o = calls[c].owner
      BY <2>1 DEF UpdateMatched, InsertLock, Call, Idle
    <3>1. /\ calls[c] \in Call
          /\ now' = now
          /\ locks' = [locks EXCEPT ![k] = LockDocument(o, calls[c].stamp)]
          /\ locks'[k].ownerId = o
          /\ \A j \in Keys \ {k} : locks'[j] = locks[j]
      BY <2>1, <3>0 DEF UpdateMatched, InsertLock, Call, Idle, LockDocument
    <3>2. LeaseHolder[k] \in {Nobody, o} \/ k \in LapsedLeases
      <4>1. CASE InsertLock(c)
        BY <4>1, <3>0 DEF InsertLock, NoLock
      <4>2. CASE UpdateMatched(c)
        <5>1. locks[k] # NoLock /\ (locks[k].ownerId = o \/ locks[k].expiresAt <= calls[c].stamp)
          BY <4>2, <3>0 DEF UpdateMatched, Matches
        <5>2. calls[c].stamp <= now + MaxSkew /\ calls[c].stamp \in Nat
          BY <3>1 DEF StampsAreRecent, Call, Idle
        <5>3. locks[k].expiresAt \in Nat
          BY <3>1 DEF Lock, NoLock
        <5> QED
          BY <3>1, <5>1, <5>2, <5>3
      <4> QED
        BY <2>1, <4>1, <4>2
    <3>3. LeaseHolder' = [LeaseHolder EXCEPT ![k] = o]
      BY <3>1
    <3>4. LapsedLeases' \in {LapsedLeases \ {k}, LapsedLeases \cup {k}}
      BY <3>1
    <3>5. Lease!Grant(k, o)
      BY <3>2, <3>3, <3>4 DEF Lease!Grant
    <3> QED
      BY <3>5 DEF Lease!Next
  <2>2. ASSUME NEW S \in SUBSET Keys, now' = now,
               locks' = [k \in Keys |-> IF k \in S THEN NoLock ELSE locks[k]]
        PROVE  Lease!Next
    <3>1. LeaseHolder' = [k \in Keys |-> IF k \in S THEN Nobody ELSE LeaseHolder[k]]
      BY <2>2 DEF NoLock
    <3>2. LapsedLeases' = LapsedLeases \ S
      BY <2>2
    <3>3. Lease!Free(S)
      BY <3>1, <3>2 DEF Lease!Free
    <3> QED
      BY <3>3 DEF Lease!Next
  <2>3. ASSUME NEW S \in SUBSET Keys, NEW o \in Owners, Delete(S, o)
        PROVE  Lease!Next
    <3> DEFINE T == {k \in S : locks[k].ownerId = o}
    <3>1. locks' = [k \in Keys |-> IF k \in T THEN NoLock ELSE locks[k]] /\ now' = now
      BY <2>3 DEF Delete
    <3> QED
      BY <2>2, <3>1
  <2>4. ASSUME NEW k \in Keys, ReapLock(k)
        PROVE  Lease!Next
    <3>1. PICK T \in SUBSET Keys : T = {k}
      OBVIOUS
    <3>2. locks' = [j \in Keys |-> IF j \in T THEN NoLock ELSE locks[j]] /\ now' = now
      BY <2>4, <3>1 DEF ReapLock
    <3> QED
      BY <2>2, <3>2
  <2>5. CASE Tick
    <3>1. locks' = locks /\ now' = now + 1
      BY <2>5 DEF Tick
    <3>2. LeaseHolder' = LeaseHolder /\ LapsedLeases' = LapsedLeases \cup LapsedLeases'
      BY <3>1 DEF Lock, NoLock
    <3>3. PICK S \in SUBSET Keys : S = LapsedLeases'
      OBVIOUS
    <3>4. Lease!Lapse(S)
      BY <3>2, <3>3 DEF Lease!Lapse
    <3> QED
      BY <3>4 DEF Lease!Next
  <2>6. ASSUME locks' = locks, now' = now PROVE UNCHANGED Lease!vars
    BY <2>6 DEF Lease!vars
  <2> QED
    BY <2>1, <2>3, <2>4, <2>5, <2>6
    DEF Next, vars, Begin, MatchNothing, DuplicateKey, Forget,
        ReleaseApplicationLock, ReleaseAllApplicationLocksForOwner
<1> QED
  BY LockInvariant, <1>1, <1>2, PTL DEF Spec, Lease!Spec, ImplementsLease

===========================================================================
