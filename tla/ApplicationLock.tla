------------------------- MODULE ApplicationLock --------------------------
(***************************************************************************)
(* The application lock of the state module: one MongoDB document per      *)
(* (grantCode, grantVersion, sbi), taken and refreshed by                  *)
(* acquireOrRefreshApplicationLock, dropped by releaseApplicationLock and  *)
(* releaseAllApplicationLocksForOwner, and removed by the TTL index once   *)
(* expiresAt has passed.                                                   *)
(*                                                                         *)
(* acquireOrRefreshApplicationLock reads the clock of its own instance and *)
(* only then talks to MongoDB, where an upsert is two steps: the filter is *)
(* matched, and if nothing matched a document is inserted, which the       *)
(* unique index may refuse. Other calls run between any two of these.      *)
(***************************************************************************)
EXTENDS Naturals

CONSTANTS
  Owners,                   \* users that ask for locks
  Keys,                     \* applications (grantCode, grantVersion, sbi)
  Calls,                    \* slots for calls that are running or have returned
  Nobody,                   \* ownerId of a document that does not exist
  APPLICATION_LOCK_TTL_MS,  \* length of a lease
  MaxSkew,                  \* how far an instance's clock may be ahead
  MaxDelay,                 \* longest time from reading the clock to MongoDB's answer
  MaxTime                   \* bound on the clock

ASSUME NobodyIsNoOwner == Nobody \notin Owners
ASSUME ClockAssumption ==
  /\ APPLICATION_LOCK_TTL_MS \in Nat \ {0}
  /\ MaxSkew \in Nat
  /\ MaxDelay \in Nat
  /\ MaxTime \in Nat

VARIABLES
  now,     \* real time, as shown by the slowest clock
  locks,   \* the lock collection: the document of each application
  calls    \* acquireOrRefreshApplicationLock calls, running or returned

vars == <<now, locks, calls>>

---------------------------------------------------------------------------
NoLock == [ownerId |-> Nobody, lockedAt |-> 0, expiresAt |-> 0]
Idle   == [pc |-> "idle"]

\* Mutants of LockDocument: the update does not write ownerId; the lease is
\* given no length.
AnonymousDocument(o, stamp) ==
  [ownerId |-> Nobody, lockedAt |-> stamp, expiresAt |-> stamp + APPLICATION_LOCK_TTL_MS]
ExpiredDocument(o, stamp) == [ownerId |-> o, lockedAt |-> stamp, expiresAt |-> stamp]

\* The fields the update and the upsert write.
LockDocument(o, stamp) ==
  [ownerId |-> o, lockedAt |-> stamp, expiresAt |-> stamp + APPLICATION_LOCK_TTL_MS]

Lock == [ownerId : Owners, lockedAt : Nat, expiresAt : Nat]
Call == [pc : {"query", "insert", "held", "refused"},
         owner : Owners, key : Keys, at : Nat, stamp : Nat,
         alone : BOOLEAN]   \* history: no other call of its owner has overlapped it

TypeOK ==
  /\ now \in Nat
  /\ locks \in [Keys -> Lock \cup {NoLock}]
  /\ calls \in [Calls -> Call \cup {Idle}]

Init ==
  /\ now = 0
  /\ locks = [k \in Keys |-> NoLock]
  /\ calls = [c \in Calls |-> Idle]

---------------------------------------------------------------------------
Running(c) == calls[c].pc \in {"query", "insert"}
Holding(c) == calls[c].pc = "held"

\* Mutants of Matches: the filter without its $or; $gte written for $lte; the
\* $or without the owner.
MatchesAnyLock(k, o, stamp) == locks[k] # NoLock
MatchesUnexpired(k, o, stamp) ==
  locks[k] # NoLock /\ (locks[k].expiresAt >= stamp \/ locks[k].ownerId = o)

MatchesExpired(k, o, stamp) == locks[k] # NoLock /\ locks[k].expiresAt <= stamp

\* The filter of findOneAndUpdate: a stored document that has expired by the
\* caller's clock, or that is the caller's own.
Matches(k, o, stamp) ==
  /\ locks[k] # NoLock
  /\ \/ locks[k].expiresAt <= stamp
     \/ locks[k].ownerId = o

Return(c, result) == calls' = [calls EXCEPT ![c].pc = result]

Runs(d, o, k) == Running(d) /\ calls[d].owner = o /\ calls[d].key = k

\* A call with this stamp is added; neither it nor those of its owner that run
\* are alone.
AddCall(c, o, k, stamp) ==
  LET overlapped == [d \in Calls |->
        IF Runs(d, o, k) THEN [calls[d] EXCEPT !.alone = FALSE] ELSE calls[d]]
  IN  calls' = [overlapped EXCEPT ![c] =
                  [pc |-> "query", owner |-> o, key |-> k, at |-> now, stamp |-> stamp,
                   alone |-> ~\E d \in Calls : Runs(d, o, k)]]

\* const now = new Date(): the clock is read once, before anything is sent.
Begin(c, o, k) ==
  /\ calls[c] = Idle
  /\ \E skew \in 0..MaxSkew : AddCall(c, o, k, now + skew)
  /\ UNCHANGED <<now, locks>>

\* The filter matches: take over the expired lock, or refresh one's own.
UpdateMatched(c) ==
  /\ calls[c].pc = "query"
  /\ Matches(calls[c].key, calls[c].owner, calls[c].stamp)
  /\ locks' = [locks EXCEPT ![calls[c].key] = LockDocument(calls[c].owner, calls[c].stamp)]
  /\ Return(c, "held")
  /\ UNCHANGED now

\* Nothing matches, so the upsert goes on to insert.
MatchNothing(c) ==
  /\ calls[c].pc = "query"
  /\ ~Matches(calls[c].key, calls[c].owner, calls[c].stamp)
  /\ Return(c, "insert")
  /\ UNCHANGED <<now, locks>>

InsertLock(c) ==
  /\ calls[c].pc = "insert"
  /\ locks[calls[c].key] = NoLock
  /\ locks' = [locks EXCEPT ![calls[c].key] = LockDocument(calls[c].owner, calls[c].stamp)]
  /\ Return(c, "held")
  /\ UNCHANGED now

\* The unique index refuses the insert: error 11000, answered with null.
DuplicateKey(c) ==
  /\ calls[c].pc = "insert"
  /\ locks[calls[c].key] # NoLock
  /\ Return(c, "refused")
  /\ UNCHANGED <<now, locks>>

\* The request that made the call is over, or MongoDB failed it: the error is
\* rethrown, and the caller never learns what became of the lock.
Forget(c) ==
  /\ calls[c] # Idle
  /\ calls' = [calls EXCEPT ![c] = Idle]
  /\ UNCHANGED <<now, locks>>

---------------------------------------------------------------------------
\* Deleting the documents of owner o among the applications S, after which no
\* earlier call of o counts as holding them.
Delete(S, o) ==
  /\ locks' = [k \in Keys |-> IF k \in S /\ locks[k].ownerId = o THEN NoLock ELSE locks[k]]
  /\ calls' = [c \in Calls |-> IF Holding(c) /\ calls[c].owner = o /\ calls[c].key \in S
                               THEN Idle ELSE calls[c]]
  /\ UNCHANGED now

ReleaseApplicationLock(k, o) == Delete({k}, o)

ReleaseAllApplicationLocksForOwner(o) == Delete(Keys, o)

\* Mutant of Expired: the index is created without expireAfterSeconds.
NeverExpired(k) == FALSE

\* The TTL index: expireAfterSeconds 0 on expiresAt, by the server's clock.
Expired(k) == locks[k].expiresAt <= now + MaxSkew

ReapLock(k) ==
  /\ locks[k] # NoLock
  /\ Expired(k)
  /\ locks' = [locks EXCEPT ![k] = NoLock]
  /\ UNCHANGED <<now, calls>>

Tick ==
  /\ now < MaxTime
  /\ \A c \in Calls : Running(c) => now < calls[c].at + MaxDelay
  /\ now' = now + 1
  /\ UNCHANGED <<locks, calls>>

---------------------------------------------------------------------------
Answer(c) == UpdateMatched(c) \/ MatchNothing(c) \/ InsertLock(c) \/ DuplicateKey(c)

Next ==
  \/ \E c \in Calls, o \in Owners, k \in Keys : Begin(c, o, k)
  \/ \E c \in Calls : UpdateMatched(c)
  \/ \E c \in Calls : MatchNothing(c)
  \/ \E c \in Calls : InsertLock(c)
  \/ \E c \in Calls : DuplicateKey(c)
  \/ \E c \in Calls : Forget(c)
  \/ \E k \in Keys, o \in Owners : ReleaseApplicationLock(k, o)
  \/ \E o \in Owners : ReleaseAllApplicationLocksForOwner(o)
  \/ \E k \in Keys : ReapLock(k)
  \/ Tick

Spec == Init /\ [][Next]_vars

\* MongoDB answers the calls it has accepted, its TTL monitor runs for ever,
\* and time does not stop.
Fairness ==
  /\ \A c \in Calls : WF_vars(Answer(c))
  /\ \A k \in Keys : WF_vars(ReapLock(k))
  /\ WF_vars(Tick)

FairSpec == Spec /\ Fairness

---------------------------------------------------------------------------
\* A caller that was given the lock, and has not given it back, may rely on it
\* until this long before its own idea of expiresAt: its refreshes may reach
\* MongoDB out of order (MaxDelay), and the clock that stamped its lease and
\* the clock that judges it may each be ahead (MaxSkew).
Relies(c) ==
  /\ Holding(c)
  /\ now + 2 * MaxSkew + MaxDelay < calls[c].stamp + APPLICATION_LOCK_TTL_MS

\* Two owners never rely on the lock of one application at the same time,
\* however the acquisitions, refreshes, releases and the reaper interleave
\* (acquireOrRefreshApplicationLock, "only one user ... at a time").
MutualExclusion ==
  \A c, d \in Calls :
    /\ Relies(c)
    /\ Relies(d)
    /\ calls[c].key = calls[d].key
    => calls[c].owner = calls[d].owner

\* The strengthening that makes MutualExclusion inductive: the document behind
\* a lock that is relied on is still the caller's, and none of the refreshes
\* that overtook each other has brought its end forward by more than the
\* margin; a running call has not been delayed for longer than MaxDelay.
RelianceIsBacked ==
  \A c \in Calls :
    Relies(c) =>
      /\ locks[calls[c].key].ownerId = calls[c].owner
      /\ calls[c].stamp + APPLICATION_LOCK_TTL_MS
           <= locks[calls[c].key].expiresAt + MaxSkew + MaxDelay

\* What Begin and Tick lay down, as the invariant needs it: the stamp of a call is
\* its instance's clock when it began, and the call ends within MaxDelay of that.
StampsAreRecent ==
  \A c \in Calls :
    calls[c] # Idle =>
      /\ calls[c].at <= now
      /\ calls[c].at <= calls[c].stamp
      /\ calls[c].stamp <= calls[c].at + MaxSkew
      /\ Running(c) => now <= calls[c].at + MaxDelay

IInv == TypeOK /\ StampsAreRecent /\ RelianceIsBacked

\* A lock is given to another owner only when its lease is over by a clock
\* that is at most MaxSkew ahead (the expiresAt filter of the takeover).
NoTakeoverBeforeExpiry ==
  [][\A k \in Keys :
       /\ locks[k] # NoLock
       /\ locks'[k] # NoLock
       /\ locks'[k].ownerId # locks[k].ownerId
       => locks[k].expiresAt <= now + MaxSkew]_vars

\* A user whose calls do not overlap is refused only because of another user:
\* a lock of his own that is in place is refreshed, and one that goes (reaped,
\* taken over, released) while his call is between the filter and the insert
\* does not come back as his own ("the same user may re-acquire").
OwnLockIsNoObstacle ==
  [][\A c \in Calls :
       /\ Running(c) /\ calls[c].alone
       /\ calls'[c] # Idle /\ calls'[c].pc = "refused"
       => locks[calls[c].key].ownerId \notin {Nobody, calls[c].owner}]_vars

\* The lock collection implements the abstract lease: the holder is named by
\* the document, and the lapsed leases are those the reaper may remove.
LeaseHolder == [k \in Keys |-> locks[k].ownerId]
LapsedLeases == {k \in Keys : locks[k] # NoLock /\ locks[k].expiresAt <= now + MaxSkew}

Lease == INSTANCE ApplicationLease WITH holder <- LeaseHolder, lapsed <- LapsedLeases

\* Acquisitions, refreshes, releases, sign-outs and the reaper together promise
\* no less than ApplicationLease: applications are granted when free, one's own
\* or lapsed, and otherwise change hands only by being freed.
ImplementsLease == Lease!Spec

\* A lock whose owner stops refreshing it does not stay for ever: the document
\* with that expiresAt is refreshed, taken over, released or reaped. Leases
\* that end after the bound on the clock are not judged.
AbandonedLockIsReclaimed ==
  \A k \in Keys : \A t \in 1..MaxTime :
    (locks[k].expiresAt = t) ~> (locks[k].expiresAt # t)

===========================================================================
