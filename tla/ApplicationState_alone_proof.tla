------------------- MODULE ApplicationState_alone_proof -------------------
(***************************************************************************)
(* Proofs about ApplicationState, continued: what has to go wrong before   *)
(* with-definition breaks a promise of its documentation, for any number   *)
(* of users, businesses, versions and documents, and whatever secondaries  *)
(* it reads from. A reported upgrade is missing from the collection only   *)
(* where documents are deleted. A document is re-keyed to an older version *)
(* only where requests for the business overlap, or where a definition is  *)
(* withdrawn that a document is stored at. What it returns unchanged       *)
(* differs from what is stored only where requests overlap or a secondary  *)
(* lags.                                                                   *)
(***************************************************************************)
EXTENDS ApplicationState_proof, WellFoundedInduction

\* Of the requests in progress no two are for the same business: each is for the
\* one that its lock token names.
Alone ==
  \A r, q \in Requests :
    InFlight(r) /\ InFlight(q) /\ r # q => MatchingTokens /\ req[r].sbi # req[q].sbi

\* Every document is at a version whose form definition is stored and active.
StoredArePublished == \A d \in docs : d.version \in active

\* A step deletes no document.
DeletesNothing == \A d \in docs : \E e \in docs' : e.id = d.id

\* Where with-definition is about to read, the documents of its business have
\* reached the secondaries.
OfBusiness(view, s) == {d \in view : d.sbi = s}

CaughtUp ==
  \A r \in Requests, view \in Views :
    req[r].pc = "read" => OfBusiness(view, req[r].sbi) = OfBusiness(docs, req[r].sbi)

---------------------------------------------------------------------------
(* Documents through a step *)

\* The documents after a step: the old ones at their versions, one that an
\* upgrade has re-keyed, and perhaps one with a fresh _id.
VersionsKept ==
  \A e \in docs' :
    \/ \E d \in docs : e.id = d.id /\ e.version = d.version
    \/ e.id \in FreshIds
    \/ \E r \in Requests : Upgrade(r) /\ e.id = req[r].seen.id /\ e.version = req[r].version

LEMMA NextKeepsVersionsOfAll ==
  ASSUME TypeOK, [Next]_vars
  PROVE  VersionsKept
<1>1. CASE docs' \subseteq docs
  BY <1>1 DEF VersionsKept
<1>2. ASSUME NEW r \in Requests, InsertState(r) PROVE VersionsKept
  <2>1. PICK a \in Addressed(r), i \in FreshIds, status \in ClientStatuses :
          docs' = docs \cup {[id |-> i, sbi |-> a[1], version |-> a[2],
                              pinnedMajor |-> Major[a[2]], status |-> status]}
    BY <1>2 DEF InsertState
  <2> QED
    BY <2>1 DEF VersionsKept
<1>3. ASSUME NEW r \in Requests, UpdateState(r) PROVE VersionsKept
  <2>1. PICK a \in Addressed(r), status \in ClientStatuses :
          docs' = (docs \ Stored(a)) \cup {[d EXCEPT !.status = status] : d \in Stored(a)}
    BY <1>3 DEF UpdateState
  <2>2. \A d \in docs : /\ [d EXCEPT !.status = status].id = d.id
                        /\ [d EXCEPT !.status = status].version = d.version
    BY DEF TypeOK, Document
  <2>3. Stored(a) \subseteq docs
    BY DEF Stored, StoredIn
  <2>4. ASSUME NEW e \in docs', e \notin docs
        PROVE  \E d \in docs : e.id = d.id /\ e.version = d.version
    <3>1. PICK d \in Stored(a) : e = [d EXCEPT !.status = status]
      BY <2>1, <2>4
    <3> QED
      BY <2>2, <2>3, <3>1
  <2> QED
    BY <2>4 DEF VersionsKept
<1>4. ASSUME NEW p \in Purgers, MarkPurged(p) PROVE VersionsKept
  <2>1. \A d \in docs : /\ [d EXCEPT !.status = "PURGED"].id = d.id
                        /\ [d EXCEPT !.status = "PURGED"].version = d.version
    BY DEF TypeOK, Document
  <2>2. ASSUME NEW e \in docs' PROVE \E d \in docs : e.id = d.id /\ e.version = d.version
    <3>1. PICK d \in docs : e = IF d.id \in purge[p] THEN [d EXCEPT !.status = "PURGED"] ELSE d
      BY <1>4 DEF MarkPurged
    <3> QED
      BY <2>1, <3>1
  <2> QED
    BY <2>2 DEF VersionsKept
<1>5. ASSUME NEW r \in Requests, Upgrade(r) PROVE VersionsKept
  <2>1. ASSUME NEW e \in docs', e \notin docs
        PROVE  e.id = req[r].seen.id /\ e.version = req[r].version
    <3>1. PICK d \in docs : d.id = req[r].seen.id /\ e = [d EXCEPT !.version = req[r].version]
      BY <1>5, <2>1 DEF Upgrade, Rekeyed, WithId
    <3> QED
      BY <3>1 DEF TypeOK, Document
  <2> QED
    BY <1>5, <2>1 DEF VersionsKept
<1>6. ASSUME NEW r \in Requests, HandlerStep(r) PROVE VersionsKept
  <2>1. CASE DeleteState(r)
    BY <1>1, <2>1 DEF DeleteState
  <2>2. CASE UNCHANGED docs
    BY <1>1, <2>2
  <2> QED
    BY <1>2, <1>3, <1>5, <1>6, <2>1, <2>2
    DEF HandlerStep, LockStep, StateStep, SubmitStep, LatestStep, AcquireLock, RefuseLock,
        Fail, RetrieveState, StateNotFound, RejectMismatch, InsertSubmission,
        DuplicateSubmission, ReleaseAfterSubmission, ReadExisting, ReadNothing,
        ResolveDefinition, DefinitionNotFound, UpgradeClash, ReleaseOld
<1>7. CASE Surroundings
  <2>1. ASSUME NEW s \in Sbis, ClearStates(s) PROVE VersionsKept
    BY <1>1, <2>1 DEF ClearStates
  <2>2. CASE UNCHANGED docs
    BY <1>1, <2>2
  <2> QED
    BY <1>4, <1>7, <2>1, <2>2
    DEF Surroundings, FindUnsubmitted, PurgeFails, SignOut, ExpireLock, AdminRelease,
        ClearSubmissions, ClearLocks, Publish, Withdraw, Replicate
<1> QED
  BY <1>1, <1>6, <1>7, NextCases DEF ReceiveLocked, ReceiveLatest, vars

\* A request goes on with what it has read, or reads a document of the primary
\* or of the secondary.
LEMMA NextSees ==
  ASSUME TypeOK, [Next]_vars, NEW r \in Requests, InFlight(r)', req'[r].seen # NoDocument
  PROVE  \/ /\ InFlight(r) /\ req'[r].seen = req[r].seen
            /\ req'[r].sbi = req[r].sbi /\ req'[r].op = req[r].op
         \/ ReadExisting(r) /\ req'[r].seen \in docs \cup replica
<1>t. req \in [Requests -> Request \cup Answer \cup {Idle}]
  BY DEF TypeOK, RequestsOK
<1>1. CASE req'[r] = req[r]
  BY <1>1 DEF InFlight
<1>2. ASSUME HandlerStep(r)
      PROVE  \/ /\ InFlight(r) /\ req'[r].seen = req[r].seen
                /\ req'[r].sbi = req[r].sbi /\ req'[r].op = req[r].op
             \/ ReadExisting(r) /\ req'[r].seen \in docs \cup replica
  <2>1. req[r] \in Request /\ InFlight(r)
    BY <1>2, HandlerOfOne, InFlightTyped
  <2>2. ASSUME NEW code PROVE ~Reply(r, code)
    BY <1>t DEF Reply, Answered, InFlight
  <2>3. ASSUME NEW pc, GoTo(r, pc)
        PROVE  req'[r].seen = req[r].seen /\ req'[r].sbi = req[r].sbi /\ req'[r].op = req[r].op
    BY <1>t, <2>1, <2>3 DEF GoTo, Request
  <2>4. CASE ReadExisting(r)
    <3>1. PICK d \in docs \cup replica :
            req' = [req EXCEPT ![r] =
              IF req[r].op = "stateOnly"
              THEN [@ EXCEPT !.pc = "lock", !.seen = d, !.version = d.version]
              ELSE [@ EXCEPT !.pc = "resolve", !.seen = d]]
      BY <2>4 DEF ReadExisting, LatestIn, Views
    <3>2. req'[r].seen = d
      BY <1>t, <2>1, <3>1 DEF Request
    <3> QED
      BY <2>4, <3>2
  <2>5. CASE ResolveDefinition(r)
    BY <1>t, <2>1, <2>5 DEF ResolveDefinition, Request
  <2>6. CASE LockStep(r) \/ Fail(r)
    BY <2>1, <2>2, <2>3, <2>6 DEF LockStep, AcquireLock, RefuseLock, Fail
  <2>7. CASE StateStep(r) \/ SubmitStep(r)
    BY <2>1, <2>2, <2>3, <2>7
    DEF StateStep, InsertState, UpdateState, RetrieveState, DeleteState, StateNotFound,
        SubmitStep, RejectMismatch, InsertSubmission, DuplicateSubmission,
        ReleaseAfterSubmission
  <2>8. CASE ReadNothing(r) \/ DefinitionNotFound(r) \/ Upgrade(r) \/ UpgradeClash(r) \/ ReleaseOld(r)
    BY <2>1, <2>2, <2>3, <2>8 DEF ReadNothing, DefinitionNotFound, Upgrade, UpgradeClash, ReleaseOld
  <2> QED
    BY <1>2, <2>4, <2>5, <2>6, <2>7, <2>8 DEF HandlerStep, LatestStep
<1>3. ASSUME NEW q \in Requests, HandlerStep(q), q # r PROVE req'[r] = req[r]
  BY <1>3, HandlerOfOne
<1>4. ASSUME NEW q \in Requests, NEW o \in Owners, NEW op, NEW a \in Applications,
             ReceiveLocked(q, o, op, a)
      PROVE  req'[r] = req[r]
  BY <1>t, <1>4 DEF ReceiveLocked
<1>5. ASSUME NEW q \in Requests, NEW o \in Owners, NEW op, NEW s \in Sbis,
             ReceiveLatest(q, o, op, s)
      PROVE  req'[r] = req[r]
  BY <1>t, <1>5 DEF ReceiveLatest
<1>6. ASSUME Surroundings \/ UNCHANGED vars PROVE req'[r] = req[r]
  BY <1>6 DEF Surroundings, FindUnsubmitted, MarkPurged, PurgeFails, SignOut, ExpireLock,
              AdminRelease, ClearStates, ClearSubmissions, ClearLocks, Publish, Withdraw,
              Replicate, vars
<1> QED
  BY <1>1, <1>2, <1>3, <1>4, <1>5, <1>6, NextCases

\* The one step by which a request gets past its upgrade is the update itself.
LEMMA UpgradingUpgrades ==
  ASSUME TypeOK, [Next]_vars, NEW r \in Requests, Upgrading(r)
  PROVE  Upgrade(r)
<1>1. req[r].pc = "upgrade" /\ req'[r].pc = "releaseOld"
  BY DEF Upgrading
<1>2. ASSUME NEW q \in Requests, HandlerStep(q) PROVE Upgrade(r)
  <2>1. q = r
    BY <1>1, <1>2, HandlerOfOne
  <2>2. ~Fail(r)
    BY <1>1 DEF Fail, Reply, Answered, TypeOK, RequestsOK
  <2>3. ~UpgradeClash(r)
    BY <1>1 DEF UpgradeClash, Reply, Answered, TypeOK, RequestsOK
  <2> QED
    BY <1>1, <1>2, <2>1, <2>2, <2>3
    DEF HandlerStep, LockStep, AcquireLock, RefuseLock,
        StateStep, InsertState, UpdateState, RetrieveState, DeleteState, StateNotFound,
        SubmitStep, RejectMismatch, InsertSubmission, DuplicateSubmission,
        ReleaseAfterSubmission, Handles, LatestStep, ReadExisting, ReadNothing,
        ResolveDefinition, DefinitionNotFound, ReleaseOld
<1>3. ASSUME NEW q \in Requests, NEW o \in Owners, NEW op, NEW a \in Applications,
             ReceiveLocked(q, o, op, a)
      PROVE  FALSE
  BY <1>1, <1>3 DEF ReceiveLocked, InFlight, TypeOK, RequestsOK
<1>4. ASSUME NEW q \in Requests, NEW o \in Owners, NEW op, NEW s \in Sbis,
             ReceiveLatest(q, o, op, s)
      PROVE  FALSE
  BY <1>1, <1>4 DEF ReceiveLatest, InFlight, TypeOK, RequestsOK
<1>5. ~Surroundings
  BY <1>1
  DEF Surroundings, FindUnsubmitted, MarkPurged, PurgeFails, SignOut, ExpireLock,
      AdminRelease, ClearStates, ClearSubmissions, ClearLocks, Publish, Withdraw, Replicate
<1> QED
  BY <1>1, <1>2, <1>3, <1>4, <1>5, NextCases DEF vars

---------------------------------------------------------------------------
(* Upgrades where nothing is deleted *)

\* The documents of the secondary, and those that requests have read, are still
\* in the collection, whatever has become of them.
KnownIds ==
  /\ \A d \in replica : \E e \in docs : e.id = d.id
  /\ \A r \in Requests :
       InFlight(r) /\ req[r].seen # NoDocument => \E e \in docs : e.id = req[r].seen.id

LEMMA NextKeepsKnownIds ==
  ASSUME TypeOK, KnownIds, [Next]_vars, DeletesNothing
  PROVE  KnownIds'
<1>1. \A d \in docs \cup replica : \E e \in docs' : e.id = d.id
  BY DEF KnownIds, DeletesNothing
<1>2. replica' \subseteq replica \cup docs
  <2>1. ASSUME NEW r \in Requests, HandlerStep(r) PROVE replica' = replica
    BY <2>1
    DEF HandlerStep, LockStep, StateStep, SubmitStep, LatestStep, AcquireLock, RefuseLock, Fail,
        InsertState, UpdateState, RetrieveState, DeleteState, StateNotFound,
        RejectMismatch, InsertSubmission, DuplicateSubmission, ReleaseAfterSubmission,
        ReadExisting, ReadNothing, ResolveDefinition, DefinitionNotFound, Upgrade, UpgradeClash,
        ReleaseOld
  <2>2. CASE Surroundings
    BY <2>2
    DEF Surroundings, FindUnsubmitted, MarkPurged, PurgeFails, SignOut, ExpireLock,
        AdminRelease, ClearStates, ClearSubmissions, ClearLocks, Publish, Withdraw, Replicate
  <2> QED
    BY <2>1, <2>2, NextCases DEF ReceiveLocked, ReceiveLatest, vars
<1>3. \A d \in replica' : \E e \in docs' : e.id = d.id
  BY <1>1, <1>2
<1>4. ASSUME NEW r \in Requests, InFlight(r)', req'[r].seen # NoDocument
      PROVE  \E e \in docs' : e.id = req'[r].seen.id
  <2>1. CASE InFlight(r) /\ req'[r].seen = req[r].seen
    <3>1. PICK e \in docs : e.id = req[r].seen.id
      BY <1>4, <2>1 DEF KnownIds
    <3> QED
      BY <1>1, <2>1, <3>1
  <2>2. CASE req'[r].seen \in docs \cup replica
    BY <1>1, <2>2
  <2> QED
    BY <1>4, <2>1, <2>2, NextSees
<1> QED
  BY <1>3, <1>4 DEF KnownIds

\* "upgraded: true" means that the upgrade was persisted as long as no state is
\* deleted, whatever other requests, secondaries, purges and withdrawn definitions
\* do meanwhile: a deletion is all that leaves updateApplicationStateVersion, whose
\* result nobody looks at, with nothing to update.
THEOREM UpgradesArePersisted == Spec /\ [][DeletesNothing]_vars => UpgradedMeansPersisted
<1> DEFINE Persisted == \A r \in Requests :
      Upgrading(r) => \E d \in docs' : d.id = req[r].seen.id /\ d.version = req[r].version
<1>1. Init => KnownIds
  BY DEF Init, KnownIds, InFlight, Idle
<1>2. TypeOK /\ KnownIds /\ [Next]_vars /\ [DeletesNothing]_vars => KnownIds'
  <2> SUFFICES ASSUME TypeOK, KnownIds, [Next]_vars, [DeletesNothing]_vars PROVE KnownIds'
    OBVIOUS
  <2>1. CASE DeletesNothing
    BY <2>1, NextKeepsKnownIds
  <2>2. CASE UNCHANGED vars
    BY <2>2 DEF vars, KnownIds, InFlight
  <2> QED
    BY <2>1, <2>2
<1>3. TypeOK /\ KnownIds /\ [Next]_vars => Persisted
  <2> SUFFICES ASSUME TypeOK, KnownIds, [Next]_vars, NEW r \in Requests, Upgrading(r)
               PROVE  \E d \in docs' : d.id = req[r].seen.id /\ d.version = req[r].version
    OBVIOUS
  <2>1. Upgrade(r)
    BY UpgradingUpgrades
  <2>2. InFlight(r) /\ req[r].seen # NoDocument
    BY <2>1 DEF Upgrade, TypeOK, RequestsOK, InFlight
  <2>3. PICK d \in docs : d.id = req[r].seen.id
    BY <2>2 DEF KnownIds
  <2>4. [d EXCEPT !.version = req[r].version] \in docs'
    BY <2>1, <2>3 DEF Upgrade, Rekeyed, WithId
  <2> QED
    BY <2>3, <2>4 DEF TypeOK, Document
<1> QED
  BY <1>1, <1>2, <1>3, StateTypes, PTL DEF Spec, UpgradedMeansPersisted

---------------------------------------------------------------------------
(* Upgrades where requests for a business do not overlap *)

\* The version that with-definition has resolved is not older than the one its
\* document is stored at, be it read from a secondary that had an older one.
Resolved(r) ==
  \/ req[r].pc = "lock" /\ req[r].op = "withDefinition"
  \/ req[r].pc = "upgrade"

Rises(r) ==
  Resolved(r) /\ req[r].seen # NoDocument =>
    \A d \in WithId(req[r].seen.id) : d.version <= req[r].version

ResolvedIsNewest == \A r \in Requests : Rises(r)

\* The newest version of the major that is published is no older than any that
\* is stored: this is why the staleness of the read does no harm.
LEMMA ResolvingRises ==
  ASSUME VersionInv, StoredArePublished, NEW r \in Requests, ResolveDefinition(r)
  PROVE  Rises(r)'
<1>1. /\ TypeOK /\ req[r] \in Request /\ req[r].pc = "resolve"
      /\ req \in [Requests -> Request \cup Answer \cup {Idle}]
  BY InFlightTyped DEF VersionInv, TypeOK, RequestsOK, ResolveDefinition, InFlight
<1>2. PICK v \in Candidates(r) :
        /\ \A w \in Candidates(r) : w <= v
        /\ req' = [req EXCEPT ![r].pc = "lock", ![r].version = v]
  BY DEF ResolveDefinition
<1>3. req'[r].version = v /\ req'[r].seen = req[r].seen
  BY <1>1, <1>2 DEF Request
<1>4. docs' = docs
  BY DEF ResolveDefinition
<1>5. ASSUME req[r].seen # NoDocument, NEW d \in docs, d.id = req[r].seen.id
      PROVE  d.version <= v
  <2>1. d.pinnedMajor = req[r].seen.pinnedMajor
    BY <1>1, <1>5 DEF VersionInv, SnapshotsAgree, SameApplication, WithId
  <2>2. d.version \in Candidates(r)
    BY <1>5, <2>1 DEF VersionInv, PinnedMajorKept, StoredArePublished, Candidates
  <2> QED
    BY <1>2, <2>2
<1> QED
  BY <1>3, <1>4, <1>5 DEF Rises, WithId

\* Another request for the business, which could re-key the document in between,
\* is not in progress.
LEMMA OthersRise ==
  ASSUME VersionInv, Alone, [Next]_vars, NEW r \in Requests, Rises(r), InFlight(r),
         ~Upgrade(r), req'[r].seen = req[r].seen, req'[r].version = req[r].version,
         Resolved(r)
  PROVE  Rises(r)'
<1> SUFFICES ASSUME req[r].seen # NoDocument, NEW e \in docs', e.id = req[r].seen.id
             PROVE  e.version <= req[r].version
  BY DEF Rises, WithId
<1>1. e.id \notin FreshIds
  BY DEF FreshIds
<1>2. CASE \E d \in docs : e.id = d.id /\ e.version = d.version
  BY <1>2 DEF Rises, WithId
<1>3. ASSUME NEW q \in Requests, Upgrade(q), e.id = req[q].seen.id, e \notin docs PROVE FALSE
  <2>1. q # r /\ InFlight(q) /\ req[q].pc = "upgrade" /\ req[q].seen # NoDocument
    BY <1>3 DEF Upgrade, InFlight, VersionInv, TypeOK, RequestsOK
  <2>2. req[q].sbi # req[r].sbi
    BY <2>1 DEF Alone
  <2>3. PICK d \in docs : d.id = req[q].seen.id /\ e = [d EXCEPT !.version = req[q].version]
    BY <1>3 DEF Upgrade, Rekeyed, WithId
  <2>4. d.sbi = req[q].sbi
    BY <2>1, <2>3 DEF VersionInv, SnapshotsAgree, SameApplication, WithId
  <2>5. d.sbi = req[r].sbi
    BY <1>3, <2>3 DEF VersionInv, SnapshotsAgree, SameApplication, WithId, Resolved
  <2> QED
    BY <2>2, <2>4, <2>5
<1> QED
  BY <1>1, <1>2, <1>3, NextKeepsVersionsOfAll DEF VersionsKept, VersionInv

LEMMA NextResolvesNewest ==
  ASSUME VersionInv, Alone, StoredArePublished, ResolvedIsNewest, [Next]_vars
  PROVE  ResolvedIsNewest'
<1> SUFFICES ASSUME NEW r \in Requests PROVE Rises(r)'
  BY DEF ResolvedIsNewest
<1>t. TypeOK /\ req \in [Requests -> Request \cup Answer \cup {Idle}] /\ Rises(r)
  BY DEF VersionInv, TypeOK, RequestsOK, ResolvedIsNewest
<1>1. CASE req'[r] = req[r]
  <2>1. Upgrade(r) => req'[r].pc = "releaseOld"
    BY <1>t, <1>1, InFlightTyped DEF Upgrade, GoTo, InFlight, Request
  <2>2. CASE ~Rises(r)'
    <3>1. Resolved(r) /\ InFlight(r)
      BY <1>1, <2>2 DEF Rises, Resolved, InFlight
    <3>2. ~Upgrade(r)
      BY <1>1, <2>1, <3>1 DEF Upgrade
    <3> QED
      BY <1>t, <1>1, <3>1, <3>2, OthersRise
  <2> QED
    BY <2>2
<1>2. ASSUME HandlerStep(r) PROVE Rises(r)'
  <2>1. req[r] \in Request /\ InFlight(r)
    BY <1>2, <1>t, HandlerOfOne, InFlightTyped
  <2>2. ASSUME NEW code, Reply(r, code) PROVE Rises(r)'
    BY <1>t, <2>2 DEF Reply, Answered, Rises, Resolved
  <2>3. ASSUME NEW pc, pc \notin {"lock", "upgrade"}, GoTo(r, pc) PROVE Rises(r)'
    BY <1>t, <2>1, <2>3 DEF GoTo, Rises, Resolved, Request
  <2>4. CASE AcquireLock(r) /\ Upgrades(r) /\ GoTo(r, "upgrade")
    <3>1. req'[r].seen = req[r].seen /\ req'[r].version = req[r].version
      BY <1>t, <2>1, <2>4 DEF GoTo, Request
    <3>2. Resolved(r) /\ ~Upgrade(r)
      BY <2>4 DEF AcquireLock, Upgrades, Upgrade, Resolved
    <3> QED
      BY <1>t, <2>1, <3>1, <3>2, OthersRise
  <2>5. CASE ReadExisting(r)
    <3>1. req'[r].pc = "lock" => req'[r].op = "stateOnly"
      BY <1>t, <2>1, <2>5 DEF ReadExisting, Request
    <3>2. req'[r].pc # "upgrade"
      BY <1>t, <2>1, <2>5 DEF ReadExisting, Request
    <3> QED
      BY <3>1, <3>2 DEF Rises, Resolved
  <2>6. CASE ResolveDefinition(r)
    BY <2>6, ResolvingRises
  <2>7. CASE LockStep(r) \/ Fail(r)
    BY <2>2, <2>3, <2>4, <2>7 DEF LockStep, AcquireLock, RefuseLock, Fail
  <2>8. CASE StateStep(r) \/ SubmitStep(r)
    BY <2>2, <2>3, <2>8
    DEF StateStep, InsertState, UpdateState, RetrieveState, DeleteState, StateNotFound,
        SubmitStep, RejectMismatch, InsertSubmission, DuplicateSubmission,
        ReleaseAfterSubmission
  <2>9. CASE ReadNothing(r) \/ DefinitionNotFound(r) \/ Upgrade(r) \/ UpgradeClash(r) \/ ReleaseOld(r)
    BY <2>2, <2>3, <2>9 DEF ReadNothing, DefinitionNotFound, Upgrade, UpgradeClash, ReleaseOld
  <2> QED
    BY <1>2, <2>5, <2>6, <2>7, <2>8, <2>9 DEF HandlerStep, LatestStep
<1>3. ASSUME NEW q \in Requests, HandlerStep(q), q # r PROVE Rises(r)'
  BY <1>t, <1>1, <1>3, HandlerOfOne
<1>4. ASSUME NEW q \in Requests, NEW o \in Owners, NEW op \in LockedRoutes,
             NEW a \in Applications, ReceiveLocked(q, o, op, a)
      PROVE  Rises(r)'
  <2>1. CASE q = r
    BY <1>t, <1>4, <2>1 DEF ReceiveLocked, Rises, Resolved
  <2>2. CASE q # r
    BY <1>t, <1>1, <1>4, <2>2 DEF ReceiveLocked
  <2> QED
    BY <2>1, <2>2
<1>5. ASSUME NEW q \in Requests, NEW o \in Owners, NEW op \in LatestRoutes, NEW s \in Sbis,
             ReceiveLatest(q, o, op, s)
      PROVE  Rises(r)'
  <2>1. CASE q = r
    BY <1>t, <1>5, <2>1 DEF ReceiveLatest, Rises, Resolved
  <2>2. CASE q # r
    BY <1>t, <1>1, <1>5, <2>2 DEF ReceiveLatest
  <2> QED
    BY <2>1, <2>2
<1>6. ASSUME Surroundings \/ UNCHANGED vars PROVE req'[r] = req[r]
  BY <1>6 DEF Surroundings, FindUnsubmitted, MarkPurged, PurgeFails, SignOut, ExpireLock,
              AdminRelease, ClearStates, ClearSubmissions, ClearLocks, Publish, Withdraw,
              Replicate, vars
<1> QED
  BY <1>1, <1>2, <1>3, <1>4, <1>5, <1>6, NextCases

\* A document is re-keyed to newer versions only, as long as no two requests for
\* its business are in progress at once and no version is withdrawn that a document
\* is stored at. Reads may be stale, deletions and purges may come in between, and
\* other definitions may come and go (getLatestFormDefinition).
THEOREM VersionsRise == Spec /\ []Alone /\ []StoredArePublished => VersionsOnlyRise
<1> DEFINE Rise == \A d \in docs, e \in docs' : d.id = e.id => d.version <= e.version
<1>1. Init => ResolvedIsNewest
  BY DEF Init, ResolvedIsNewest, Rises, Resolved, Idle
<1>2. VersionInv /\ Alone /\ StoredArePublished /\ ResolvedIsNewest /\ [Next]_vars => ResolvedIsNewest'
  BY NextResolvesNewest
<1>3. VersionInv /\ ResolvedIsNewest /\ [Next]_vars => Rise
  <2> SUFFICES ASSUME VersionInv, ResolvedIsNewest, [Next]_vars,
                      NEW d \in docs, NEW e \in docs', d.id = e.id
               PROVE  d.version <= e.version
    OBVIOUS
  <2>t. TypeOK /\ d.version \in Nat
    BY VersionAssumption DEF VersionInv, TypeOK, Document
  <2>o. \A f \in docs : f.id = d.id => f = d
    BY DEF VersionInv, OneDocumentPerVersion
  <2>1. e.id \notin FreshIds
    BY DEF FreshIds
  <2>2. ASSUME NEW f \in docs, e.id = f.id, e.version = f.version PROVE d.version <= e.version
    BY <2>t, <2>o, <2>2
  <2>3. ASSUME NEW r \in Requests, Upgrade(r), e.id = req[r].seen.id, e.version = req[r].version
        PROVE  d.version <= e.version
    <3>1. req[r].pc = "upgrade" /\ req[r].seen # NoDocument
      BY <2>t, <2>3 DEF Upgrade, TypeOK, RequestsOK
    <3> QED
      BY <2>3, <3>1 DEF ResolvedIsNewest, Rises, Resolved, WithId
  <2> QED
    BY <2>t, <2>1, <2>2, <2>3, NextKeepsVersionsOfAll DEF VersionsKept
<1> QED
  BY <1>1, <1>2, <1>3, VersionInvariant, PTL DEF Spec, VersionsOnlyRise

---------------------------------------------------------------------------
(* Reads where requests for a business do not overlap *)

\* The versions of the stored documents are bounded: of the documents of a
\* business one is the latest.
Bounded == \E n \in Nat : \A d \in docs : d.version <= n

\* What with-definition has read first: it goes on with it up to the answer.
Remembering(r) ==
  \/ req[r].pc \in {"resolve", "upgrade"}
  \/ req[r].pc = "lock" /\ req[r].op \in LatestRoutes

\* What was read is still stored, perhaps with the mark of a purge, and if nothing
\* was read, nothing is stored.
Remembered(r) ==
  IF req[r].seen = NoDocument
  THEN \A d \in docs : d.sbi # req[r].sbi
  ELSE \E status \in {req[r].seen.status, "PURGED"} :
         [req[r].seen EXCEPT !.status = status] \in docs

ReadsStayTrue == \A r \in Requests : Remembering(r) => Remembered(r)

ReadsInv == VersionInv /\ Bounded /\ ReadsStayTrue

---------------------------------------------------------------------------
(* The latest of a set of versions *)

\* A set of numbers has a least one, and one that is bounded a greatest.
LEMMA Least ==
  ASSUME NEW T \in SUBSET Nat, T # {}
  PROVE  \E x \in T : \A y \in T : x <= y
<1> DEFINE R == {p \in Nat \X Nat : p[1] < p[2]}
<1>1. IsWellFoundedOn(R, Nat)
  BY NatLessThanWellFounded DEF OpToRel
<1>2. \E x \in T : \A y \in T : ~(<<y, x>> \in R)
  <2> HIDE DEF R
  <2> QED
    BY <1>1, WFMin
<1>3. PICK x \in T : \A y \in T : ~(<<y, x>> \in R)
  BY <1>2
<1>4. ASSUME NEW y \in T PROVE x <= y
  <2>1. x \in Nat /\ y \in Nat
    OBVIOUS
  <2>2. y < x => <<y, x>> \in R
    BY <2>1
  <2>3. ~(y < x)
    BY <1>3, <2>2
  <2> QED
    BY <2>1, <2>3
<1> QED
  BY <1>4

LEMMA Greatest ==
  ASSUME NEW T \in SUBSET Nat, T # {}, NEW n \in Nat, \A x \in T : x <= n
  PROVE  \E x \in T : \A y \in T : y <= x
<1> DEFINE U == {k \in Nat : \A x \in T : x <= k}
<1>1. PICK u \in U : \A k \in U : u <= k
  <2>1. U \in SUBSET Nat /\ U # {}
    OBVIOUS
  <2> HIDE DEF U
  <2> QED
    BY <2>1, Least
<1>2. u \in Nat /\ \A x \in T : x <= u
  OBVIOUS
<1>3. u \in T
  <2> SUFFICES ASSUME u \notin T PROVE FALSE
    OBVIOUS
  <2>1. \A x \in T : x \in Nat /\ x <= u - 1
    BY <1>2
  <2>2. u - 1 \in Nat
    <3>1. PICK x \in T : x \in Nat /\ x <= u - 1
      BY <2>1
    <3> QED
      BY <1>2, <3>1
  <2>3. u - 1 \in U
    BY <2>1, <2>2
  <2> HIDE DEF U
  <2> QED
    BY <1>1, <1>2, <2>3
<1> QED
  BY <1>2, <1>3

\* A business that has documents has a latest one, which
\* getLatestApplicationStateForGrant then finds.
LEMMA LatestExists ==
  ASSUME TypeOK, Bounded, NEW s, NEW e \in docs, e.sbi = s
  PROVE  LatestIn(docs, s) # {}
<1> DEFINE T == {d.version : d \in {x \in docs : x.sbi = s}}
<1>1. \A d \in docs : d.version \in Nat
  BY VersionAssumption DEF TypeOK, Document
<1>2. T \in SUBSET Nat /\ T # {}
  BY <1>1
<1>3. PICK n \in Nat : \A x \in T : x <= n
  BY DEF Bounded
<1>4. PICK x \in T : \A y \in T : y <= x
  <2> HIDE DEF T
  <2> QED
    BY <1>2, <1>3, Greatest
<1>5. PICK d \in docs : d.sbi = s /\ d.version = x
  OBVIOUS
<1>6. d \in LatestIn(docs, s)
  BY <1>4, <1>5 DEF LatestIn
<1> QED
  BY <1>6

---------------------------------------------------------------------------
(* Versions come in one at a time *)

\* A step stores at most one version that was not stored: that of the request
\* that saves or upgrades.
LEMMA OneNewVersion ==
  ASSUME VersionInv, [Next]_vars
  PROVE  \/ \A e \in docs' : \E d \in docs : e.version = d.version
         \/ \E r \in Requests, v \in Versions :
              /\ req[r].pc \in {"run", "upgrade"}
              /\ \A e \in docs' : e.version = v \/ \E d \in docs : e.version = d.version
<1> DEFINE Same == \A e \in docs' : \E d \in docs : e.version = d.version
<1> DEFINE One(r) ==
      \E v \in Versions :
        /\ req[r].pc \in {"run", "upgrade"}
        /\ \A e \in docs' : e.version = v \/ \E d \in docs : e.version = d.version
<1>t. TypeOK
  BY DEF VersionInv
<1>1. CASE docs' \subseteq docs
  BY <1>1
<1>2. ASSUME NEW r \in Requests, InsertState(r) PROVE One(r)
  <2>1. req[r].pc = "run"
    BY <1>2 DEF InsertState, Handles
  <2>2. PICK a \in Addressed(r), i \in FreshIds, status \in ClientStatuses :
          docs' = docs \cup {[id |-> i, sbi |-> a[1], version |-> a[2],
                              pinnedMajor |-> Major[a[2]], status |-> status]}
    BY <1>2 DEF InsertState
  <2>3. a[2] \in Versions
    BY <1>t, <2>1, AddressedTyped DEF Applications
  <2>5. \A e \in docs' : e.version = a[2] \/ \E d \in docs : e.version = d.version
    BY <2>2
  <2> QED
    BY <2>1, <2>3, <2>5
<1>3. ASSUME NEW r \in Requests, UpdateState(r) PROVE Same
  <2>1. PICK a \in Addressed(r), status \in ClientStatuses :
          docs' = (docs \ Stored(a)) \cup {[d EXCEPT !.status = status] : d \in Stored(a)}
    BY <1>3 DEF UpdateState
  <2>2. \A d \in docs : [d EXCEPT !.status = status].version = d.version
    BY <1>t DEF TypeOK, Document
  <2>3. Stored(a) \subseteq docs
    BY DEF Stored, StoredIn
  <2> QED
    BY <2>1, <2>2, <2>3
<1>4. ASSUME NEW p \in Purgers, MarkPurged(p) PROVE Same
  <2>1. \A d \in docs : [d EXCEPT !.status = "PURGED"].version = d.version
    BY <1>t DEF TypeOK, Document
  <2> QED
    BY <1>4, <2>1 DEF MarkPurged
<1>5. ASSUME NEW r \in Requests, Upgrade(r) PROVE One(r)
  <2>1. req[r].pc = "upgrade" /\ req[r].version \in Versions
    BY <1>t, <1>5 DEF Upgrade, TypeOK, RequestsOK
  <2>2. \A d \in docs : [d EXCEPT !.version = req[r].version].version = req[r].version
    BY <1>t DEF TypeOK, Document
  <2>3. docs' = (docs \ WithId(req[r].seen.id)) \cup Rekeyed(r)
    BY <1>5 DEF Upgrade
  <2>4. \A e \in docs' : e.version = req[r].version \/ \E d \in docs : e.version = d.version
    BY <2>2, <2>3 DEF Rekeyed, WithId
  <2> QED
    BY <2>1, <2>4
<1> HIDE DEF Same, One
<1>6. ASSUME NEW r \in Requests, HandlerStep(r) PROVE Same \/ One(r)
  <2>1. CASE DeleteState(r)
    BY <1>1, <2>1 DEF DeleteState, Same
  <2>2. CASE UNCHANGED docs
    BY <1>1, <2>2 DEF Same
  <2> QED
    BY <1>2, <1>3, <1>5, <1>6, <2>1, <2>2
    DEF HandlerStep, LockStep, StateStep, SubmitStep, LatestStep, AcquireLock, RefuseLock,
        Fail, RetrieveState, StateNotFound, RejectMismatch, InsertSubmission,
        DuplicateSubmission, ReleaseAfterSubmission, ReadExisting, ReadNothing,
        ResolveDefinition, DefinitionNotFound, UpgradeClash, ReleaseOld
<1>7. CASE Surroundings
  <2>1. ASSUME NEW s \in Sbis, ClearStates(s) PROVE Same
    BY <1>1, <2>1 DEF ClearStates, Same
  <2>2. CASE UNCHANGED docs
    BY <1>1, <2>2 DEF Same
  <2> QED
    BY <1>4, <1>7, <2>1, <2>2
    DEF Surroundings, FindUnsubmitted, PurgeFails, SignOut, ExpireLock, AdminRelease,
        ClearSubmissions, ClearLocks, Publish, Withdraw, Replicate, Same
<1>8. CASE UNCHANGED docs
  BY <1>1, <1>8 DEF Same
<1> QED
  BY <1>6, <1>7, <1>8, NextCases DEF ReceiveLocked, ReceiveLatest, vars, Same, One

\* So the stored versions stay bounded.
LEMMA NextBounded ==
  ASSUME VersionInv, Bounded, [Next]_vars
  PROVE  Bounded'
<1>1. PICK n \in Nat : \A d \in docs : d.version <= n
  BY DEF Bounded
<1>2. \A d \in docs : d.version \in Nat
  BY VersionAssumption DEF VersionInv, TypeOK, Document
<1>3. CASE \A e \in docs' : \E d \in docs : e.version = d.version
  BY <1>1, <1>3 DEF Bounded
<1>4. ASSUME NEW v \in Versions,
             \A e \in docs' : e.version = v \/ \E d \in docs : e.version = d.version
      PROVE  Bounded'
  <2>1. v \in Nat
    BY VersionAssumption
  <2>2. PICK m \in Nat : v <= m /\ n <= m
    BY <2>1
  <2>3. \A e \in docs' : e.version <= m
    BY <1>1, <1>2, <1>4, <2>1, <2>2
  <2> QED
    BY <2>3 DEF Bounded
<1> QED
  BY <1>3, <1>4, OneNewVersion

---------------------------------------------------------------------------
(* What with-definition has read stays true *)

\* A handler changes documents of its own business only.
LEMMA OwnBusiness ==
  ASSUME VersionInv, MatchingTokens, NEW q \in Requests, HandlerStep(q),
         NEW s, s # req[q].sbi
  PROVE  \A d : d.sbi = s => (d \in docs' <=> d \in docs)
<1>t. TypeOK
  BY DEF VersionInv
<1>1. Addressed(q) = {App(q)} /\ App(q)[1] = req[q].sbi
  BY DEF Addressed, App
<1>2. \A d \in Stored(App(q)) : d.sbi = req[q].sbi
  BY DEF Stored, StoredIn, App
<1>3. CASE InsertState(q)
  BY <1>1, <1>3 DEF InsertState
<1>4. CASE UpdateState(q)
  <2>1. PICK status \in ClientStatuses :
          docs' = (docs \ Stored(App(q))) \cup {[d EXCEPT !.status = status] : d \in Stored(App(q))}
    BY <1>1, <1>4 DEF UpdateState
  <2>2. \A d \in Stored(App(q)) : [d EXCEPT !.status = status].sbi = d.sbi
    BY <1>t DEF TypeOK, Document, Stored, StoredIn
  <2> QED
    BY <1>2, <2>1, <2>2
<1>5. CASE DeleteState(q)
  BY <1>1, <1>2, <1>5 DEF DeleteState
<1>6. CASE Upgrade(q)
  <2>1. req[q].pc = "upgrade" /\ req[q].seen # NoDocument
    BY <1>t, <1>6 DEF Upgrade, TypeOK, RequestsOK
  <2>2. \A d \in WithId(req[q].seen.id) : d.sbi = req[q].sbi
    BY <2>1 DEF VersionInv, SnapshotsAgree, SameApplication
  <2>3. \A d \in WithId(req[q].seen.id) : [d EXCEPT !.version = req[q].version].sbi = d.sbi
    BY <1>t DEF TypeOK, Document, WithId
  <2> QED
    BY <1>6, <2>2, <2>3 DEF Upgrade, Rekeyed
<1>7. CASE docs' = docs
  BY <1>7
<1> QED
  BY <1>3, <1>4, <1>5, <1>6, <1>7
  DEF HandlerStep, LockStep, StateStep, SubmitStep, LatestStep, AcquireLock, RefuseLock,
      Fail, RetrieveState, StateNotFound, RejectMismatch, InsertSubmission,
      DuplicateSubmission, ReleaseAfterSubmission, ReadExisting, ReadNothing,
      ResolveDefinition, DefinitionNotFound, UpgradeClash, ReleaseOld

\* So what a handler has read is as true after the step of another.
LEMMA OtherRemembers ==
  ASSUME VersionInv, ReadsStayTrue, Alone,
         NEW r \in Requests, Remembering(r), NEW q \in Requests, HandlerStep(q), q # r
  PROVE  Remembered(r)'
<1>1. req'[r] = req[r] /\ InFlight(q)
  BY HandlerOfOne DEF VersionInv
<1>s. req[r].seen # NoDocument => req[r].seen \in Document
  BY InFlightTyped DEF VersionInv, Remembering, InFlight, Request
<1>2. MatchingTokens /\ req[r].sbi # req[q].sbi
  BY <1>1 DEF Alone, Remembering, InFlight
<1>3. \A d : d.sbi = req[r].sbi => (d \in docs' <=> d \in docs)
  BY <1>2, OwnBusiness
<1>4. Remembered(r)
  BY DEF ReadsStayTrue
<1>5. CASE req[r].seen = NoDocument
  BY <1>1, <1>3, <1>4, <1>5 DEF Remembered
<1>6. CASE req[r].seen # NoDocument
  <2>1. PICK status \in {req[r].seen.status, "PURGED"} :
          [req[r].seen EXCEPT !.status = status] \in docs
    BY <1>4, <1>6 DEF Remembered
  <2> DEFINE d == [req[r].seen EXCEPT !.status = status]
  <2>i. d.id = req[r].seen.id
    BY <1>6, <1>s
  <2>2. d.sbi = req[r].sbi
    BY <1>6, <2>1, <2>i DEF VersionInv, SnapshotsAgree, SameApplication, WithId, Remembering
  <2>3. d \in docs'
    BY <1>3, <2>1, <2>2
  <2> QED
    BY <1>1, <1>6, <2>1, <2>3 DEF Remembered
<1> QED
  BY <1>5, <1>6

\* Of the handlers of a request that remembers something after its step only
\* these keep it in flight.
LEMMA RememberingSteps ==
  ASSUME TypeOK, NEW r \in Requests, HandlerStep(r), Remembering(r)'
  PROVE  \/ AcquireLock(r) /\ Upgrades(r) /\ GoTo(r, "upgrade")
         \/ ReadExisting(r)
         \/ ReadNothing(r) /\ GoTo(r, "resolve")
         \/ ResolveDefinition(r)
<1>1. /\ req[r] \in Request
      /\ req \in [Requests -> Request \cup Answer \cup {Idle}]
  BY HandlerOfOne, InFlightTyped DEF TypeOK, RequestsOK
<1>2. \A code : ~Reply(r, code)
  BY <1>1 DEF Reply, Answered, Remembering
<1>3. \A pc : GoTo(r, pc) => pc \in {"resolve", "lock", "upgrade"}
  BY <1>1 DEF GoTo, Remembering, Request
<1> QED
  BY <1>2, <1>3
  DEF HandlerStep, LockStep, StateStep, SubmitStep, LatestStep, AcquireLock, RefuseLock, Fail,
      InsertState, UpdateState, RetrieveState, DeleteState, StateNotFound, RejectMismatch,
      InsertSubmission, DuplicateSubmission, ReleaseAfterSubmission, ReadNothing,
      DefinitionNotFound, Upgrade, UpgradeClash, ReleaseOld

LEMMA StepperRemembers ==
  ASSUME CaughtUp, ReadsInv, NEW r \in Requests, HandlerStep(r), Remembering(r)'
  PROVE  Remembered(r)'
<1>1. /\ TypeOK
      /\ req[r] \in Request
      /\ req \in [Requests -> Request \cup Answer \cup {Idle}]
  BY HandlerOfOne, InFlightTyped DEF ReadsInv, VersionInv, TypeOK, RequestsOK
<1>2. docs' = docs
  BY <1>1, RememberingSteps DEF AcquireLock, ReadExisting, ReadNothing, ResolveDefinition
<1>3. ASSUME Remembering(r), req'[r].seen = req[r].seen, req'[r].sbi = req[r].sbi
      PROVE  Remembered(r)'
  BY <1>2, <1>3 DEF ReadsInv, ReadsStayTrue, Remembered
<1>4. CASE AcquireLock(r) /\ Upgrades(r) /\ GoTo(r, "upgrade")
  <2>1. req[r].pc = "lock" /\ req[r].op \in LatestRoutes
    BY <1>4 DEF AcquireLock, Upgrades, LatestRoutes
  <2>2. req'[r].seen = req[r].seen /\ req'[r].sbi = req[r].sbi
    BY <1>1, <1>4 DEF GoTo, Request
  <2> QED
    BY <1>3, <2>1, <2>2 DEF Remembering
<1>5. CASE ResolveDefinition(r)
  <2>1. req[r].pc = "resolve"
    BY <1>5 DEF ResolveDefinition
  <2>2. req'[r].seen = req[r].seen /\ req'[r].sbi = req[r].sbi
    BY <1>1, <1>5 DEF ResolveDefinition, Request
  <2> QED
    BY <1>3, <2>1, <2>2 DEF Remembering
<1>6. CASE ReadExisting(r)
  <2>v. PICK view \in Views : \E d \in LatestIn(view, req[r].sbi) :
          req' = [req EXCEPT ![r] =
            IF req[r].op = "stateOnly"
            THEN [@ EXCEPT !.pc = "lock", !.seen = d, !.version = d.version]
            ELSE [@ EXCEPT !.pc = "resolve", !.seen = d]]
    BY <1>6 DEF ReadExisting
  <2>1. PICK d \in LatestIn(view, req[r].sbi) :
          req' = [req EXCEPT ![r] =
            IF req[r].op = "stateOnly"
            THEN [@ EXCEPT !.pc = "lock", !.seen = d, !.version = d.version]
            ELSE [@ EXCEPT !.pc = "resolve", !.seen = d]]
    BY <2>v
  <2>2. req'[r].seen = d
    BY <1>1, <2>1 DEF Request
  <2>3. OfBusiness(view, req[r].sbi) = OfBusiness(docs, req[r].sbi)
    BY <1>6 DEF ReadExisting, CaughtUp
  <2>4. d \in docs
    BY <2>3 DEF OfBusiness, LatestIn
  <2>5. d # NoDocument /\ [d EXCEPT !.status = d.status] = d
    BY <1>1, <2>4, NullAssumption DEF TypeOK, Document
  <2> QED
    BY <1>2, <2>2, <2>4, <2>5 DEF Remembered
<1>7. CASE ReadNothing(r) /\ GoTo(r, "resolve")
  <2>1. req[r].seen = NoDocument
    BY <1>7 DEF ReadNothing, ReadsInv, VersionInv, SnapshotsAgree
  <2>2. req'[r].seen = NoDocument /\ req'[r].sbi = req[r].sbi
    BY <1>1, <1>7, <2>1 DEF GoTo, Request
  <2>3. LatestIn(docs, req[r].sbi) = {}
    <3>1. PICK view \in Views : LatestIn(view, req[r].sbi) = {}
      BY <1>7 DEF ReadNothing
    <3>2. OfBusiness(view, req[r].sbi) = OfBusiness(docs, req[r].sbi)
      BY <1>7 DEF ReadNothing, CaughtUp
    <3>3. \A d : d \in docs /\ d.sbi = req[r].sbi <=> d \in view /\ d.sbi = req[r].sbi
      BY <3>2 DEF OfBusiness
    <3> QED
      BY <3>1, <3>3 DEF LatestIn
  <2>4. \A d \in docs : d.sbi # req[r].sbi
    BY <1>1, <2>3, LatestExists DEF ReadsInv
  <2> QED
    BY <1>2, <2>2, <2>4 DEF Remembered
<1> QED
  BY <1>1, <1>4, <1>5, <1>6, <1>7, RememberingSteps

\* The purge marks documents, and leaves what they are known by.
LEMMA MarkRemembers ==
  ASSUME ReadsInv, NEW p \in Purgers, MarkPurged(p), NEW r \in Requests, Remembering(r)
  PROVE  Remembered(r)'
<1>1. /\ Remembered(r)
      /\ req' = req
      /\ docs' = {IF d.id \in purge[p] THEN [d EXCEPT !.status = "PURGED"] ELSE d : d \in docs}
  BY DEF MarkPurged, ReadsInv, ReadsStayTrue
<1>s. req[r].seen # NoDocument => req[r].seen \in Document
  BY InFlightTyped DEF ReadsInv, VersionInv, Remembering, InFlight, Request
<1>2. \A d \in docs : LET e == [d EXCEPT !.status = "PURGED"]
                      IN  e.id = d.id /\ e.sbi = d.sbi /\ e.version = d.version
  BY DEF ReadsInv, VersionInv, TypeOK, Document
<1>3. CASE req[r].seen = NoDocument
  <2>1. \A d \in docs : d.sbi # req[r].sbi
    BY <1>1, <1>3 DEF Remembered
  <2>2. ASSUME NEW e \in docs' PROVE e.sbi # req[r].sbi
    <3>1. PICK d \in docs : e = IF d.id \in purge[p] THEN [d EXCEPT !.status = "PURGED"] ELSE d
      BY <1>1
    <3> QED
      BY <1>2, <2>1, <3>1
  <2> QED
    BY <1>1, <1>3, <2>2 DEF Remembered
<1>4. CASE req[r].seen # NoDocument
  <2>1. PICK status \in {req[r].seen.status, "PURGED"} :
          [req[r].seen EXCEPT !.status = status] \in docs
    BY <1>1, <1>4 DEF Remembered
  <2> DEFINE d == [req[r].seen EXCEPT !.status = status]
  <2>2. CASE d.id \in purge[p]
    <3>1. [d EXCEPT !.status = "PURGED"] = [req[r].seen EXCEPT !.status = "PURGED"]
      BY <1>s, <1>4 DEF Document
    <3>2. [d EXCEPT !.status = "PURGED"] \in docs'
      BY <1>1, <2>1, <2>2
    <3> QED
      BY <1>1, <1>4, <3>1, <3>2 DEF Remembered
  <2>3. CASE d.id \notin purge[p]
    <3>1. d \in docs'
      BY <1>1, <2>1, <2>3
    <3> QED
      BY <1>1, <1>4, <2>1, <3>1 DEF Remembered
  <2> QED
    BY <2>2, <2>3
<1> QED
  BY <1>3, <1>4

LEMMA NextReadsStayTrue ==
  ASSUME "clear" \notin Operations, Alone, CaughtUp, ReadsInv, [Next]_vars
  PROVE  ReadsStayTrue'
<1> SUFFICES ASSUME NEW r \in Requests, Remembering(r)' PROVE Remembered(r)'
  BY DEF ReadsStayTrue
<1>t. TypeOK /\ VersionInv /\ ReadsStayTrue
  BY DEF ReadsInv, VersionInv
<1>1. ASSUME Remembering(r), req'[r] = req[r], docs' = docs PROVE Remembered(r)'
  BY <1>1 DEF ReadsInv, ReadsStayTrue, Remembered
<1>2. req'[r] = req[r] => Remembering(r)
  BY DEF Remembering
<1>3. ASSUME NEW q \in Requests, HandlerStep(q) PROVE Remembered(r)'
  <2>1. CASE q = r
    BY <1>3, <2>1, StepperRemembers
  <2>2. CASE q # r
    BY <1>t, <1>2, <1>3, <2>2, HandlerOfOne, OtherRemembers
  <2> QED
    BY <2>1, <2>2
<1>4. ASSUME NEW q \in Requests, NEW o \in Owners, NEW op \in LockedRoutes,
             NEW a \in Applications, ReceiveLocked(q, o, op, a)
      PROVE  Remembered(r)'
  <2>1. q # r
    BY <1>t, <1>4 DEF ReceiveLocked, Remembering, TypeOK, RequestsOK, LockedRoutes, LatestRoutes
  <2>2. req'[r] = req[r] /\ docs' = docs
    BY <1>t, <1>4, <2>1 DEF ReceiveLocked, TypeOK, RequestsOK
  <2> QED
    BY <1>1, <1>2, <2>2
<1>5. ASSUME NEW q \in Requests, NEW o \in Owners, NEW op \in LatestRoutes,
             NEW s \in Sbis, ReceiveLatest(q, o, op, s)
      PROVE  Remembered(r)'
  <2>1. q # r
    BY <1>t, <1>5 DEF ReceiveLatest, Remembering, TypeOK, RequestsOK
  <2>2. req'[r] = req[r] /\ docs' = docs
    BY <1>t, <1>5, <2>1 DEF ReceiveLatest, TypeOK, RequestsOK
  <2> QED
    BY <1>1, <1>2, <2>2
<1>6. CASE Surroundings
  <2>1. req' = req
    BY <1>6 DEF Surroundings, FindUnsubmitted, MarkPurged, PurgeFails, SignOut, ExpireLock,
                AdminRelease, ClearStates, ClearSubmissions, ClearLocks, Publish, Withdraw, Replicate
  <2>2. docs' = docs \/ \E p \in Purgers : MarkPurged(p)
    BY <1>6 DEF Surroundings, FindUnsubmitted, PurgeFails, SignOut, ExpireLock,
                AdminRelease, ClearStates, ClearSubmissions, ClearLocks, Publish, Withdraw, Replicate
  <2> QED
    BY <1>1, <1>2, <2>1, <2>2, MarkRemembers
<1>7. CASE UNCHANGED vars
  BY <1>1, <1>2, <1>7 DEF vars
<1> QED
  BY <1>3, <1>4, <1>5, <1>6, <1>7, NextCases

LEMMA InitReads == Init => ReadsInv
<1> SUFFICES ASSUME Init PROVE ReadsInv
  OBVIOUS
<1>1. VersionInv
  BY InitVersions
<1>2. \A r \in Requests : ~Remembering(r)
  BY DEF Init, Idle, Remembering
<1>3. Bounded
  BY DEF Init, Bounded
<1> QED
  BY <1>1, <1>2, <1>3 DEF ReadsInv, ReadsStayTrue

LEMMA NextReads ==
  "clear" \notin Operations /\ Alone /\ CaughtUp /\ ReadsInv /\ [Next]_vars => ReadsInv'
<1> SUFFICES ASSUME "clear" \notin Operations, Alone, CaughtUp, ReadsInv, [Next]_vars
             PROVE  ReadsInv'
  OBVIOUS
<1>1. VersionInv /\ Bounded
  BY DEF ReadsInv
<1>2. VersionInv'
  BY <1>1, NextKeepsVersions
<1>3. Bounded'
  BY <1>1, NextBounded
<1>4. ReadsStayTrue'
  BY NextReadsStayTrue
<1> QED
  BY <1>2, <1>3, <1>4 DEF ReadsInv

\* While no other request for the business is in progress, nothing that
\* with-definition has read goes stale before it answers, if it was not stale when
\* it was read: not the document, nor that there is none. Test data is cleared in
\* test environments only (test-data.routes.js).
THEOREM ReadsStayTrueAlone ==
  "clear" \notin Operations => (Spec /\ []Alone /\ []CaughtUp => []ReadsInv)
<1> SUFFICES ASSUME "clear" \notin Operations PROVE Spec /\ []Alone /\ []CaughtUp => []ReadsInv
  OBVIOUS
<1>1. Alone /\ CaughtUp /\ ReadsInv /\ [Next]_vars => ReadsInv'
  BY NextReads
<1> QED
  BY <1>1, InitReads, PTL DEF Spec

\* What is returned unchanged is what is stored, but for the mark of a purge, and no
\* state is returned only if there is none, as long as no two requests for the
\* business are in progress at once and what is read of it has reached the
\* secondaries. Other businesses, purges and definitions may do as they like.
THEOREM ReturnedStatesAreStored ==
  "clear" \notin Operations => (Spec /\ []Alone /\ []CaughtUp => ReturnedStateIsStored)
<1> SUFFICES ASSUME "clear" \notin Operations
             PROVE  Spec /\ []Alone /\ []CaughtUp => ReturnedStateIsStored
  OBVIOUS
<1> DEFINE Stays == \A r \in Requests :
      /\ req[r].pc = "lock"
      /\ req[r].op \in LatestRoutes
      /\ req'[r] = Answered(200)
      => IF req[r].seen = NoDocument
         THEN \A d \in docs : d.sbi # req[r].sbi
         ELSE \E status \in {req[r].seen.status, "PURGED"} :
                [req[r].seen EXCEPT !.status = status] \in docs
<1>1. ReadsInv => Stays
  BY DEF ReadsInv, ReadsStayTrue, Remembering, Remembered
<1> QED
  BY <1>1, ReadsStayTrueAlone, PTL DEF Spec, ReturnedStateIsStored

===========================================================================
