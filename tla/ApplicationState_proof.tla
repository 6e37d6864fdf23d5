---------------------- MODULE ApplicationState_proof ----------------------
(***************************************************************************)
(* Proofs about ApplicationState, for any number of businesses, users,     *)
(* versions, documents and concurrent requests: types, that a handler      *)
(* keeps the lock it has passed while locks are respected, that an         *)
(* application stays within its pinned major, and that the handlers use    *)
(* the lock as ApplicationLease allows.                                    *)
(***************************************************************************)
EXTENDS ApplicationState, TLAPS

---------------------------------------------------------------------------
\* What a step does to one request slot: receive a request, go on with it, or
\* answer it. The lemmas below keep the types of the requests out of the
\* other proofs.
LEMMA AppTyped ==
  ASSUME TypeOK, NEW r \in Requests,
         req[r].pc \in {"lock", "run", "release", "upgrade", "releaseOld"}
  PROVE  req[r] \in Request /\ App(r) \in Applications
  BY DEF TypeOK, RequestsOK, Request, Answer, Answered, Idle, App, Applications

LEMMA InFlightTyped ==
  ASSUME TypeOK, NEW r \in Requests, InFlight(r)
  PROVE  req[r] \in Request
  BY DEF TypeOK, RequestsOK, InFlight, Answer, Answered, Idle

LEMMA ReplyTyped ==
  ASSUME TypeOK, NEW r \in Requests, NEW code \in {200, 201, 400, 404, 423, 500},
         Reply(r, code)
  PROVE  RequestsOK'
  BY DEF TypeOK, RequestsOK, Reply, Answered, Answer

LEMMA GoToTyped ==
  ASSUME TypeOK, NEW r \in Requests, req[r] \in Request,
         NEW pc \in {"read", "resolve", "lock", "run", "release", "upgrade", "releaseOld"},
         pc \notin {"read", "resolve"} => req[r].version \in Versions,
         pc \in {"upgrade", "releaseOld"} => req[r].seen # NoDocument,
         GoTo(r, pc)
  PROVE  RequestsOK'
<1>1. req' = [req EXCEPT ![r] = [req[r] EXCEPT !.pc = pc]]
  BY DEF GoTo
<1>2. [req[r] EXCEPT !.pc = pc] \in Request
  BY DEF Request
<1> QED
  BY <1>1, <1>2 DEF TypeOK, RequestsOK, Request

LEMMA ReleaseTyped ==
  ASSUME TypeOK, NEW a \in Applications, NEW o \in Owners, Release(a, o)
  PROVE  locks' \in [Applications -> Owners \cup {Nobody}]
  BY DEF TypeOK, Release

LEMMA ViewsTyped == ASSUME TypeOK PROVE \A view \in Views : view \subseteq Document
  BY DEF TypeOK, Views

LEMMA AddressedTyped ==
  ASSUME TypeOK, NEW r \in Requests, req[r].pc = "run"
  PROVE  Addressed(r) \subseteq Applications
  BY AppTyped DEF Addressed

---------------------------------------------------------------------------
\* Every step keeps the variables in their types, one lemma per group of
\* actions.
LEMMA ReceiveTyped ==
  ASSUME TypeOK, NEW r \in Requests, NEW o \in Owners
  PROVE  /\ \A op \in LockedRoutes, a \in Applications : ReceiveLocked(r, o, op, a) => TypeOK'
         /\ \A op \in LatestRoutes, s \in Sbis : ReceiveLatest(r, o, op, s) => TypeOK'
<1>1. ASSUME NEW op \in LockedRoutes, NEW a \in Applications, ReceiveLocked(r, o, op, a)
      PROVE  TypeOK'
  <2>1. a[1] \in Sbis /\ a[2] \in Versions
    BY DEF Applications
  <2>2. [pc |-> "lock", op |-> op, owner |-> o,
         sbi |-> a[1], version |-> a[2], seen |-> NoDocument] \in Request
    BY <2>1 DEF Request
  <2>3. RequestsOK'
    BY <1>1, <2>1, <2>2 DEF ReceiveLocked, TypeOK, RequestsOK
  <2> QED
    BY <1>1, <2>3 DEF ReceiveLocked, TypeOK
<1>2. ASSUME NEW op \in LatestRoutes, NEW s \in Sbis, ReceiveLatest(r, o, op, s)
      PROVE  TypeOK'
  <2>1. [pc |-> "read", op |-> op, owner |-> o,
         sbi |-> s, version |-> NoVersion, seen |-> NoDocument] \in Request
    BY DEF Request
  <2>2. RequestsOK'
    BY <1>2, <2>1 DEF ReceiveLatest, TypeOK, RequestsOK
  <2> QED
    BY <1>2, <2>2 DEF ReceiveLatest, TypeOK
<1> QED
  BY <1>1, <1>2

LEMMA LockStepTyped ==
  ASSUME TypeOK, NEW r \in Requests, LockStep(r)
  PROVE  TypeOK'
<1>1. /\ req[r] \in Request
      /\ App(r) \in Applications
      /\ req[r].version \in Versions
      /\ req[r].owner \in Owners
  BY AppTyped DEF LockStep, AcquireLock, RefuseLock, TypeOK, RequestsOK, Request
<1>2. CASE AcquireLock(r)
  <2>1. RequestsOK'
    BY <1>1, <1>2, ReplyTyped, GoToTyped DEF AcquireLock, Upgrades
  <2> QED
    BY <1>1, <1>2, <2>1 DEF AcquireLock, TypeOK
<1>3. CASE RefuseLock(r)
  BY <1>3, ReplyTyped DEF RefuseLock, TypeOK
<1> QED
  BY <1>2, <1>3 DEF LockStep

LEMMA StateStepTyped ==
  ASSUME TypeOK, NEW r \in Requests, StateStep(r)
  PROVE  TypeOK'
<1>1. Addressed(r) \subseteq Applications
  BY AddressedTyped
  DEF StateStep, InsertState, UpdateState, RetrieveState, DeleteState, StateNotFound, Handles
<1>2. RequestsOK'
  BY ReplyTyped
  DEF StateStep, InsertState, UpdateState, RetrieveState, DeleteState, StateNotFound
<1>3. docs' \subseteq Document
  <2>1. CASE InsertState(r)
    <3>1. PICK a \in Applications, i \in Ids, status \in ClientStatuses :
            docs' = docs \cup {[id |-> i, sbi |-> a[1], version |-> a[2],
                                pinnedMajor |-> Major[a[2]], status |-> status]}
      BY <1>1, <2>1 DEF InsertState, FreshIds
    <3>2. a[1] \in Sbis /\ a[2] \in Versions /\ Major[a[2]] \in Nat
      BY VersionAssumption DEF Applications
    <3>3. [id |-> i, sbi |-> a[1], version |-> a[2],
           pinnedMajor |-> Major[a[2]], status |-> status] \in Document
      BY <3>2 DEF Document
    <3> QED
      BY <3>1, <3>3 DEF TypeOK
  <2>2. CASE UpdateState(r)
    BY <2>2 DEF UpdateState, Stored, StoredIn, TypeOK, Document
  <2>3. CASE DeleteState(r)
    BY <2>3 DEF DeleteState, TypeOK
  <2>4. CASE RetrieveState(r) \/ StateNotFound(r)
    BY <2>4 DEF RetrieveState, StateNotFound, TypeOK
  <2> QED
    BY <2>1, <2>2, <2>3, <2>4 DEF StateStep
<1> QED
  BY <1>2, <1>3
  DEF TypeOK, StateStep, InsertState, UpdateState, RetrieveState, DeleteState, StateNotFound

LEMMA SubmitStepTyped ==
  ASSUME TypeOK, NEW r \in Requests, SubmitStep(r)
  PROVE  TypeOK'
<1>1. /\ req[r] \in Request
      /\ App(r) \in Applications
      /\ req[r].version \in Versions
      /\ req[r].owner \in Owners
      /\ req[r].sbi \in Sbis
  BY AppTyped
  DEF SubmitStep, RejectMismatch, InsertSubmission, DuplicateSubmission,
      ReleaseAfterSubmission, Handles, TypeOK, RequestsOK, Request
<1>2. CASE RejectMismatch(r) \/ DuplicateSubmission(r)
  BY <1>2, ReplyTyped DEF RejectMismatch, DuplicateSubmission, TypeOK
<1>3. CASE InsertSubmission(r)
  <2>1. RequestsOK'
    BY <1>1, <1>3, GoToTyped DEF InsertSubmission
  <2> QED
    BY <1>1, <1>3, <2>1 DEF InsertSubmission, Submitted, Submission, TypeOK
<1>4. CASE ReleaseAfterSubmission(r)
  BY <1>1, <1>4, ReplyTyped, ReleaseTyped DEF ReleaseAfterSubmission, TypeOK
<1> QED
  BY <1>2, <1>3, <1>4 DEF SubmitStep

LEMMA LatestStepTyped ==
  ASSUME TypeOK, NEW r \in Requests, LatestStep(r)
  PROVE  TypeOK'
<1>1. req[r] \in Request
  BY InFlightTyped
  DEF LatestStep, ReadExisting, ReadNothing, ResolveDefinition, DefinitionNotFound,
      Upgrade, UpgradeClash, ReleaseOld, InFlight
<1>2. CASE ReadExisting(r)
  <2>1. PICK d \in docs \cup replica :
          req' = [req EXCEPT ![r] =
            IF req[r].op = "stateOnly"
            THEN [req[r] EXCEPT !.pc = "lock", !.seen = d, !.version = d.version]
            ELSE [req[r] EXCEPT !.pc = "resolve", !.seen = d]]
    BY <1>2 DEF ReadExisting, LatestIn, Views
  <2>2. d \in Document /\ d.version \in Versions
    BY DEF TypeOK, Document
  <2>3. RequestsOK'
    BY <1>1, <2>1, <2>2 DEF TypeOK, RequestsOK, Request
  <2> QED
    BY <1>2, <2>3 DEF ReadExisting, TypeOK
<1>3. CASE ReadNothing(r)
  <2>1. RequestsOK'
    BY <1>1, <1>3, ReplyTyped, GoToTyped DEF ReadNothing
  <2> QED
    BY <1>3, <2>1 DEF ReadNothing, TypeOK
<1>4. CASE ResolveDefinition(r)
  <2>1. PICK v \in Candidates(r) :
          req' = [req EXCEPT ![r] = [req[r] EXCEPT !.pc = "lock", !.version = v]]
    BY <1>4 DEF ResolveDefinition
  <2>2. v \in Versions
    BY DEF Candidates, TypeOK
  <2>3. RequestsOK'
    BY <1>1, <2>1, <2>2 DEF TypeOK, RequestsOK, Request
  <2> QED
    BY <1>4, <2>3 DEF ResolveDefinition, TypeOK
<1>5. CASE DefinitionNotFound(r) \/ UpgradeClash(r)
  BY <1>5, ReplyTyped DEF DefinitionNotFound, UpgradeClash, TypeOK
<1>6. CASE Upgrade(r)
  <2>1. req[r].version \in Versions /\ req[r].seen # NoDocument
    BY <1>6 DEF Upgrade, TypeOK, RequestsOK
  <2>2. RequestsOK'
    BY <1>1, <1>6, <2>1, GoToTyped DEF Upgrade
  <2>3. docs' \subseteq Document
    BY <1>6, <2>1 DEF Upgrade, Rekeyed, WithId, TypeOK, Document
  <2> QED
    BY <1>6, <2>2, <2>3 DEF Upgrade, TypeOK
<1>7. CASE ReleaseOld(r)
  <2>1. /\ req[r].seen \in Document
        /\ <<req[r].sbi, req[r].seen.version>> \in Applications
        /\ req[r].owner \in Owners
    BY <1>1, <1>7 DEF ReleaseOld, TypeOK, RequestsOK, Request, Document, Applications
  <2>2. locks' \in [Applications -> Owners \cup {Nobody}]
    BY <1>7, <2>1, ReleaseTyped DEF ReleaseOld, TypeOK
  <2> QED
    BY <1>7, <2>2, ReplyTyped DEF ReleaseOld, TypeOK
<1> QED
  BY <1>2, <1>3, <1>4, <1>5, <1>6, <1>7 DEF LatestStep

\* The purge and what else happens outside the handlers.
Surroundings ==
  \/ \E p \in Purgers : FindUnsubmitted(p) \/ MarkPurged(p) \/ PurgeFails(p)
  \/ \E o \in Owners : SignOut(o)
  \/ \E a \in Applications : ExpireLock(a)
  \/ \E a \in Applications, o \in Owners : AdminRelease(a, o)
  \/ \E s \in Sbis : ClearStates(s) \/ ClearSubmissions(s) \/ ClearLocks(s)
  \/ \E v \in Versions : Publish(v) \/ Withdraw(v)
  \/ Replicate

LEMMA SurroundingsTyped ==
  ASSUME TypeOK, Surroundings
  PROVE  TypeOK'
<1>1. req' = req
  BY DEF Surroundings, FindUnsubmitted, MarkPurged, PurgeFails, SignOut, ExpireLock,
         AdminRelease, ClearStates, ClearSubmissions, ClearLocks, Publish, Withdraw, Replicate
<1>2. RequestsOK'
  BY <1>1 DEF TypeOK, RequestsOK
<1>3. ASSUME NEW p \in Purgers, FindUnsubmitted(p) \/ MarkPurged(p) \/ PurgeFails(p)
      PROVE  TypeOK'
  <2>1. CASE FindUnsubmitted(p)
    <3>1. \A view \in Views :
            {d.id : d \in {e \in view : /\ e.status \notin {"SUBMITTED", "PURGED"}
                                      /\ e.version \in PurgeRule}} \in SUBSET Ids
      BY ViewsTyped DEF Document
    <3> QED
      BY <1>2, <2>1, <3>1 DEF FindUnsubmitted, TypeOK
  <2>2. CASE MarkPurged(p)
    <3>1. docs' \subseteq Document
      BY <2>2 DEF MarkPurged, TypeOK, Document
    <3> QED
      BY <1>2, <2>2, <3>1 DEF MarkPurged, TypeOK
  <2>3. CASE PurgeFails(p)
    BY <1>2, <2>3 DEF PurgeFails, TypeOK
  <2> QED
    BY <1>3, <2>1, <2>2, <2>3
<1>4. ASSUME NEW o \in Owners, SignOut(o) PROVE TypeOK'
  BY <1>2, <1>4 DEF SignOut, TypeOK
<1>5. ASSUME NEW a \in Applications, ExpireLock(a) PROVE TypeOK'
  BY <1>2, <1>5 DEF ExpireLock, TypeOK
<1>6. ASSUME NEW a \in Applications, NEW o \in Owners, AdminRelease(a, o) PROVE TypeOK'
  BY <1>2, <1>6, ReleaseTyped DEF AdminRelease, TypeOK
<1>7. ASSUME NEW s \in Sbis, ClearStates(s) \/ ClearSubmissions(s) \/ ClearLocks(s)
      PROVE  TypeOK'
  BY <1>2, <1>7 DEF ClearStates, ClearSubmissions, ClearLocks, TypeOK
<1>8. ASSUME NEW v \in Versions, Publish(v) \/ Withdraw(v) PROVE TypeOK'
  BY <1>2, <1>8 DEF Publish, Withdraw, TypeOK
<1>9. CASE Replicate
  BY <1>2, <1>9 DEF Replicate, TypeOK
<1> QED
  BY <1>3, <1>4, <1>5, <1>6, <1>7, <1>8, <1>9 DEF Surroundings

\* The four groups of handler steps, and failure.
HandlerStep(r) == LockStep(r) \/ StateStep(r) \/ SubmitStep(r) \/ LatestStep(r) \/ Fail(r)

LEMMA NextCases ==
  ASSUME [Next]_vars
  PROVE  \/ \E r \in Requests, o \in Owners, op \in LockedRoutes, a \in Applications :
              ReceiveLocked(r, o, op, a)
         \/ \E r \in Requests, o \in Owners, op \in LatestRoutes, s \in Sbis :
              ReceiveLatest(r, o, op, s)
         \/ \E r \in Requests : HandlerStep(r)
         \/ Surroundings
         \/ UNCHANGED vars
  BY DEF Next, HandlerStep, Surroundings

LEMMA NextTyped == TypeOK /\ [Next]_vars => TypeOK'
<1> SUFFICES ASSUME TypeOK, [Next]_vars PROVE TypeOK'
  OBVIOUS
<1>1. ASSUME NEW r \in Requests, HandlerStep(r) PROVE TypeOK'
  <2>1. CASE Fail(r)
    BY <2>1, ReplyTyped DEF Fail, TypeOK
  <2> QED
    BY <1>1, <2>1, LockStepTyped, StateStepTyped, SubmitStepTyped, LatestStepTyped
    DEF HandlerStep
<1>2. CASE UNCHANGED vars
  BY <1>2 DEF vars, TypeOK, RequestsOK
<1> QED
  BY <1>1, <1>2, NextCases, ReceiveTyped, SurroundingsTyped

\* The collections, the definitions and the requests stay in their types.
THEOREM StateTypes == Spec => []TypeOK
<1>1. Init => TypeOK
  BY DEF Init, TypeOK, RequestsOK, Idle
<1> QED
  BY <1>1, NextTyped, PTL DEF Spec

---------------------------------------------------------------------------
\* A handler step is the step of one request, which keeps its owner.
LEMMA HandlerOfOne ==
  ASSUME TypeOK, NEW r \in Requests, HandlerStep(r)
  PROVE  /\ \A q \in Requests \ {r} : req'[q] = req[q]
         /\ InFlight(r)
         /\ InFlight(r)' => req'[r].owner = req[r].owner
<1> USE DEF TypeOK, RequestsOK, InFlight, Reply, GoTo, Answered
<1>1. CASE LockStep(r) \/ Fail(r)
  BY <1>1, AppTyped, InFlightTyped DEF LockStep, AcquireLock, RefuseLock, Fail, Request
<1>2. CASE StateStep(r)
  BY <1>2 DEF StateStep, InsertState, UpdateState, RetrieveState, DeleteState,
              StateNotFound, Handles
<1>3. CASE SubmitStep(r)
  BY <1>3, InFlightTyped
  DEF SubmitStep, RejectMismatch, InsertSubmission, DuplicateSubmission,
      ReleaseAfterSubmission, Handles, Request
<1>4. CASE LatestStep(r)
  <2>1. req[r] \in Request /\ InFlight(r)
    BY <1>4, InFlightTyped
    DEF LatestStep, ReadExisting, ReadNothing, ResolveDefinition, DefinitionNotFound,
        Upgrade, UpgradeClash, ReleaseOld
  <2>2. CASE ReadExisting(r)
    BY <2>1, <2>2 DEF ReadExisting, Request
  <2>3. CASE ResolveDefinition(r)
    BY <2>1, <2>3 DEF ResolveDefinition, Request
  <2>4. CASE ReadNothing(r) \/ DefinitionNotFound(r)
    BY <2>1, <2>4 DEF ReadNothing, DefinitionNotFound, Request
  <2>5. CASE Upgrade(r) \/ UpgradeClash(r) \/ ReleaseOld(r)
    BY <2>1, <2>5 DEF Upgrade, UpgradeClash, ReleaseOld, Request
  <2> QED
    BY <1>4, <2>2, <2>3, <2>4, <2>5 DEF LatestStep
<1> QED
  BY <1>1, <1>2, <1>3, <1>4 DEF HandlerStep

---------------------------------------------------------------------------
\* While clients are serial, a user has one request in flight, so a release by
\* one handler cannot take the lock from under another.
OneRequestPerOwner ==
  \A r, q \in Requests :
    InFlight(r) /\ InFlight(q) /\ req[r].owner = req[q].owner => r = q

LockInv == TypeOK /\ OneRequestPerOwner /\ LockIsHeld

LEMMA NextOneRequest ==
  ASSUME SerialClients, TypeOK, OneRequestPerOwner, [Next]_vars
  PROVE  OneRequestPerOwner'
<1>1. ASSUME NEW r \in Requests, HandlerStep(r) PROVE OneRequestPerOwner'
  BY <1>1, HandlerOfOne DEF OneRequestPerOwner, InFlight
<1>2. ASSUME NEW r \in Requests, NEW o \in Owners, NEW op, NEW a \in Applications,
             ReceiveLocked(r, o, op, a)
      PROVE  OneRequestPerOwner'
  BY <1>2 DEF ReceiveLocked, Waits, OneRequestPerOwner, InFlight,
              TypeOK, RequestsOK
<1>3. ASSUME NEW r \in Requests, NEW o \in Owners, NEW op, NEW s \in Sbis,
             ReceiveLatest(r, o, op, s)
      PROVE  OneRequestPerOwner'
  BY <1>3 DEF ReceiveLatest, Waits, OneRequestPerOwner, InFlight,
              TypeOK, RequestsOK
<1>4. CASE Surroundings
  <2>1. req' = req
    BY <1>4 DEF Surroundings, FindUnsubmitted, MarkPurged, PurgeFails, SignOut, ExpireLock,
                AdminRelease, ClearStates, ClearSubmissions, ClearLocks, Publish, Withdraw, Replicate
  <2> QED
    BY <2>1 DEF OneRequestPerOwner, InFlight
<1>5. CASE UNCHANGED vars
  BY <1>5 DEF vars, OneRequestPerOwner, InFlight
<1> QED
  BY <1>1, <1>2, <1>3, <1>4, <1>5, NextCases

\* The handler that takes a step still has its lock afterwards, if it is still
\* past the lock at all.
LEMMA StepperKeepsLock ==
  ASSUME TypeOK, LockIsHeld, NEW r \in Requests, HandlerStep(r), PastLock(r)'
  PROVE  locks'[App(r)'] = req'[r].owner
<1> USE DEF PastLock, App, Reply, GoTo, Answered, TypeOK, RequestsOK
<1>1. req[r] \in Request
  BY HandlerOfOne, InFlightTyped
<1>2. CASE LockStep(r)
  <2>1. AcquireLock(r) /\ App(r) \in Applications
    BY <1>2, AppTyped DEF LockStep, RefuseLock, AcquireLock
  <2>2. /\ App(r)' = App(r)
        /\ req'[r].owner = req[r].owner
        /\ locks' = [locks EXCEPT ![App(r)] = req[r].owner]
    BY <1>1, <2>1 DEF AcquireLock, Request
  <2> QED
    BY <2>1, <2>2
<1>3. CASE StateStep(r) \/ Fail(r)
  BY <1>3
  DEF StateStep, InsertState, UpdateState, RetrieveState, DeleteState, StateNotFound, Fail
<1>4. CASE SubmitStep(r)
  <2>1. InsertSubmission(r)
    BY <1>4 DEF SubmitStep, RejectMismatch, DuplicateSubmission, ReleaseAfterSubmission
  <2> QED
    BY <1>1, <2>1 DEF InsertSubmission, Handles, LockIsHeld, Request
<1>5. CASE LatestStep(r)
  <2>1. CASE Upgrade(r)
    BY <1>1, <2>1 DEF Upgrade, LockIsHeld, Request
  <2>2. CASE ReadExisting(r)
    BY <1>1, <2>2 DEF ReadExisting, Request
  <2>3. CASE ResolveDefinition(r)
    BY <1>1, <2>3 DEF ResolveDefinition, Request
  <2>4. CASE ReadNothing(r)
    BY <1>1, <2>4 DEF ReadNothing, Request
  <2>5. CASE DefinitionNotFound(r) \/ UpgradeClash(r) \/ ReleaseOld(r)
    BY <2>5 DEF DefinitionNotFound, UpgradeClash, ReleaseOld
  <2> QED
    BY <1>5, <2>1, <2>2, <2>3, <2>4, <2>5 DEF LatestStep
<1> QED
  BY <1>2, <1>3, <1>4, <1>5 DEF HandlerStep

\* A handler step leaves the locks of other owners alone.
LEMMA StepperSparesOthers ==
  ASSUME TypeOK, NEW r \in Requests, HandlerStep(r),
         NEW a \in Applications, NEW o \in Owners, o # req[r].owner, locks[a] = o
  PROVE  locks'[a] = o
<1>1. ASSUME AcquireLock(r) PROVE locks'[a] = o
  BY <1>1, NullAssumption DEF AcquireLock, TypeOK
<1>2. ASSUME NEW b \in Applications, Release(b, req[r].owner) PROVE locks'[a] = o
  BY <1>2 DEF Release, TypeOK
<1>3. CASE LockStep(r) \/ Fail(r)
  BY <1>1, <1>3 DEF LockStep, RefuseLock, Fail
<1>4. CASE StateStep(r)
  BY <1>4 DEF StateStep, InsertState, UpdateState, RetrieveState, DeleteState, StateNotFound
<1>5. CASE SubmitStep(r)
  <2>1. ASSUME ReleaseAfterSubmission(r) PROVE locks'[a] = o
    BY <2>1, <1>2, AppTyped DEF ReleaseAfterSubmission
  <2> QED
    BY <1>5, <2>1 DEF SubmitStep, RejectMismatch, InsertSubmission, DuplicateSubmission
<1>6. CASE LatestStep(r)
  <2>1. ASSUME ReleaseOld(r) PROVE locks'[a] = o
    <3>1. <<req[r].sbi, req[r].seen.version>> \in Applications
      BY <2>1, AppTyped DEF ReleaseOld, TypeOK, RequestsOK, Request, Document, Applications
    <3> QED
      BY <2>1, <3>1, <1>2 DEF ReleaseOld
  <2> QED
    BY <1>6, <2>1
    DEF LatestStep, ReadExisting, ReadNothing, ResolveDefinition, DefinitionNotFound,
        Upgrade, UpgradeClash
<1> QED
  BY <1>3, <1>4, <1>5, <1>6 DEF HandlerStep

LEMMA NextKeepsLocks ==
  ASSUME LocksAreRespected, LockInv, [Next]_vars
  PROVE  LockIsHeld'
<1> SUFFICES ASSUME NEW q \in Requests, PastLock(q)'
             PROVE  locks'[App(q)'] = req'[q].owner
  BY DEF LockIsHeld
<1> USE DEF LockInv
\* A step that leaves this request alone has only to spare its lock.
<1>1. ASSUME req'[q] = req[q]
      PROVE  /\ InFlight(q) /\ PastLock(q)
             /\ App(q)' = App(q) /\ App(q) \in Applications
             /\ req[q].owner \in Owners
             /\ locks[App(q)] = req[q].owner
  <2>1. PastLock(q)
    BY <1>1 DEF PastLock
  <2>2. req[q] \in Request /\ App(q) \in Applications
    BY <2>1, AppTyped DEF PastLock
  <2> QED
    BY <1>1, <2>1, <2>2 DEF PastLock, InFlight, App, LockIsHeld, Request
<1>2. ASSUME NEW r \in Requests, HandlerStep(r)
      PROVE  locks'[App(q)'] = req'[q].owner
  <2>1. CASE q = r
    BY <1>2, <2>1, StepperKeepsLock
  <2>2. CASE q # r
    <3>1. req'[q] = req[q] /\ InFlight(r)
      BY <1>2, <2>2, HandlerOfOne
    <3>2. req[q].owner # req[r].owner
      BY <1>1, <2>2, <3>1 DEF OneRequestPerOwner
    <3> QED
      BY <1>1, <1>2, <3>1, <3>2, StepperSparesOthers
  <2> QED
    BY <2>1, <2>2
<1>3. ASSUME NEW r \in Requests, NEW o \in Owners, NEW op, NEW a \in Applications,
             ReceiveLocked(r, o, op, a)
      PROVE  locks'[App(q)'] = req'[q].owner
  <2>1. q # r
    BY <1>3 DEF ReceiveLocked, PastLock, TypeOK, RequestsOK
  <2> QED
    BY <1>1, <1>3, <2>1 DEF ReceiveLocked, TypeOK, RequestsOK
<1>4. ASSUME NEW r \in Requests, NEW o \in Owners, NEW op, NEW s \in Sbis,
             ReceiveLatest(r, o, op, s)
      PROVE  locks'[App(q)'] = req'[q].owner
  <2>1. q # r
    BY <1>4 DEF ReceiveLatest, PastLock, TypeOK, RequestsOK
  <2> QED
    BY <1>1, <1>4, <2>1 DEF ReceiveLatest, TypeOK, RequestsOK
<1>5. CASE Surroundings
  <2>1. ASSUME req' = req, locks' = locks
        PROVE  locks'[App(q)'] = req'[q].owner
    BY <1>1, <2>1
  <2>2. ASSUME NEW o \in Owners, SignOut(o)
        PROVE  locks'[App(q)'] = req'[q].owner
    <3>1. req'[q] = req[q] /\ req[q].owner # o
      BY <1>1, <2>2 DEF SignOut, Waits, LocksAreRespected
    <3> QED
      BY <1>1, <2>2, <3>1 DEF SignOut
  <2>3. ASSUME NEW a \in Applications, ExpireLock(a)
        PROVE  locks'[App(q)'] = req'[q].owner
    <3>1. req'[q] = req[q] /\ App(q) # a
      BY <1>1, <2>3 DEF ExpireLock
    <3> QED
      BY <1>1, <2>3, <3>1 DEF ExpireLock, TypeOK
  <2> QED
    BY <1>5, <2>1, <2>2, <2>3
    DEF Surroundings, FindUnsubmitted, MarkPurged, PurgeFails, AdminRelease, ClearStates,
        ClearSubmissions, ClearLocks, Publish, Withdraw, Replicate, LocksAreRespected
<1>6. CASE UNCHANGED vars
  BY <1>1, <1>6 DEF vars
<1> QED
  BY <1>2, <1>3, <1>4, <1>5, <1>6, NextCases

\* While users wait for one request before they make another, and neither the
\* admin nor the test-data route deletes locks, every handler still has the lock
\* it passed, at each of its later steps.
THEOREM HandlersKeepTheLock == LocksAreRespected => (Spec => []LockIsHeld)
<1> SUFFICES ASSUME LocksAreRespected PROVE Spec => []LockIsHeld
  OBVIOUS
<1>1. Init => LockInv
  BY DEF Init, LockInv, TypeOK, RequestsOK, Idle, OneRequestPerOwner, InFlight,
         LockIsHeld, PastLock
<1>2. LockInv /\ [Next]_vars => LockInv'
  BY NextTyped, NextOneRequest, NextKeepsLocks DEF LockInv, LocksAreRespected
<1>3. LockInv => LockIsHeld
  BY DEF LockInv
<1> QED
  BY <1>1, <1>2, <1>3, PTL DEF Spec

\* Under the same assumptions handlers of different users are never past the
\* lock of one application at the same time.
THEOREM AccessIsExclusive == LocksAreRespected => (Spec => []ExclusiveAccess)
<1> SUFFICES ASSUME LocksAreRespected PROVE Spec => []ExclusiveAccess
  OBVIOUS
<1>1. LockIsHeld => ExclusiveAccess
  BY DEF LockIsHeld, ExclusiveAccess
<1> QED
  BY <1>1, HandlersKeepTheLock, PTL

---------------------------------------------------------------------------
\* Whoever calls what and however calls overlap: the handlers never take a lock
\* from another user, they are granted free ones or their own, and free them.
THEOREM StateImplementsLease == Spec => ImplementsLease
<1>1. Init => Lease!Init
  BY DEF Init, Lease!Init
<1>2. TypeOK /\ [Next]_vars => [Lease!Next]_(Lease!vars)
  <2> SUFFICES ASSUME TypeOK, [Next]_vars PROVE Lease!Next \/ UNCHANGED Lease!vars
    OBVIOUS
  <2>1. ASSUME locks' = locks PROVE UNCHANGED Lease!vars
    BY <2>1 DEF Lease!vars
  <2>2. ASSUME NEW a \in Applications, NEW o \in Owners,
               locks[a] \in {Nobody, o}, locks' = [locks EXCEPT ![a] = o]
        PROVE  Lease!Next
    <3>1. Lease!Grant(a, o)
      BY <2>2 DEF Lease!Grant
    <3> QED
      BY <3>1 DEF Lease!Next
  <2>3. ASSUME NEW S \in SUBSET Applications,
               locks' = [a \in Applications |-> IF a \in S THEN Nobody ELSE locks[a]]
        PROVE  Lease!Next
    <3>1. Lease!Free(S)
      BY <2>3 DEF Lease!Free
    <3> QED
      BY <3>1 DEF Lease!Next
  <2>4. ASSUME NEW a \in Applications, NEW o, Release(a, o)
        PROVE  Lease!Next
    <3>1. PICK S \in SUBSET Applications : S = {b \in Applications : b = a /\ locks[a] = o}
      OBVIOUS
    <3>2. locks' = [b \in Applications |-> IF b \in S THEN Nobody ELSE locks[b]]
      BY <2>4, <3>1 DEF Release, TypeOK
    <3> QED
      BY <2>3, <3>2
  <2>5. ASSUME NEW r \in Requests, HandlerStep(r)
        PROVE  Lease!Next \/ UNCHANGED Lease!vars
    <3>1. CASE AcquireLock(r)
      <4>1. PICK a \in Applications, o \in Owners : a = App(r) /\ o = req[r].owner
        BY <3>1, AppTyped DEF AcquireLock, Request
      <4> QED
        BY <2>2, <3>1, <4>1 DEF AcquireLock
    <3>2. CASE ReleaseAfterSubmission(r)
      <4>1. PICK a \in Applications : a = App(r)
        BY <3>2, AppTyped DEF ReleaseAfterSubmission
      <4> QED
        BY <2>4, <3>2, <4>1 DEF ReleaseAfterSubmission
    <3>3. CASE ReleaseOld(r)
      <4>1. PICK a \in Applications : a = <<req[r].sbi, req[r].seen.version>>
        BY <3>3, AppTyped DEF ReleaseOld, TypeOK, RequestsOK, Request, Document, Applications
      <4> QED
        BY <2>1, <2>4, <3>3, <4>1 DEF ReleaseOld
    <3>4. CASE StateStep(r)
      BY <2>1, <3>4
      DEF StateStep, InsertState, UpdateState, RetrieveState, DeleteState, StateNotFound
    <3> QED
      BY <2>1, <2>5, <3>1, <3>2, <3>3, <3>4
      DEF HandlerStep, LockStep, SubmitStep, LatestStep, RefuseLock, Fail, RejectMismatch,
          InsertSubmission, DuplicateSubmission, ReadExisting, ReadNothing,
          ResolveDefinition, DefinitionNotFound, Upgrade, UpgradeClash
  <2>6. ASSUME Surroundings
        PROVE  Lease!Next \/ UNCHANGED Lease!vars
    <3>1. ASSUME NEW o \in Owners, SignOut(o) PROVE Lease!Next
      <4>1. PICK S \in SUBSET Applications : S = {a \in Applications : locks[a] = o}
        OBVIOUS
      <4>2. locks' = [a \in Applications |-> IF a \in S THEN Nobody ELSE locks[a]]
        BY <3>1, <4>1 DEF SignOut
      <4> QED
        BY <2>3, <4>2
    <3>2. ASSUME NEW a \in Applications, ExpireLock(a) PROVE Lease!Next
      <4>1. PICK S \in SUBSET Applications : S = {a}
        OBVIOUS
      <4>2. locks' = [b \in Applications |-> IF b \in S THEN Nobody ELSE locks[b]]
        BY <3>2, <4>1 DEF ExpireLock, TypeOK
      <4> QED
        BY <2>3, <4>2
    <3>3. ASSUME NEW s \in Sbis, ClearLocks(s) PROVE Lease!Next
      <4>1. PICK S \in SUBSET Applications : S = {a \in Applications : a[1] = s}
        OBVIOUS
      <4>2. locks' = [a \in Applications |-> IF a \in S THEN Nobody ELSE locks[a]]
        BY <3>3, <4>1 DEF ClearLocks
      <4> QED
        BY <2>3, <4>2
    <3> QED
      BY <2>1, <2>4, <2>6, <3>1, <3>2, <3>3
      DEF Surroundings, FindUnsubmitted, MarkPurged, PurgeFails, AdminRelease, ClearStates,
          ClearSubmissions, Publish, Withdraw, Replicate
  <2> QED
    BY <2>1, <2>5, <2>6, NextCases DEF ReceiveLocked, ReceiveLatest, vars
<1> QED
  BY StateTypes, <1>1, <1>2, PTL DEF Spec, Lease!Spec, ImplementsLease

---------------------------------------------------------------------------
\* Changing nothing but the status of documents, or deleting some, keeps what
\* the version invariant says of the collection.
LEMMA SameKeys ==
  ASSUME OneDocumentPerVersion, PinnedMajorKept,
         NEW f,
         \A d \in docs : /\ f[d].id = d.id
                         /\ f[d].sbi = d.sbi
                         /\ f[d].version = d.version
                         /\ f[d].pinnedMajor = d.pinnedMajor,
         \A e \in docs' : \E d \in docs : e = f[d]
  PROVE  /\ OneDocumentPerVersion'
         /\ PinnedMajorKept'
         /\ \A e \in docs' : \E d \in docs :
              e.id = d.id /\ e.sbi = d.sbi /\ e.pinnedMajor = d.pinnedMajor
<1>1. OneDocumentPerVersion'
  <2> SUFFICES ASSUME NEW d \in docs', NEW e \in docs',
                      d.id = e.id \/ <<d.sbi, d.version>> = <<e.sbi, e.version>>
               PROVE  d = e
    BY DEF OneDocumentPerVersion
  <2>1. PICK dd \in docs, ee \in docs : d = f[dd] /\ e = f[ee]
    OBVIOUS
  <2>2. dd.id = ee.id \/ <<dd.sbi, dd.version>> = <<ee.sbi, ee.version>>
    BY <2>1
  <2>3. dd = ee
    BY <2>2 DEF OneDocumentPerVersion
  <2> QED
    BY <2>1, <2>3
<1>2. PinnedMajorKept'
  BY DEF PinnedMajorKept
<1> QED
  BY <1>1, <1>2

\* The documents after a step: the old ones with their business and pinnedMajor,
\* and perhaps one with a fresh _id.
DocumentsKept ==
  \A e \in docs' :
    \/ \E d \in docs : e.id = d.id /\ e.sbi = d.sbi /\ e.pinnedMajor = d.pinnedMajor
    \/ e.id \in FreshIds

LEMMA InsertKeeps ==
  ASSUME VersionInv, NEW r \in Requests, InsertState(r)
  PROVE  OneDocumentPerVersion' /\ PinnedMajorKept' /\ DocumentsKept
<1>1. Addressed(r) \subseteq Applications
  BY AddressedTyped DEF VersionInv, InsertState, Handles
<1>2. PICK a \in Applications, i \in FreshIds, status \in ClientStatuses :
        /\ Stored(a) = {}
        /\ docs' = docs \cup {[id |-> i, sbi |-> a[1], version |-> a[2],
                               pinnedMajor |-> Major[a[2]], status |-> status]}
  BY <1>1 DEF InsertState
<1> DEFINE new == [id |-> i, sbi |-> a[1], version |-> a[2],
                   pinnedMajor |-> Major[a[2]], status |-> status]
<1>3. \A d \in docs : d.id # new.id /\ <<d.sbi, d.version>> # <<new.sbi, new.version>>
  BY <1>2 DEF Stored, StoredIn, FreshIds, Applications
<1>4. docs' = docs \cup {new} /\ new.id \in FreshIds /\ Major[new.version] = new.pinnedMajor
  BY <1>2
<1> HIDE DEF new
<1>5. OneDocumentPerVersion'
  BY <1>3, <1>4 DEF VersionInv, OneDocumentPerVersion
<1>6. PinnedMajorKept'
  BY <1>4 DEF VersionInv, PinnedMajorKept
<1> QED
  BY <1>4, <1>5, <1>6 DEF DocumentsKept

LEMMA UpdateKeeps ==
  ASSUME VersionInv, NEW r \in Requests, UpdateState(r)
  PROVE  OneDocumentPerVersion' /\ PinnedMajorKept' /\ DocumentsKept
<1>1. PICK a \in Addressed(r), status \in ClientStatuses :
        docs' = (docs \ Stored(a)) \cup {[d EXCEPT !.status = status] : d \in Stored(a)}
  BY DEF UpdateState
<1> DEFINE f == [d \in docs |-> IF d \in Stored(a) THEN [d EXCEPT !.status = status] ELSE d]
<1>2. \A d \in docs : /\ f[d].id = d.id
                      /\ f[d].sbi = d.sbi
                      /\ f[d].version = d.version
                      /\ f[d].pinnedMajor = d.pinnedMajor
  BY DEF VersionInv, TypeOK, Document
<1>3. \A e \in docs' : \E d \in docs : e = f[d]
  BY <1>1 DEF Stored, StoredIn
<1> HIDE DEF f
<1> QED
  BY <1>2, <1>3, SameKeys DEF VersionInv, DocumentsKept

LEMMA MarkKeeps ==
  ASSUME VersionInv, NEW p \in Purgers, MarkPurged(p)
  PROVE  OneDocumentPerVersion' /\ PinnedMajorKept' /\ DocumentsKept
<1> DEFINE f == [d \in docs |-> IF d.id \in purge[p] THEN [d EXCEPT !.status = "PURGED"] ELSE d]
<1>1. \A d \in docs : /\ f[d].id = d.id
                      /\ f[d].sbi = d.sbi
                      /\ f[d].version = d.version
                      /\ f[d].pinnedMajor = d.pinnedMajor
  BY DEF VersionInv, TypeOK, Document
<1>2. \A e \in docs' : \E d \in docs : e = f[d]
  BY DEF MarkPurged
<1> HIDE DEF f
<1> QED
  BY <1>1, <1>2, SameKeys DEF VersionInv, DocumentsKept

LEMMA FewerKeeps ==
  ASSUME VersionInv, docs' \subseteq docs
  PROVE  OneDocumentPerVersion' /\ PinnedMajorKept' /\ DocumentsKept
  BY DEF VersionInv, OneDocumentPerVersion, PinnedMajorKept, DocumentsKept

\* The one step that changes the version of a document: the snapshot tells its
\* business and major, and the unique index that the new version is free.
LEMMA UpgradeKeeps ==
  ASSUME VersionInv, NEW r \in Requests, Upgrade(r)
  PROVE  OneDocumentPerVersion' /\ PinnedMajorKept' /\ DocumentsKept
<1> DEFINE id == req[r].seen.id
<1> DEFINE v == req[r].version
<1> DEFINE f == [d \in docs |-> IF d.id = id THEN [d EXCEPT !.version = v] ELSE d]
<1>1. /\ Major[v] = req[r].seen.pinnedMajor
      /\ \A d \in docs : d.id = id =>
           d.sbi = req[r].sbi /\ d.pinnedMajor = req[r].seen.pinnedMajor
  BY DEF VersionInv, Upgrade, SnapshotsAgree, SameApplication, TypeOK, RequestsOK, WithId
<1>2. \A d \in docs : /\ f[d].id = d.id
                      /\ f[d].sbi = d.sbi
                      /\ f[d].version = IF d.id = id THEN v ELSE d.version
                      /\ f[d].pinnedMajor = d.pinnedMajor
  BY DEF VersionInv, TypeOK, Document
<1>3. \A e \in docs' : \E d \in docs : e = f[d]
  BY DEF Upgrade, Rekeyed, WithId
<1>4. \A d, e \in docs :
        d.id = id /\ e.sbi = req[r].sbi /\ e.version = v => e.id = id
  BY DEF Upgrade, Clash, WithId, Stored, StoredIn, App
<1> HIDE DEF f, id, v
<1>5. OneDocumentPerVersion'
  <2> SUFFICES ASSUME NEW d \in docs, NEW e \in docs,
                      \/ f[d].id = f[e].id
                      \/ <<f[d].sbi, f[d].version>> = <<f[e].sbi, f[e].version>>
               PROVE  d = e
    BY <1>3 DEF OneDocumentPerVersion
  <2>1. d.id = e.id \/ <<d.sbi, d.version>> = <<e.sbi, e.version>>
    BY <1>1, <1>2, <1>4
  <2> QED
    BY <2>1 DEF VersionInv, OneDocumentPerVersion
<1>6. PinnedMajorKept'
  BY <1>1, <1>2, <1>3 DEF VersionInv, PinnedMajorKept
<1> QED
  BY <1>2, <1>3, <1>5, <1>6 DEF DocumentsKept

LEMMA NextKeepsDocuments ==
  ASSUME VersionInv, [Next]_vars
  PROVE  OneDocumentPerVersion' /\ PinnedMajorKept' /\ DocumentsKept
<1> DEFINE Kept == OneDocumentPerVersion' /\ PinnedMajorKept' /\ DocumentsKept
<1>1. CASE docs' \subseteq docs
  BY <1>1, FewerKeeps
<1>2. ASSUME NEW r \in Requests, HandlerStep(r)
      PROVE  Kept
  <2>1. CASE StateStep(r)
    <3>1. CASE InsertState(r)
      BY <3>1, InsertKeeps
    <3>2. CASE UpdateState(r)
      BY <3>2, UpdateKeeps
    <3>3. CASE RetrieveState(r) \/ DeleteState(r) \/ StateNotFound(r)
      <4>1. docs' \subseteq docs
        BY <3>3 DEF RetrieveState, DeleteState, StateNotFound
      <4> QED
        BY <1>1, <4>1
    <3> QED
      BY <2>1, <3>1, <3>2, <3>3 DEF StateStep
  <2>2. CASE Upgrade(r)
    BY <2>2, UpgradeKeeps
  <2>3. CASE UNCHANGED docs
    BY <1>1, <2>3
  <2> QED
    BY <1>2, <2>1, <2>2, <2>3
    DEF HandlerStep, LockStep, SubmitStep, LatestStep, AcquireLock, RefuseLock, Fail,
        RejectMismatch, InsertSubmission, DuplicateSubmission, ReleaseAfterSubmission,
        ReadExisting, ReadNothing, ResolveDefinition, DefinitionNotFound, UpgradeClash,
        ReleaseOld
<1>3. CASE Surroundings
  <2>1. ASSUME NEW p \in Purgers, MarkPurged(p) PROVE Kept
    BY <2>1, MarkKeeps
  <2>2. ASSUME NEW s \in Sbis, ClearStates(s) PROVE Kept
    <3>1. docs' \subseteq docs
      BY <2>2 DEF ClearStates
    <3> QED
      BY <1>1, <3>1
  <2>3. CASE UNCHANGED docs
    BY <1>1, <2>3
  <2> QED
    BY <1>3, <2>1, <2>2, <2>3
    DEF Surroundings, FindUnsubmitted, PurgeFails, SignOut, ExpireLock, AdminRelease,
        ClearSubmissions, ClearLocks, Publish, Withdraw, Replicate
<1>4. CASE UNCHANGED docs
  BY <1>1, <1>4
<1> QED
  BY <1>2, <1>3, <1>4, NextCases DEF VersionInv, ReceiveLocked, ReceiveLatest, vars

\* A request that goes on remembering a document keeps agreeing with it: the
\* document is never given another business or pinnedMajor, and its _id never
\* becomes that of a new document.
LEMMA SnapshotKept ==
  ASSUME VersionInv, DocumentsKept, NEW r \in Requests,
         req[r].pc \in {"resolve", "lock", "upgrade"}, req[r].seen # NoDocument
  PROVE  \A d \in docs' : d.id = req[r].seen.id =>
           d.sbi = req[r].sbi /\ d.pinnedMajor = req[r].seen.pinnedMajor
<1>1. req[r].seen.id \notin FreshIds
  BY DEF FreshIds, InFlight
<1>2. \A d \in docs : d.id = req[r].seen.id =>
        d.sbi = req[r].sbi /\ d.pinnedMajor = req[r].seen.pinnedMajor
  BY DEF VersionInv, SnapshotsAgree, SameApplication, WithId
<1> QED
  BY <1>1, <1>2 DEF DocumentsKept

\* What SnapshotsAgree says of the documents of the secondary after a step.
ReplicaAgrees ==
  \A d \in replica' :
    /\ Major[d.version] = d.pinnedMajor
    /\ \A e \in docs' : e.id = d.id => e.sbi = d.sbi /\ e.pinnedMajor = d.pinnedMajor

LEMMA ReplicaKept ==
  ASSUME VersionInv, [Next]_vars, DocumentsKept, OneDocumentPerVersion', PinnedMajorKept'
  PROVE  ReplicaAgrees
<1>1. CASE replica' = replica
  <2>1. \A d \in replica : d.id \notin FreshIds
    BY DEF FreshIds
  <2>2. \A d \in replica :
          /\ Major[d.version] = d.pinnedMajor
          /\ \A e \in docs : e.id = d.id => e.sbi = d.sbi /\ e.pinnedMajor = d.pinnedMajor
    BY DEF VersionInv, SnapshotsAgree, SameApplication, WithId
  <2> QED
    BY <1>1, <2>1, <2>2 DEF ReplicaAgrees, DocumentsKept
<1>2. CASE Replicate
  BY <1>2 DEF Replicate, ReplicaAgrees, OneDocumentPerVersion, PinnedMajorKept
<1>3. ASSUME NEW r \in Requests, HandlerStep(r) PROVE ReplicaAgrees
  BY <1>1, <1>3
  DEF HandlerStep, LockStep, StateStep, SubmitStep, LatestStep, AcquireLock, RefuseLock, Fail,
      InsertState, UpdateState, RetrieveState, DeleteState, StateNotFound,
      RejectMismatch, InsertSubmission, DuplicateSubmission, ReleaseAfterSubmission,
      ReadExisting, ReadNothing, ResolveDefinition, DefinitionNotFound, Upgrade, UpgradeClash,
      ReleaseOld
<1>4. CASE Surroundings
  BY <1>1, <1>2, <1>4
  DEF Surroundings, FindUnsubmitted, MarkPurged, PurgeFails, SignOut, ExpireLock,
      AdminRelease, ClearStates, ClearSubmissions, ClearLocks, Publish, Withdraw
<1> QED
  BY <1>1, <1>3, <1>4, NextCases DEF ReceiveLocked, ReceiveLatest, vars

\* What SnapshotsAgree says of one request after a step.
SnapshotAgrees(r) ==
  /\ req'[r].pc = "read" => req'[r].seen = NoDocument
  /\ req'[r].pc \in {"resolve", "lock", "upgrade"} /\ req'[r].seen # NoDocument =>
       /\ req'[r].pc # "resolve" => Major[req'[r].version] = req'[r].seen.pinnedMajor
       /\ \A d \in docs' : d.id = req'[r].seen.id =>
            d.sbi = req'[r].sbi /\ d.pinnedMajor = req'[r].seen.pinnedMajor

LEMMA SnapshotUnchanged ==
  ASSUME VersionInv, DocumentsKept, NEW r \in Requests, req'[r] = req[r]
  PROVE  SnapshotAgrees(r)
<1>1. /\ req[r].pc = "read" => req[r].seen = NoDocument
      /\ req[r].pc \in {"lock", "upgrade"} /\ req[r].seen # NoDocument =>
           Major[req[r].version] = req[r].seen.pinnedMajor
  BY DEF VersionInv, SnapshotsAgree
<1> QED
  BY <1>1, SnapshotKept DEF SnapshotAgrees

\* The handler that takes a step: it reads a document that is stored at the
\* time, resolves a version of that document's pinnedMajor, or goes on with
\* what it has.
LEMMA StepperAgrees ==
  ASSUME VersionInv, DocumentsKept, NEW r \in Requests, HandlerStep(r)
  PROVE  SnapshotAgrees(r)
<1>1. TypeOK /\ req[r] \in Request /\ req \in [Requests -> Request \cup Answer \cup {Idle}]
  BY HandlerOfOne, InFlightTyped DEF VersionInv, TypeOK, RequestsOK
<1>2. ASSUME NEW code, Reply(r, code)
      PROVE  SnapshotAgrees(r)
  BY <1>1, <1>2 DEF Reply, Answered, SnapshotAgrees
<1>3. ASSUME NEW pc, pc \notin {"read", "resolve", "lock", "upgrade"}, GoTo(r, pc)
      PROVE  SnapshotAgrees(r)
  BY <1>1, <1>3 DEF GoTo, SnapshotAgrees, Request
<1>4. CASE AcquireLock(r) /\ Upgrades(r) /\ GoTo(r, "upgrade")
  <2>1. req'[r] = [req[r] EXCEPT !.pc = "upgrade"]
    BY <1>1, <1>4 DEF GoTo
  <2>2. /\ req'[r].pc = "upgrade"
        /\ req'[r].seen = req[r].seen
        /\ req'[r].version = req[r].version
        /\ req'[r].sbi = req[r].sbi
    BY <1>1, <2>1 DEF Request
  <2>3. req[r].pc = "lock" /\ req[r].seen # NoDocument
    BY <1>4 DEF AcquireLock, Upgrades
  <2>4. Major[req[r].version] = req[r].seen.pinnedMajor
    BY <2>3 DEF VersionInv, SnapshotsAgree
  <2> QED
    BY <2>2, <2>3, <2>4, SnapshotKept DEF SnapshotAgrees
<1>5. CASE ReadExisting(r)
  <2>1. PICK d \in docs \cup replica :
          /\ d.sbi = req[r].sbi
          /\ req' = [req EXCEPT ![r] =
               IF req[r].op = "stateOnly"
               THEN [@ EXCEPT !.pc = "lock", !.seen = d, !.version = d.version]
               ELSE [@ EXCEPT !.pc = "resolve", !.seen = d]]
    BY <1>5 DEF ReadExisting, LatestIn, Views
  <2>2. /\ req'[r].pc \in {"lock", "resolve"}
        /\ req'[r].seen = d
        /\ req'[r].sbi = req[r].sbi
        /\ req'[r].pc = "lock" => req'[r].version = d.version
    BY <1>1, <2>1 DEF Request
  <2>3. docs' = docs
    BY <1>5 DEF ReadExisting
  <2>4. /\ Major[d.version] = d.pinnedMajor
        /\ \A e \in docs : e.id = d.id => e.sbi = d.sbi /\ e.pinnedMajor = d.pinnedMajor
    BY DEF VersionInv, OneDocumentPerVersion, PinnedMajorKept, SnapshotsAgree,
           SameApplication, WithId
  <2> QED
    BY <2>1, <2>2, <2>3, <2>4 DEF SnapshotAgrees
<1>6. CASE ReadNothing(r) /\ GoTo(r, "resolve")
  <2>1. req[r].seen = NoDocument
    BY <1>6 DEF ReadNothing, VersionInv, SnapshotsAgree
  <2>2. req'[r] = [req[r] EXCEPT !.pc = "resolve"]
    BY <1>1, <1>6 DEF GoTo
  <2> QED
    BY <1>1, <2>1, <2>2 DEF SnapshotAgrees, Request
<1>7. CASE ResolveDefinition(r)
  <2>1. PICK v \in Candidates(r) : req' = [req EXCEPT ![r].pc = "lock", ![r].version = v]
    BY <1>7 DEF ResolveDefinition
  <2>2. /\ req'[r].pc = "lock"
        /\ req'[r].seen = req[r].seen
        /\ req'[r].sbi = req[r].sbi
        /\ req'[r].version = v
    BY <1>1, <2>1 DEF Request
  <2>3. req[r].seen = NoDocument \/ Major[v] = req[r].seen.pinnedMajor
    BY DEF Candidates
  <2>4. req[r].pc = "resolve"
    BY <1>7 DEF ResolveDefinition
  <2> QED
    BY <2>2, <2>3, <2>4, SnapshotKept DEF SnapshotAgrees
<1>8. CASE LockStep(r) \/ Fail(r)
  BY <1>2, <1>3, <1>4, <1>8 DEF LockStep, AcquireLock, RefuseLock, Fail
<1>9. CASE StateStep(r)
  BY <1>2, <1>9
  DEF StateStep, InsertState, UpdateState, RetrieveState, DeleteState, StateNotFound
<1>10. CASE SubmitStep(r)
  BY <1>2, <1>3, <1>10
  DEF SubmitStep, RejectMismatch, InsertSubmission, DuplicateSubmission, ReleaseAfterSubmission
<1>11. CASE LatestStep(r)
  <2>1. CASE ReadNothing(r)
    BY <1>2, <1>6, <2>1 DEF ReadNothing
  <2>2. CASE DefinitionNotFound(r) \/ Upgrade(r) \/ UpgradeClash(r) \/ ReleaseOld(r)
    BY <1>2, <1>3, <2>2 DEF DefinitionNotFound, Upgrade, UpgradeClash, ReleaseOld
  <2> QED
    BY <1>5, <1>7, <1>11, <2>1, <2>2 DEF LatestStep
<1> QED
  BY <1>8, <1>9, <1>10, <1>11 DEF HandlerStep

LEMMA NextKeepsVersions == VersionInv /\ [Next]_vars => VersionInv'
<1> SUFFICES ASSUME VersionInv, [Next]_vars PROVE VersionInv'
  OBVIOUS
<1>1. TypeOK'
  BY NextTyped DEF VersionInv
<1>2. OneDocumentPerVersion' /\ PinnedMajorKept' /\ DocumentsKept
  BY NextKeepsDocuments
<1>3. ASSUME NEW r \in Requests PROVE SnapshotAgrees(r)
  <2>1. CASE req' = req
    BY <1>2, <2>1, SnapshotUnchanged
  <2>2. ASSUME NEW q \in Requests, HandlerStep(q) PROVE SnapshotAgrees(r)
    <3>1. CASE q = r
      BY <1>2, <2>2, <3>1, StepperAgrees
    <3>2. CASE q # r
      <4>1. req'[r] = req[r]
        BY <2>2, <3>2, HandlerOfOne DEF VersionInv
      <4> QED
        BY <1>2, <4>1, SnapshotUnchanged
    <3> QED
      BY <3>1, <3>2
  <2>3. ASSUME NEW q \in Requests, NEW o \in Owners, NEW op, NEW a \in Applications,
               ReceiveLocked(q, o, op, a)
        PROVE  SnapshotAgrees(r)
    <3>1. CASE q = r
      BY <2>3, <3>1 DEF ReceiveLocked, SnapshotAgrees, VersionInv, TypeOK, RequestsOK
    <3>2. CASE q # r
      <4>1. req'[r] = req[r]
        BY <2>3, <3>2 DEF ReceiveLocked, VersionInv, TypeOK, RequestsOK
      <4> QED
        BY <1>2, <4>1, SnapshotUnchanged
    <3> QED
      BY <3>1, <3>2
  <2>4. ASSUME NEW q \in Requests, NEW o \in Owners, NEW op, NEW s \in Sbis,
               ReceiveLatest(q, o, op, s)
        PROVE  SnapshotAgrees(r)
    <3>1. CASE q = r
      BY <2>4, <3>1 DEF ReceiveLatest, SnapshotAgrees, VersionInv, TypeOK, RequestsOK
    <3>2. CASE q # r
      <4>1. req'[r] = req[r]
        BY <2>4, <3>2 DEF ReceiveLatest, VersionInv, TypeOK, RequestsOK
      <4> QED
        BY <1>2, <4>1, SnapshotUnchanged
    <3> QED
      BY <3>1, <3>2
  <2>5. CASE Surroundings
    BY <2>1, <2>5
    DEF Surroundings, FindUnsubmitted, MarkPurged, PurgeFails, SignOut, ExpireLock,
        AdminRelease, ClearStates, ClearSubmissions, ClearLocks, Publish, Withdraw, Replicate
  <2> QED
    BY <2>1, <2>2, <2>3, <2>4, <2>5, NextCases DEF VersionInv, vars
<1>4. SnapshotsAgree'
  BY <1>2, <1>3, ReplicaKept
  DEF SnapshotsAgree, SnapshotAgrees, ReplicaAgrees, SameApplication, WithId
<1> QED
  BY <1>1, <1>2, <1>4 DEF VersionInv

LEMMA InitVersions == Init => VersionInv
  BY DEF Init, VersionInv, TypeOK, RequestsOK, OneDocumentPerVersion, PinnedMajorKept,
     SnapshotsAgree, Idle

\* The version invariant holds throughout: what with-definition remembers of a
\* document (read before its lock was taken) is enough to keep the application
\* within its major.
THEOREM VersionInvariant == Spec => []VersionInv
  BY InitVersions, NextKeepsVersions, PTL DEF Spec

\* No save, upgrade, downgrade, purge or definition withdrawn in between, by any
\* number of users, takes an application out of the major it was created with.
THEOREM PinnedMajorIsKept == Spec => []PinnedMajorKept
<1>1. VersionInv => PinnedMajorKept
  BY DEF VersionInv
<1> QED
  BY <1>1, VersionInvariant, PTL

\* Upserts and upgrades that overlap never leave a business with two documents
\* of one version.
THEOREM DocumentsAreUnique == Spec => []OneDocumentPerVersion
<1>1. VersionInv => OneDocumentPerVersion
  BY DEF VersionInv
<1> QED
  BY <1>1, VersionInvariant, PTL

\* Of a document that with-definition has read, be it from a secondary, the
\* business and the pinnedMajor stay true until it is updated: no document takes its
\* _id, though another request may have changed its version.
THEOREM SnapshotsStayTrue == Spec => []SnapshotsAgree
<1>1. VersionInv => SnapshotsAgree
  BY DEF VersionInv
<1> QED
  BY <1>1, VersionInvariant, PTL

---------------------------------------------------------------------------
\* A submission that is answered 201 has released the lock that the pre-handler
\* took: no interleaving has made it somebody else's, which the deletion by
\* owner would pass over (releaseApplicationLock).
THEOREM SubmissionsFree == LocksAreRespected => (Spec => SubmissionFreesApplication)
<1> SUFFICES ASSUME LocksAreRespected PROVE Spec => SubmissionFreesApplication
  OBVIOUS
<1> DEFINE Frees == \A r \in Requests :
      req[r].pc = "release" /\ req'[r] = Answered(201) => locks'[App(r)] = Nobody
<1>1. TypeOK /\ LockIsHeld /\ [Next]_vars => Frees
  <2> SUFFICES ASSUME TypeOK, LockIsHeld, [Next]_vars, NEW r \in Requests,
                      req[r].pc = "release", req'[r] = Answered(201)
               PROVE  locks'[App(r)] = Nobody
    OBVIOUS
  <2>1. req'[r] # req[r]
    BY DEF Answered
  <2>2. ASSUME NEW q \in Requests, HandlerStep(q) PROVE locks'[App(r)] = Nobody
    <3>1. q = r
      BY <2>1, <2>2, HandlerOfOne
    <3>2. CASE ReleaseAfterSubmission(r)
      <4>1. App(r) \in Applications /\ locks[App(r)] = req[r].owner
        BY AppTyped DEF LockIsHeld, PastLock
      <4> QED
        BY <3>2, <4>1 DEF ReleaseAfterSubmission, Release, TypeOK
    <3>3. CASE Fail(r)
      BY <3>3 DEF Fail, Reply, Answered, TypeOK, RequestsOK
    <3> QED
      BY <2>2, <3>1, <3>2, <3>3
      DEF HandlerStep, LockStep, AcquireLock, RefuseLock,
          StateStep, InsertState, UpdateState, RetrieveState, DeleteState, StateNotFound,
          SubmitStep, RejectMismatch, InsertSubmission, DuplicateSubmission, Handles,
          LatestStep, ReadExisting, ReadNothing, ResolveDefinition, DefinitionNotFound,
          Upgrade, UpgradeClash, ReleaseOld
  <2>3. ASSUME NEW q \in Requests, NEW o \in Owners, NEW op, NEW a \in Applications,
               ReceiveLocked(q, o, op, a)
        PROVE  FALSE
    BY <2>1, <2>3 DEF ReceiveLocked, InFlight, TypeOK, RequestsOK
  <2>4. ASSUME NEW q \in Requests, NEW o \in Owners, NEW op, NEW s \in Sbis,
               ReceiveLatest(q, o, op, s)
        PROVE  FALSE
    BY <2>1, <2>4 DEF ReceiveLatest, InFlight, TypeOK, RequestsOK
  <2>5. ~Surroundings
    BY <2>1
    DEF Surroundings, FindUnsubmitted, MarkPurged, PurgeFails, SignOut, ExpireLock,
        AdminRelease, ClearStates, ClearSubmissions, ClearLocks, Publish, Withdraw, Replicate
  <2> QED
    BY <2>1, <2>2, <2>3, <2>4, <2>5, NextCases DEF vars
<1> QED
  BY <1>1, StateTypes, HandlersKeepTheLock, PTL DEF Spec, SubmissionFreesApplication

---------------------------------------------------------------------------
\* What ChangesAreLocked says of one step.
LockedChange ==
  /\ \A d \in docs' \ docs : UnderLock(d) \/ (purge' # purge /\ d.status = "PURGED")
  /\ \A d \in docs : (\A e \in docs' : e.id # d.id) => UnderLock(d)

\* The application a handler is running for is locked, by its own user.
LEMMA RunsLocked ==
  ASSUME LockIsHeld, NEW r \in Requests, PastLock(r), req'[r] # req[r],
         NEW d, d.sbi = req[r].sbi, d.version = req[r].version
  PROVE  UnderLock(d)
<1>1. locks[<<d.sbi, d.version>>] = req[r].owner
  BY DEF LockIsHeld, App
<1> QED
  BY <1>1 DEF UnderLock

LEMMA StateStepLocked ==
  ASSUME MatchingTokens, TypeOK, LockIsHeld, NEW r \in Requests, StateStep(r)
  PROVE  LockedChange
<1>1. Addressed(r) = {App(r)} /\ App(r) = <<req[r].sbi, req[r].version>>
  BY DEF Addressed, App
<1>2. PastLock(r) /\ req'[r] # req[r]
  BY DEF StateStep, InsertState, UpdateState, RetrieveState, DeleteState, StateNotFound,
         Handles, PastLock, Reply, Answered, TypeOK, RequestsOK
<1>3. CASE InsertState(r)
  <2>1. PICK i \in FreshIds, status \in ClientStatuses :
          docs' = docs \cup {[id |-> i, sbi |-> App(r)[1], version |-> App(r)[2],
                              pinnedMajor |-> Major[App(r)[2]], status |-> status]}
    BY <1>1, <1>3 DEF InsertState
  <2>2. \A d \in docs' \ docs : d.sbi = req[r].sbi /\ d.version = req[r].version
    BY <1>1, <2>1
  <2> QED
    BY <1>2, <2>1, <2>2, RunsLocked DEF LockedChange
<1>4. CASE UpdateState(r)
  <2>1. PICK status \in ClientStatuses :
          docs' = (docs \ Stored(App(r))) \cup
                  {[d EXCEPT !.status = status] : d \in Stored(App(r))}
    BY <1>1, <1>4 DEF UpdateState
  <2>2. \A d \in Stored(App(r)) :
          LET e == [d EXCEPT !.status = status]
          IN  e.sbi = req[r].sbi /\ e.version = req[r].version /\ e.id = d.id
    BY <1>1 DEF Stored, StoredIn, TypeOK, Document
  <2>3. \A d \in docs : \E e \in docs' : e.id = d.id
    BY <2>1, <2>2
  <2>4. \A d \in docs' \ docs : d.sbi = req[r].sbi /\ d.version = req[r].version
    BY <2>1, <2>2
  <2> QED
    BY <1>2, <2>3, <2>4, RunsLocked DEF LockedChange
<1>5. CASE DeleteState(r)
  <2>1. docs' = docs \ Stored(App(r))
    BY <1>1, <1>5 DEF DeleteState
  <2>2. \A d \in docs \ docs' : d.sbi = req[r].sbi /\ d.version = req[r].version
    BY <1>1, <2>1 DEF Stored, StoredIn
  <2> QED
    BY <1>2, <2>1, <2>2, RunsLocked DEF LockedChange
<1>6. CASE RetrieveState(r) \/ StateNotFound(r)
  BY <1>6 DEF RetrieveState, StateNotFound, LockedChange
<1> QED
  BY <1>3, <1>4, <1>5, <1>6 DEF StateStep

\* The upgrade re-keys a document of the business it holds the lock for,
\* which is what the snapshot is needed for: it finds the document by _id.
LEMMA UpgradeLocked ==
  ASSUME VersionInv, LockIsHeld, NEW r \in Requests, Upgrade(r)
  PROVE  LockedChange
<1>1. \A d \in docs : d.id = req[r].seen.id => d.sbi = req[r].sbi
  BY DEF VersionInv, Upgrade, SnapshotsAgree, SameApplication, TypeOK, RequestsOK, WithId
<1>2. PastLock(r) /\ req'[r] # req[r]
  <2>1. req[r].pc = "upgrade" /\ req[r] \in Request /\ req' = [req EXCEPT ![r].pc = "releaseOld"]
    BY InFlightTyped DEF Upgrade, GoTo, VersionInv, InFlight
  <2>2. req'[r].pc = "releaseOld"
    BY <2>1 DEF VersionInv, TypeOK, RequestsOK, Request
  <2> QED
    BY <2>1, <2>2 DEF PastLock
<1>3. \A d \in WithId(req[r].seen.id) :
        LET e == [d EXCEPT !.version = req[r].version]
        IN  e.id = d.id /\ e.sbi = req[r].sbi /\ e.version = req[r].version
  BY <1>1 DEF WithId, VersionInv, TypeOK, Document
<1>4. docs' = (docs \ WithId(req[r].seen.id)) \cup
              {[d EXCEPT !.version = req[r].version] : d \in WithId(req[r].seen.id)}
  BY DEF Upgrade, Rekeyed
<1>5. \A d \in docs : \E e \in docs' : e.id = d.id
  BY <1>3, <1>4
<1>6. \A d \in docs' \ docs : d.sbi = req[r].sbi /\ d.version = req[r].version
  BY <1>3, <1>4
<1> QED
  BY <1>2, <1>5, <1>6, RunsLocked DEF LockedChange

\* The purge marks, and deletes nothing.
LEMMA MarkLocked ==
  ASSUME TypeOK, NEW p \in Purgers, MarkPurged(p)
  PROVE  LockedChange
<1>1. docs' = {IF d.id \in purge[p] THEN [d EXCEPT !.status = "PURGED"] ELSE d : d \in docs}
  BY DEF MarkPurged
<1>2. \A d \in docs : LET e == [d EXCEPT !.status = "PURGED"]
                      IN  e.id = d.id /\ e.status = "PURGED"
  BY DEF TypeOK, Document
<1>3. \A d \in docs : \E e \in docs' : e.id = d.id
  BY <1>1, <1>2
<1>4. \A d \in docs' \ docs : d.status = "PURGED"
  BY <1>1, <1>2
<1>5. purge' # purge
  <2>1. purge[p] # {} /\ purge'[p] = {}
    BY DEF MarkPurged, TypeOK
  <2> QED
    BY <2>1
<1> QED
  BY <1>3, <1>4, <1>5 DEF LockedChange

\* Under the assumptions of HandlersKeepTheLock, and with tokens for the
\* application that is addressed, nothing but the purge changes a document
\* except in a request of the user who has the application locked: saves,
\* patches, deletions and upgrades are behind enforceApplicationLock or
\* acquireLockOrThrow, and stay there.
THEOREM ChangesAreMadeUnderLock ==
  LocksAreRespected /\ MatchingTokens => (Spec => ChangesAreLocked)
<1> SUFFICES ASSUME LocksAreRespected, MatchingTokens PROVE Spec => ChangesAreLocked
  OBVIOUS
<1>1. VersionInv /\ LockIsHeld /\ [Next]_vars => LockedChange
  <2> SUFFICES ASSUME VersionInv, LockIsHeld, [Next]_vars PROVE LockedChange
    OBVIOUS
  <2>1. TypeOK
    BY DEF VersionInv
  <2>2. CASE docs' = docs
    BY <2>2 DEF LockedChange
  <2>3. ASSUME NEW r \in Requests, HandlerStep(r) PROVE LockedChange
    BY <2>1, <2>2, <2>3, StateStepLocked, UpgradeLocked
    DEF HandlerStep, LockStep, SubmitStep, LatestStep, AcquireLock, RefuseLock, Fail,
        RejectMismatch, InsertSubmission, DuplicateSubmission, ReleaseAfterSubmission,
        ReadExisting, ReadNothing, ResolveDefinition, DefinitionNotFound, UpgradeClash,
        ReleaseOld
  <2>4. CASE Surroundings
    BY <2>1, <2>2, <2>4, MarkLocked
    DEF Surroundings, FindUnsubmitted, PurgeFails, SignOut, ExpireLock, AdminRelease,
        ClearStates, ClearSubmissions, ClearLocks, Publish, Withdraw, Replicate,
        LocksAreRespected
  <2> QED
    BY <2>2, <2>3, <2>4, NextCases DEF ReceiveLocked, ReceiveLatest, vars
<1> QED
  BY <1>1, VersionInvariant, HandlersKeepTheLock, PTL
  DEF Spec, ChangesAreLocked, LockedChange

---------------------------------------------------------------------------
\* What a purge has found are applications of the majors of its rule, whatever
\* has become of them since.
OfPurgedMajor(d) == \E v \in PurgeRule : Major[v] = d.pinnedMajor

FoundOK == \A p \in Purgers, d \in docs : d.id \in purge[p] => OfPurgedMajor(d)

PurgeInv == VersionInv /\ FoundOK

\* A purge finds documents on the primary or on a secondary: what it sees is of
\* the major that the document with that _id is pinned to, in either place.
LEMMA FindKeepsFound ==
  ASSUME PurgeInv, NEW p \in Purgers, FindUnsubmitted(p)
  PROVE  FoundOK'
<1>1. PICK view \in {docs, replica} :
        purge' = [purge EXCEPT ![p] =
          {d.id : d \in {e \in view : /\ e.status \notin {"SUBMITTED", "PURGED"}
                                    /\ e.version \in PurgeRule}}]
  BY DEF FindUnsubmitted, Views
<1>2. \A d \in view, e \in docs : d.id = e.id => Major[d.version] = e.pinnedMajor
  BY DEF PurgeInv, VersionInv, OneDocumentPerVersion, PinnedMajorKept, SnapshotsAgree,
         SameApplication, WithId
<1>3. purge \in [Purgers -> SUBSET Ids]
  BY DEF PurgeInv, VersionInv, TypeOK
<1>4. \A e \in docs : e.id \in purge'[p] => OfPurgedMajor(e)
  <2> SUFFICES ASSUME NEW e \in docs, e.id \in purge'[p] PROVE OfPurgedMajor(e)
    OBVIOUS
  <2>1. PICK d \in view : d.id = e.id /\ d.version \in PurgeRule
    BY <1>1, <1>3
  <2> QED
    BY <1>2, <2>1 DEF OfPurgedMajor
<1>5. \A q \in Purgers \ {p} : purge'[q] = purge[q]
  BY <1>1, <1>3
<1>6. docs' = docs
  BY DEF FindUnsubmitted
<1> QED
  BY <1>4, <1>5, <1>6 DEF FoundOK, PurgeInv, OfPurgedMajor

\* What was found stays of its major: the documents keep their pinnedMajor, and
\* no new one has an _id that a purge remembers.
LEMMA StepKeepsFound ==
  ASSUME PurgeInv, DocumentsKept, \A q \in Purgers : purge'[q] \subseteq purge[q]
  PROVE  FoundOK'
<1> SUFFICES ASSUME NEW q \in Purgers, NEW e \in docs', e.id \in purge[q]
             PROVE  OfPurgedMajor(e)
  BY DEF FoundOK, OfPurgedMajor
<1>1. e.id \notin FreshIds
  BY DEF FreshIds
<1>2. PICK d \in docs : e.id = d.id /\ e.pinnedMajor = d.pinnedMajor
  BY <1>1 DEF DocumentsKept
<1>3. OfPurgedMajor(d)
  BY <1>2 DEF PurgeInv, FoundOK
<1> QED
  BY <1>2, <1>3 DEF OfPurgedMajor

LEMMA NextKeepsFound == PurgeInv /\ [Next]_vars => PurgeInv'
<1> SUFFICES ASSUME PurgeInv, [Next]_vars PROVE PurgeInv'
  OBVIOUS
<1>1. VersionInv /\ TypeOK /\ VersionInv' /\ DocumentsKept
  BY NextKeepsVersions, NextKeepsDocuments DEF PurgeInv, VersionInv
<1>2. CASE \E p \in Purgers : FindUnsubmitted(p)
  BY <1>1, <1>2, FindKeepsFound DEF PurgeInv
<1>3. CASE \A q \in Purgers : purge'[q] \subseteq purge[q]
  BY <1>1, <1>3, StepKeepsFound DEF PurgeInv
<1>4. CASE purge' = purge
  BY <1>3, <1>4
<1>5. ASSUME NEW p \in Purgers, MarkPurged(p) \/ PurgeFails(p)
      PROVE  PurgeInv'
  <2>1. purge' = [purge EXCEPT ![p] = {}]
    BY <1>5 DEF MarkPurged, PurgeFails
  <2>2. \A q \in Purgers : purge'[q] \subseteq purge[q]
    BY <1>1, <2>1 DEF TypeOK
  <2> QED
    BY <1>3, <2>2
<1>6. ASSUME NEW r \in Requests, HandlerStep(r) PROVE purge' = purge
  BY <1>6
  DEF HandlerStep, LockStep, StateStep, SubmitStep, LatestStep, AcquireLock, RefuseLock, Fail,
      InsertState, UpdateState, RetrieveState, DeleteState, StateNotFound,
      RejectMismatch, InsertSubmission, DuplicateSubmission, ReleaseAfterSubmission,
      ReadExisting, ReadNothing, ResolveDefinition, DefinitionNotFound, Upgrade, UpgradeClash,
      ReleaseOld
<1>7. CASE Surroundings
  BY <1>2, <1>4, <1>5, <1>7
  DEF Surroundings, SignOut, ExpireLock, AdminRelease, ClearStates, ClearSubmissions,
      ClearLocks, Publish, Withdraw, Replicate
<1> QED
  BY <1>4, <1>6, <1>7, NextCases DEF ReceiveLocked, ReceiveLatest, vars

\* The purges of any number of instances, reading from secondaries as they may,
\* mark applications of the majors of the rule only, with-definition or not: an
\* _id that was found never comes to be that of an application pinned to another
\* major (purgeApplications, which updates by _id).
THEOREM PurgesStayInTheirMajors == Spec => PurgesKeepToMajors
<1> DEFINE Marks ==
      purge' # purge =>
        \A d \in docs, e \in docs' :
          d.id = e.id /\ d.status # "PURGED" /\ e.status = "PURGED" => OfPurgedMajor(d)
<1>1. PurgeInv /\ [Next]_vars => Marks
  <2> SUFFICES ASSUME PurgeInv, [Next]_vars, purge' # purge,
                      NEW d \in docs, NEW e \in docs',
                      d.id = e.id, d.status # "PURGED", e.status = "PURGED"
               PROVE  OfPurgedMajor(d)
    OBVIOUS
  <2>1. ASSUME NEW p \in Purgers, MarkPurged(p) PROVE OfPurgedMajor(d)
    <3>1. PICK c \in docs : e = IF c.id \in purge[p] THEN [c EXCEPT !.status = "PURGED"] ELSE c
      BY <2>1 DEF MarkPurged
    <3>2. e.id = c.id
      BY <3>1 DEF PurgeInv, VersionInv, TypeOK, Document
    <3>3. c = d
      BY <3>2 DEF PurgeInv, VersionInv, OneDocumentPerVersion
    <3>4. d.id \in purge[p]
      BY <3>1, <3>3
    <3> QED
      BY <3>4 DEF PurgeInv, FoundOK
  <2>2. ASSUME docs' = docs PROVE FALSE
    BY <2>2 DEF PurgeInv, VersionInv, OneDocumentPerVersion
  <2>3. ASSUME NEW r \in Requests, HandlerStep(r) PROVE purge' = purge
    BY <2>3
    DEF HandlerStep, LockStep, StateStep, SubmitStep, LatestStep, AcquireLock, RefuseLock, Fail,
        InsertState, UpdateState, RetrieveState, DeleteState, StateNotFound,
        RejectMismatch, InsertSubmission, DuplicateSubmission, ReleaseAfterSubmission,
        ReadExisting, ReadNothing, ResolveDefinition, DefinitionNotFound, Upgrade, UpgradeClash,
        ReleaseOld
  <2>4. CASE Surroundings
    BY <2>1, <2>2, <2>4
    DEF Surroundings, FindUnsubmitted, PurgeFails, SignOut, ExpireLock, AdminRelease,
        ClearStates, ClearSubmissions, ClearLocks, Publish, Withdraw, Replicate
  <2> QED
    BY <2>2, <2>3, <2>4, NextCases DEF ReceiveLocked, ReceiveLatest, vars
<1>2. Init => PurgeInv
  <2>1. Init => FoundOK
    BY DEF Init, FoundOK
  <2> QED
    BY <2>1, InitVersions DEF PurgeInv
<1> QED
  BY <1>1, <1>2, NextKeepsFound, PTL DEF Spec, PurgesKeepToMajors, OfPurgedMajor

===========================================================================
