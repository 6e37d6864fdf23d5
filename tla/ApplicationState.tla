------------------------- MODULE ApplicationState -------------------------
(***************************************************************************)
(* The state module of grants-ui-backend for one grant: the request        *)
(* handlers that read and write application state and submissions under    *)
(* the application lock, the with-definition handler that re-keys a        *)
(* document to a newer form definition, the startup purge, and what        *)
(* changes underneath them (sign-out, lease expiry, administration, form   *)
(* definitions coming and going).                                          *)
(*                                                                         *)
(* A handler is a sequence of MongoDB calls, and anything may happen       *)
(* between two of them; each call is one action. What an acquisition       *)
(* itself consists of is the subject of ApplicationLock: here it is one    *)
(* step, as ApplicationLease allows.                                       *)
(***************************************************************************)
EXTENDS Naturals

CONSTANTS
  Sbis,            \* businesses
  Owners,          \* users, the sub claim of the lock token
  Versions,        \* grantVersions, numbered in semver order
  Major,           \* the major part of each version
  Ids,             \* ObjectIds of state documents
  References,      \* reference numbers of submissions
  Requests,        \* slots for requests being handled
  Purgers,         \* instances that run the startup purge
  Nobody,          \* holder of an application that is not locked
  NoDocument,      \* the null a query returns
  Operations,      \* the routes in use, and "admin" and "clear"
  ClientStatuses,  \* values of applicationStatus that clients write
  PurgeRule,       \* the versions that satisfy the purge rule
  SerialClients,   \* does a user wait for one request before making another?
  MatchingTokens,  \* is the lock token minted for the application addressed?
  KnownVersions,   \* are only versions addressed that are published or stored?
  Withdrawals,     \* may an active form definition become inactive?
  ReplicaLag       \* do reads go to secondaries that may lag behind?

LockedRoutes == {"save", "retrieve", "delete", "patch", "submit"}
LatestRoutes == {"withDefinition", "stateOnly"}

ASSUME VersionAssumption ==
  /\ Versions \subseteq Nat \ {0}
  /\ Major \in [Versions -> Nat]
  /\ \A v, w \in Versions : v <= w => Major[v] <= Major[w]
  /\ PurgeRule \subseteq Versions
ASSUME OperationAssumption ==
  /\ Operations \subseteq LockedRoutes \cup LatestRoutes \cup {"admin", "clear"}
  /\ {SerialClients, MatchingTokens, KnownVersions, Withdrawals, ReplicaLag} \subseteq BOOLEAN

VARIABLES
  docs,         \* the application state collection
  replica,      \* the same as a secondary has it, perhaps some time ago
  locks,        \* who holds the lock of each application with a live lease
  submissions,  \* the submissions collection
  active,       \* versions whose form definition is stored and active
  req,          \* the requests being handled, or how they were answered
  purge         \* ids each purger has found and not yet marked

vars == <<docs, replica, locks, submissions, active, req, purge>>

---------------------------------------------------------------------------
Applications == Sbis \X Versions
NoVersion == 0

Document == [id : Ids, sbi : Sbis, version : Versions, pinnedMajor : Nat,
             status : ClientStatuses \cup {"PURGED"}]
ASSUME NullAssumption == Nobody \notin Owners /\ NoDocument \notin Document

Submission == [sbi : Sbis, version : Versions, ref : References]

\* sbi and version name the lock that the request needs or holds; seen is the
\* document that with-definition read first.
Request == [pc : {"read", "resolve", "lock", "run", "release", "upgrade", "releaseOld"},
            op : LockedRoutes \cup LatestRoutes, owner : Owners,
            sbi : Sbis, version : Versions \cup {NoVersion},
            seen : Document \cup {NoDocument}]
Answered(code) == [pc |-> "answered", code |-> code]
Answer == {Answered(code) : code \in {200, 201, 400, 404, 423, 500}}
Idle == [pc |-> "idle"]

RequestsOK ==
  /\ req \in [Requests -> Request \cup Answer \cup {Idle}]
  /\ \A r \in Requests :
       /\ req[r].pc \in {"lock", "run", "release", "upgrade", "releaseOld"}
            => req[r].version \in Versions
       /\ req[r].pc \in {"upgrade", "releaseOld"} => req[r].seen # NoDocument

TypeOK ==
  /\ docs \subseteq Document
  /\ replica \subseteq Document
  /\ locks \in [Applications -> Owners \cup {Nobody}]
  /\ submissions \subseteq Submission
  /\ active \subseteq Versions
  /\ RequestsOK
  /\ purge \in [Purgers -> SUBSET Ids]

Init ==
  /\ docs = {}
  /\ replica = {}
  /\ locks = [a \in Applications |-> Nobody]
  /\ submissions = {}
  /\ active \in SUBSET Versions
  /\ req = [r \in Requests |-> Idle]
  /\ purge = [p \in Purgers |-> {}]

---------------------------------------------------------------------------
InFlight(r) == req[r].pc \notin {"idle", "answered"}
PastLock(r) == req[r].pc \in {"run", "release", "upgrade", "releaseOld"}
App(r) == <<req[r].sbi, req[r].version>>

Reply(r, code) == req' = [req EXCEPT ![r] = Answered(code)]
GoTo(r, pc) == req' = [req EXCEPT ![r].pc = pc]

StoredIn(view, a) == {d \in view : <<d.sbi, d.version>> = a}
Stored(a) == StoredIn(docs, a)
WithId(id) == {d \in docs : d.id = id}

\* What a read may return: with readPreference secondaryPreferred, what the
\* primary has by now or what a secondary still has. Writes see the primary.
\* (A form definition that a secondary does not have yet, or still has, is one that
\* Publish and Withdraw have not reached: their timing is free already.)
Views == IF ReplicaLag THEN {docs, replica} ELSE {docs}

\* An ObjectId that is not in use, nor remembered by anything in progress.
FreshIds == {i \in Ids :
               /\ \A d \in docs \cup replica : d.id # i
               /\ \A r \in Requests :
                    InFlight(r) /\ req[r].seen # NoDocument => req[r].seen.id # i
               /\ \A p \in Purgers : i \notin purge[p]}

Known(a) == KnownVersions => a[2] \in active \/ Stored(a) # {}

\* The lock token and the payload name applications of their own; the payload's
\* decides what is read and written.
Addressed(r) == IF MatchingTokens THEN {App(r)} ELSE {a \in Applications : Known(a)}

Waits(o) == SerialClients => \A q \in Requests : InFlight(q) => req[q].owner # o

\* A request reaches a route with the lock pre-handler ...
ReceiveLocked(r, o, op, a) ==
  /\ ~InFlight(r)
  /\ Waits(o)
  /\ Known(a)
  /\ op \in Operations \cap LockedRoutes
  /\ req' = [req EXCEPT ![r] = [pc |-> "lock", op |-> op, owner |-> o,
                                sbi |-> a[1], version |-> a[2], seen |-> NoDocument]]
  /\ UNCHANGED <<docs, locks, submissions, replica, active, purge>>

\* ... or POST /state/with-definition, which does not know the version yet.
ReceiveLatest(r, o, op, s) ==
  /\ ~InFlight(r)
  /\ Waits(o)
  /\ op \in Operations \cap LatestRoutes
  /\ req' = [req EXCEPT ![r] = [pc |-> "read", op |-> op, owner |-> o,
                                sbi |-> s, version |-> NoVersion, seen |-> NoDocument]]
  /\ UNCHANGED <<docs, locks, submissions, replica, active, purge>>

\* A MongoDB call of the handler fails, or the instance does.
Fail(r) ==
  /\ InFlight(r)
  /\ Reply(r, 500)
  /\ UNCHANGED <<docs, locks, submissions, replica, active, purge>>

---------------------------------------------------------------------------
\* acquireOrRefreshApplicationLock and what follows it: the handler of a locked
\* route, or the rest of with-definition.
Upgrades(r) ==
  /\ req[r].op = "withDefinition"
  /\ req[r].seen # NoDocument
  /\ req[r].seen.version # req[r].version

\* Mutant of AcquireLock: a lock that has not expired is taken over.
SeizeLock(r) ==
  /\ req[r].pc = "lock"
  /\ locks' = [locks EXCEPT ![App(r)] = req[r].owner]
  /\ \/ req[r].op \in LockedRoutes /\ GoTo(r, "run")
     \/ req[r].op \in LatestRoutes /\ Reply(r, 200)
  /\ UNCHANGED <<docs, submissions, replica, active, purge>>

AcquireLock(r) ==
  /\ req[r].pc = "lock"
  /\ locks[App(r)] \in {Nobody, req[r].owner}
  /\ locks' = [locks EXCEPT ![App(r)] = req[r].owner]
  /\ \/ req[r].op \in LockedRoutes /\ GoTo(r, "run")
     \/ req[r].op \in LatestRoutes /\ ~Upgrades(r) /\ Reply(r, 200)
     \/ Upgrades(r) /\ GoTo(r, "upgrade")
  /\ UNCHANGED <<docs, submissions, replica, active, purge>>

\* 423 Locked. A user whose own calls overlap can be refused because of the
\* lock that one of them has just inserted; no other can because of his own
\* (OwnLockIsNoObstacle of ApplicationLock).
RefuseLock(r) ==
  /\ req[r].pc = "lock"
  /\ locks[App(r)] # Nobody
  /\ SerialClients => locks[App(r)] # req[r].owner
  /\ Reply(r, 423)
  /\ UNCHANGED <<docs, locks, submissions, replica, active, purge>>

Handles(r, op) == req[r].pc = "run" /\ req[r].op = op

\* updateOne with upsert: pinnedMajor is set on insert only.
InsertState(r) ==
  /\ Handles(r, "save")
  /\ \E a \in Addressed(r), i \in FreshIds, status \in ClientStatuses :
       /\ Stored(a) = {}
       /\ docs' = docs \cup {[id |-> i, sbi |-> a[1], version |-> a[2],
                              pinnedMajor |-> Major[a[2]], status |-> status]}
  /\ Reply(r, 201)
  /\ UNCHANGED <<locks, submissions, replica, active, purge>>

\* A save replaces the whole state, a patch its applicationStatus.
UpdateState(r) ==
  /\ Handles(r, "save") \/ Handles(r, "patch")
  /\ \E a \in Addressed(r), status \in ClientStatuses :
       /\ Stored(a) # {}
       /\ docs' = (docs \ Stored(a)) \cup {[d EXCEPT !.status = status] : d \in Stored(a)}
  /\ Reply(r, 200)
  /\ UNCHANGED <<locks, submissions, replica, active, purge>>

RetrieveState(r) ==
  /\ Handles(r, "retrieve")
  /\ \E a \in Addressed(r), view \in Views : StoredIn(view, a) # {}
  /\ Reply(r, 200)
  /\ UNCHANGED <<docs, locks, submissions, replica, active, purge>>

DeleteState(r) ==
  /\ Handles(r, "delete")
  /\ \E a \in Addressed(r) : Stored(a) # {} /\ docs' = docs \ Stored(a)
  /\ Reply(r, 200)
  /\ UNCHANGED <<locks, submissions, replica, active, purge>>

StateNotFound(r) ==
  /\ req[r].pc = "run"
  /\ \E a \in Addressed(r) :
       \/ Handles(r, "retrieve") /\ \E view \in Views : StoredIn(view, a) = {}
       \/ (Handles(r, "delete") \/ Handles(r, "patch")) /\ Stored(a) = {}
  /\ Reply(r, 404)
  /\ UNCHANGED <<docs, locks, submissions, replica, active, purge>>

---------------------------------------------------------------------------
\* POST /submissions: the one route that compares the payload with the token.
RejectMismatch(r) ==
  /\ Handles(r, "submit")
  /\ \E a \in Addressed(r) : a # App(r)
  /\ Reply(r, 400)
  /\ UNCHANGED <<docs, locks, submissions, replica, active, purge>>

Submitted(r, ref) == [sbi |-> req[r].sbi, version |-> req[r].version, ref |-> ref]

InsertSubmission(r) ==
  /\ Handles(r, "submit")
  /\ \E ref \in References :
       /\ Submitted(r, ref) \notin submissions
       /\ submissions' = submissions \cup {Submitted(r, ref)}
  /\ GoTo(r, "release")
  /\ UNCHANGED <<docs, locks, replica, active, purge>>

\* The unique index refuses the insert; the lock is kept.
DuplicateSubmission(r) ==
  /\ Handles(r, "submit")
  /\ \E ref \in References : Submitted(r, ref) \in submissions
  /\ Reply(r, 500)
  /\ UNCHANGED <<docs, locks, submissions, replica, active, purge>>

\* Mutant of Release: the deletion does not ask for the owner.
ReleaseAnyone(a, o) == locks' = [locks EXCEPT ![a] = Nobody]

\* deleteOne on the lock collection: only a lock of this owner.
Release(a, o) ==
  locks' = IF locks[a] = o THEN [locks EXCEPT ![a] = Nobody] ELSE locks

\* Mutant of ReleaseAfterSubmission: a release that fails is only logged.
ReleaseIfPossible(r) ==
  /\ req[r].pc = "release"
  /\ Release(App(r), req[r].owner) \/ UNCHANGED locks
  /\ Reply(r, 201)
  /\ UNCHANGED <<docs, submissions, replica, active, purge>>

ReleaseAfterSubmission(r) ==
  /\ req[r].pc = "release"
  /\ Release(App(r), req[r].owner)
  /\ Reply(r, 201)
  /\ UNCHANGED <<docs, submissions, replica, active, purge>>

---------------------------------------------------------------------------
\* getLatestApplicationStateForGrant: the highest version of the business.
LatestIn(view, s) ==
  {d \in view : d.sbi = s /\ \A e \in view : e.sbi = s => e.version <= d.version}

ReadExisting(r) ==
  /\ req[r].pc = "read"
  /\ \E view \in Views : \E d \in LatestIn(view, req[r].sbi) :
       req' = [req EXCEPT ![r] =
         IF req[r].op = "stateOnly"
         THEN [@ EXCEPT !.pc = "lock", !.seen = d, !.version = d.version]
         ELSE [@ EXCEPT !.pc = "resolve", !.seen = d]]
  /\ UNCHANGED <<docs, locks, submissions, replica, active, purge>>

\* Mutants of ReadNothing: a definition is not resolved when there is no state;
\* only a state at the latest version is found.
ReadNothingToLock(r) ==
  /\ req[r].pc = "read"
  /\ \A d \in docs : d.sbi # req[r].sbi
  /\ GoTo(r, "lock")
  /\ UNCHANGED <<docs, locks, submissions, replica, active, purge>>
ReadNothingLatest(r) ==
  /\ req[r].pc = "read"
  /\ \A d \in docs : d.sbi # req[r].sbi \/ \E v \in active : d.version < v
  /\ IF req[r].op = "stateOnly" THEN Reply(r, 200) ELSE GoTo(r, "resolve")
  /\ UNCHANGED <<docs, locks, submissions, replica, active, purge>>

ReadNothing(r) ==
  /\ req[r].pc = "read"
  /\ \E view \in Views : LatestIn(view, req[r].sbi) = {}
  /\ IF req[r].op = "stateOnly" THEN Reply(r, 200) ELSE GoTo(r, "resolve")
  /\ UNCHANGED <<docs, locks, submissions, replica, active, purge>>

\* Mutant of Candidates: the latest version of all, whatever the application's.
AllCandidates(r) == active

\* Any active version will do for a new application; an existing one stays
\* within the major it was created with.
Candidates(r) ==
  {v \in active : req[r].seen = NoDocument \/ Major[v] = req[r].seen.pinnedMajor}

\* Mutant of ResolveDefinition: the versions are sorted the wrong way round.
ResolveOldest(r) ==
  /\ req[r].pc = "resolve"
  /\ \E v \in Candidates(r) :
       /\ \A w \in Candidates(r) : v <= w
       /\ req' = [req EXCEPT ![r].pc = "lock", ![r].version = v]
  /\ UNCHANGED <<docs, locks, submissions, replica, active, purge>>

ResolveDefinition(r) ==
  /\ req[r].pc = "resolve"
  /\ \E v \in Candidates(r) :
       /\ \A w \in Candidates(r) : w <= v
       /\ req' = [req EXCEPT ![r].pc = "lock", ![r].version = v]
  /\ UNCHANGED <<docs, locks, submissions, replica, active, purge>>

DefinitionNotFound(r) ==
  /\ req[r].pc = "resolve"
  /\ Candidates(r) = {}
  /\ Reply(r, 404)
  /\ UNCHANGED <<docs, locks, submissions, replica, active, purge>>

\* Mutant of Rekeyed: grantVersion is left out of the update.
NotRekeyed(r) == WithId(req[r].seen.id)

\* updateApplicationStateVersion finds the document by _id alone, and may find
\* none; pinnedMajor is left as it is.
Rekeyed(r) == {[d EXCEPT !.version = req[r].version] : d \in WithId(req[r].seen.id)}

\* Mutant of Clash: the collection has no unique index.
NeverClashes(r) == FALSE

\* Another document of the business already has the version.
Clash(r) ==
  /\ WithId(req[r].seen.id) # {}
  /\ ~(Stored(App(r)) \subseteq WithId(req[r].seen.id))

Upgrade(r) ==
  /\ req[r].pc = "upgrade"
  /\ ~Clash(r)
  /\ docs' = (docs \ WithId(req[r].seen.id)) \cup Rekeyed(r)
  /\ GoTo(r, "releaseOld")
  /\ UNCHANGED <<locks, submissions, replica, active, purge>>

\* The unique index refuses the update.
UpgradeClash(r) ==
  /\ req[r].pc = "upgrade"
  /\ Clash(r)
  /\ Reply(r, 500)
  /\ UNCHANGED <<docs, locks, submissions, replica, active, purge>>

\* The lock on the previous version is released as far as that works.
ReleaseOld(r) ==
  /\ req[r].pc = "releaseOld"
  /\ \/ Release(<<req[r].sbi, req[r].seen.version>>, req[r].owner)
     \/ UNCHANGED locks
  /\ Reply(r, 200)
  /\ UNCHANGED <<docs, submissions, replica, active, purge>>

---------------------------------------------------------------------------
\* Mutant of FindUnsubmitted: the version rule is left out of the query.
FindAllUnsubmitted(p) ==
  /\ purge[p] = {}
  /\ purge' = [purge EXCEPT ![p] =
       {d.id : d \in {e \in docs : e.status \notin {"SUBMITTED", "PURGED"}}}]
  /\ UNCHANGED <<docs, locks, submissions, replica, active, req>>

\* purgeApplications, run by every instance as it starts: find, then mark.
FindUnsubmitted(p) ==
  /\ purge[p] = {}
  /\ \E view \in Views :
       purge' = [purge EXCEPT ![p] =
         {d.id : d \in {e \in view : /\ e.status \notin {"SUBMITTED", "PURGED"}
                                   /\ e.version \in PurgeRule}}]
  /\ UNCHANGED <<docs, locks, submissions, replica, active, req>>

MarkPurged(p) ==
  /\ purge[p] # {}
  /\ docs' = {IF d.id \in purge[p] THEN [d EXCEPT !.status = "PURGED"] ELSE d : d \in docs}
  /\ purge' = [purge EXCEPT ![p] = {}]
  /\ UNCHANGED <<locks, submissions, replica, active, req>>

\* A failed purge is logged, and startup goes on.
PurgeFails(p) ==
  /\ purge[p] # {}
  /\ purge' = [purge EXCEPT ![p] = {}]
  /\ UNCHANGED <<docs, locks, submissions, replica, active, req>>

---------------------------------------------------------------------------
\* DELETE /application-locks, when a user signs out.
SignOut(o) ==
  /\ Waits(o)
  /\ locks' = [a \in Applications |-> IF locks[a] = o THEN Nobody ELSE locks[a]]
  /\ UNCHANGED <<docs, submissions, replica, active, req, purge>>

\* A lease of hours outlives any request made under it: it runs out between
\* requests of its owner.
ExpireLock(a) ==
  /\ locks[a] # Nobody
  /\ \A r \in Requests : ~(PastLock(r) /\ App(r) = a /\ req[r].owner = locks[a])
  /\ locks' = [locks EXCEPT ![a] = Nobody]
  /\ UNCHANGED <<docs, submissions, replica, active, req, purge>>

\* DELETE /admin/application-lock takes no lock token.
AdminRelease(a, o) ==
  /\ "admin" \in Operations
  /\ Release(a, o)
  /\ UNCHANGED <<docs, submissions, replica, active, req, purge>>

\* DELETE /admin/test-data: three deletions, in no order.
ClearStates(s) ==
  /\ "clear" \in Operations
  /\ docs' = {d \in docs : d.sbi # s}
  /\ UNCHANGED <<locks, submissions, replica, active, req, purge>>

ClearSubmissions(s) ==
  /\ "clear" \in Operations
  /\ submissions' = {u \in submissions : u.sbi # s}
  /\ UNCHANGED <<docs, locks, replica, active, req, purge>>

ClearLocks(s) ==
  /\ "clear" \in Operations
  /\ locks' = [a \in Applications |-> IF a[1] = s THEN Nobody ELSE locks[a]]
  /\ UNCHANGED <<docs, submissions, replica, active, req, purge>>

\* The config module ingests form definitions.
Publish(v) ==
  /\ v \notin active
  /\ active' = active \cup {v}
  /\ UNCHANGED <<docs, locks, submissions, replica, req, purge>>

Withdraw(v) ==
  /\ Withdrawals
  /\ v \in active
  /\ active' = active \ {v}
  /\ UNCHANGED <<docs, locks, submissions, replica, req, purge>>

\* A secondary catches up.
Replicate ==
  /\ ReplicaLag
  /\ replica' = docs
  /\ UNCHANGED <<docs, locks, submissions, active, req, purge>>

---------------------------------------------------------------------------
\* The steps of the handler of a request.
LockStep(r) == AcquireLock(r) \/ RefuseLock(r)
StateStep(r) ==
  InsertState(r) \/ UpdateState(r) \/ RetrieveState(r) \/ DeleteState(r) \/ StateNotFound(r)
SubmitStep(r) ==
  \/ RejectMismatch(r) \/ InsertSubmission(r) \/ DuplicateSubmission(r)
  \/ ReleaseAfterSubmission(r)
LatestStep(r) ==
  \/ ReadExisting(r) \/ ReadNothing(r) \/ ResolveDefinition(r) \/ DefinitionNotFound(r)
  \/ Upgrade(r) \/ UpgradeClash(r) \/ ReleaseOld(r)

Next ==
  \/ \E r \in Requests, o \in Owners, op \in LockedRoutes, a \in Applications :
       ReceiveLocked(r, o, op, a)
  \/ \E r \in Requests, o \in Owners, op \in LatestRoutes, s \in Sbis :
       ReceiveLatest(r, o, op, s)
  \/ \E r \in Requests :
       LockStep(r) \/ StateStep(r) \/ SubmitStep(r) \/ LatestStep(r) \/ Fail(r)
  \/ \E p \in Purgers : FindUnsubmitted(p) \/ MarkPurged(p) \/ PurgeFails(p)
  \/ \E o \in Owners : SignOut(o)
  \/ \E a \in Applications : ExpireLock(a)
  \/ \E a \in Applications, o \in Owners : AdminRelease(a, o)
  \/ \E s \in Sbis : ClearStates(s) \/ ClearSubmissions(s) \/ ClearLocks(s)
  \/ \E v \in Versions : Publish(v) \/ Withdraw(v)
  \/ Replicate

Spec == Init /\ [][Next]_vars

---------------------------------------------------------------------------
\* What the lock is worth depends on its owner not giving it up under a request
\* of his own, and on nobody else deleting it.
LocksAreRespected == SerialClients /\ "admin" \notin Operations /\ "clear" \notin Operations

\* A handler that has passed the lock still has it at every later step, up to
\* its answer: what enforceApplicationLock checked does not go stale.
LockIsHeld ==
  \A r \in Requests : PastLock(r) => locks[App(r)] = req[r].owner

\* Handlers of two owners are never past the lock of the same application at the
\* same time ("only one user ... may view/edit a given application at a time").
ExclusiveAccess ==
  \A r, q \in Requests :
    PastLock(r) /\ PastLock(q) /\ App(r) = App(q) => req[r].owner = req[q].owner

\* State documents change only in a request of the user who has the lock on the
\* version they are stored at afterwards, or were stored at if they are gone; the
\* purge alone takes no lock, and only marks.
UnderLock(d) ==
  \E r \in Requests : req'[r] # req[r] /\ req[r].owner = locks[<<d.sbi, d.version>>]

ChangesAreLocked ==
  [][/\ \A d \in docs' \ docs :
          UnderLock(d) \/ (purge' # purge /\ d.status = "PURGED")
     /\ \A d \in docs : (\A e \in docs' : e.id # d.id) => UnderLock(d)]_vars

\* A submission that was answered 201 Created leaves its application unlocked:
\* the release finds the lock that the pre-handler took.
SubmissionFreesApplication ==
  [][\A r \in Requests :
       req[r].pc = "release" /\ req'[r] = Answered(201) => locks'[App(r)] = Nobody]_vars

\* The handlers use the lock as ApplicationLease allows. A lease that lapses
\* is shown by its end: it is as good as free.
Lease == INSTANCE ApplicationLease WITH Keys <- Applications, holder <- locks, lapsed <- {}
ImplementsLease == Lease!Spec

---------------------------------------------------------------------------
\* An application stays within the major version it was created with, through
\* every upgrade and downgrade (pinnedMajor).
PinnedMajorKept == \A d \in docs : Major[d.version] = d.pinnedMajor

\* A business has at most one document per version, and no two documents share
\* an _id: neither the upsert nor the upgrade can create a second one.
OneDocumentPerVersion ==
  \A d, e \in docs : d.id = e.id \/ <<d.sbi, d.version>> = <<e.sbi, e.version>> => d = e

\* Why PinnedMajorKept is inductive: the document with the _id that
\* with-definition goes on to update still has the business and the pinnedMajor
\* that were read with it, be it from a secondary, and the version resolved is
\* one of that major.
SameApplication(d, s, major) ==
  \A e \in WithId(d.id) : e.sbi = s /\ e.pinnedMajor = major

SnapshotsAgree ==
  /\ \A d \in replica :
       Major[d.version] = d.pinnedMajor /\ SameApplication(d, d.sbi, d.pinnedMajor)
  /\ \A r \in Requests :
       /\ req[r].pc = "read" => req[r].seen = NoDocument
       /\ req[r].pc \in {"resolve", "lock", "upgrade"} /\ req[r].seen # NoDocument =>
            /\ req[r].pc # "resolve" => Major[req[r].version] = req[r].seen.pinnedMajor
            /\ SameApplication(req[r].seen, req[r].sbi, req[r].seen.pinnedMajor)

VersionInv == TypeOK /\ OneDocumentPerVersion /\ PinnedMajorKept /\ SnapshotsAgree

---------------------------------------------------------------------------
\* What the documentation promises of with-definition and of the purge. One
\* user of a business alone gets what it says of with-definition, as long as reads
\* are up to date; a second one is enough to break it, and a purge that runs while
\* users work breaks what it says of the purge.
Upgrading(r) == req[r].pc = "upgrade" /\ req'[r].pc = "releaseOld"

\* A document is re-keyed to a newer version only while no other user has the
\* lock on the version it is stored at (README: a request is blocked "if
\* another user holds an active lock").
UpgradeRespectsLock ==
  [][\A r \in Requests :
       Upgrading(r) =>
         \A d \in WithId(req[r].seen.id) :
           locks[<<d.sbi, d.version>>] \in {Nobody, req[r].owner}]_vars

\* "upgraded: true" means that the upgrade was persisted: the document is in the
\* collection, at the version the reply reports.
UpgradedMeansPersisted ==
  [][\A r \in Requests :
       Upgrading(r) =>
         \E d \in docs' : d.id = req[r].seen.id /\ d.version = req[r].version]_vars

\* A document is only ever re-keyed to a newer version than the one it is
\* stored at ("if it is newer than the stored version").
VersionsOnlyRise ==
  [][\A d \in docs, e \in docs' : d.id = e.id => d.version <= e.version]_vars

\* The state that with-definition returns unchanged is the stored state at the
\* time the lock is taken, if the purge has not marked it since it was read, and no
\* state is returned only if there is none.
ReturnedStateIsStored ==
  [][\A r \in Requests :
       /\ req[r].pc = "lock"
       /\ req[r].op \in LatestRoutes
       /\ req'[r] = Answered(200)
       => IF req[r].seen = NoDocument
          THEN \A d \in docs : d.sbi # req[r].sbi
          ELSE \E status \in {req[r].seen.status, "PURGED"} :
                 [req[r].seen EXCEPT !.status = status] \in docs]_vars

\* The purge marks only applications of the majors its rule names: with-definition
\* may have re-keyed one out of the rule since it was found (the rule itself, "must
\* match the configured semver rule", is then broken), and secondaries, saves,
\* deletions and other purges may have come in between, but no other application.
PurgesKeepToMajors ==
  [][purge' # purge =>
       \A d \in docs, e \in docs' :
         d.id = e.id /\ d.status # "PURGED" /\ e.status = "PURGED" =>
           \E v \in PurgeRule : Major[v] = d.pinnedMajor]_vars

\* The purge never marks an application that has been submitted ("must not
\* already be submitted").
PurgeSparesSubmitted ==
  [][\A d \in docs, e \in docs' :
       d.id = e.id /\ d.status = "SUBMITTED" => e.status # "PURGED"]_vars

===========================================================================
