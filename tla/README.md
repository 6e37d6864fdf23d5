# Verification of grants-ui-backend

TLA+ models of this service, the TLC runs that check them on small instances and
the TLAPS proofs that hold for every value of the constants. The reference is the
code in `src/` and `migrations/`; `PROJECT.json` maps every definition to the lines
it stands for and lists the runs, the mutants, the hazards, the findings and the
theorems.

## 1. The system

grants-ui-backend is a stateless Hapi service in front of MongoDB, run as several
instances behind a load balancer. All state is in two databases (state and config);
what the instances keep themselves is the two-minute allowlist cache and the requests
that are being handled. An instance starts by running the migrations, the purge and
a pull from the config broker, then serves requests and polls an SQS queue.

| Component | State | Operations | Interacts with |
|---|---|---|---|
| Application lock (`state.repository.js`, `lock-enforcement.js`, `locks.routes.js`) | `state__grant_application_locks`: one document per (grantCode, grantVersion, sbi) with ownerId, lockedAt, expiresAt; unique index, TTL index | acquire or refresh (upsert), release by owner, release all of an owner | every state route through the pre-handler; with-definition; sign-out; administration |
| Application state (`state.routes.js`, `state.repository.js`) | `state__grant_application_state`: state, grantVersion, pinnedMajor; unique on (sbi, grantCode, grantVersion) | save (upsert), retrieve, delete, patch | behind the lock; re-keyed by with-definition; marked by the purge |
| State with definition (`state.service.js`) | none of its own | read latest state, resolve the definition, lock, re-key, release the old lock; or state only | state, lock, form definitions |
| Submissions (`submissions.routes.js`) | `state__grant_application_submissions`, unique on application and reference | insert, then release the lock | lock |
| Startup purge | none | find unsubmitted, filter by a semver rule, mark PURGED | state, while other instances serve |
| Test data, lock administration, sign-out | none | delete states, submissions, locks | all of the above |
| Form definitions (`config.repository.js`) | `config__form_definitions` with a status per version | upsert, change status, resolve the latest active version (within a major) | with-definition; ingest |
| Config ingest (`config/ingest`) | SQS queue and broker (external); per instance the batch at hand and what the pull has read | handle a message: upsert definition, replace allowlist, delete message; startup pull | form definitions, allowlist, S3 |
| Allowlist (`allowlist/`) | `config__allowlist_entries`; LRU cache per instance | replace in a transaction; four reads, then cache | ingest, form definitions |
| Migrations and startup | changelog and its lock | `up` with back-off while another instance has the lock | everything, before serving |
| Grant version | none | coerce legacy values to semver | all state routes |
| Tokens, logging, metrics, proxy, health, OpenAPI, S3 client | none | I/O | |

What is hard here, and what makes each part correct:

- **Lock.** The upsert is atomic per document but not as a whole: its filter is
  matched, and when nothing matches a document is inserted, which another insert may
  have preceded (error 11000). The stamps come from the clock of the instance, read
  before the call is sent. Correct: two owners never rely on one lock; nobody takes
  over a lease that is not over; an abandoned lock is reclaimed.
- **Handlers.** Every MongoDB call is a point where other requests, the TTL index,
  sign-out, a purge or a crash may come in between. Correct: what the pre-handler
  checked still holds at every later call; nobody else gets in; a submission that is
  answered 201 has freed the application.
- **With-definition.** It reads before it has the lock, learns the version only then,
  and re-keys a document that other versions' locks protect. Reads may go to
  secondaries (`readPreference: secondaryPreferred`). Correct: an application stays in
  the major it was created with (pinnedMajor); documents stay unique; what is
  reported as upgraded was persisted.
- **Purge.** Find, then update by `_id`, in several instances at once, while documents are
  re-keyed. Correct: only applications of the majors that the rule names are marked, and
  none that has been submitted.
- **Ingest.** Messages come at least once, in any order, to several instances; an
  instance pulls everything from the broker as it starts, while others consume; a
  definition and its allowlist are stored one after the other; the message is deleted
  last. Correct: a message that is gone has been acted upon; what is stored was
  announced, and of an active version if it is a list; the entries are one version's;
  a pull nobody disturbs leaves what the broker says; a poisoned message blocks nobody.
- **Allowlist.** An answer is made of four reads without a common snapshot, some from a
  secondary, and cached. Correct: a ground of access (an active version; an open list or the
  crn in it; an open list or the sbi in it) that has been missing for some time admits
  nobody, and one that has been there for some time is not overlooked.
- **Migrations.** migrate-mongo looks for its lock and then inserts it, the lock expires,
  instances stop between and within migrations, and what they read may come from a
  secondary that lags behind. Correct: nobody serves a database that is not migrated; no document is lost or becomes unreachable by the version its client
  has; the deployment completes.
- **Grant versions.** Three pieces of code coerce what tokens, payloads and old documents
  hold. Correct: they agree, or an application is stored under one version and sought
  under another.

## 2. Modules

| Module | What it is |
|---|---|
| `ApplicationLease` | What an application lock promises: granted when free, one's own or lapsed; otherwise changes hands only by being freed. |
| `ApplicationLock` | The lock collection and `acquireOrRefreshApplicationLock`, step by step, with clocks and delays. |
| `ApplicationLock_proof` | Theorems about `ApplicationLock`. |
| `MCApplicationLock` | Instances for TLC. |
| `ApplicationState` | The routes of the state module, with-definition, the purge, administration, and what changes underneath them. An acquisition is one step, as `ApplicationLease` allows. |
| `ApplicationState_proof` | Theorems about `ApplicationState`: the lock, versions, the majors of the purge's rule. |
| `ApplicationState_alone_proof` | More of them: what has to go wrong before with-definition breaks a promise. |
| `MCApplicationState` | Instances for TLC. |
| `ConfigRegister` | What the config module promises: statuses that were reported, lists of versions that were reported active. |
| `ConfigIngest` | The SQS consumer and the startup pull of any number of instances, call by call. |
| `ConfigIngest_proof` | Theorems about `ConfigIngest`: what is announced is not lost, and one list is stored. |
| `ConfigReconcile_proof` | More of them: what is stored follows the broker. |
| `MCConfigIngest` | The instance for TLC. |
| `Allowlist` | `resolveAllowedGrants`: reads, secondaries, cache, time. |
| `Allowlist_proof` | Theorems about `Allowlist`. |
| `MCAllowlist` | The instance for TLC. |
| `GrantVersion` | The three coercions of versions, as operators. |
| `GrantVersion_proof` | Theorems about them. |
| `Migrations` | `runMigrations` in several instances, and the four state migrations. |
| `Migrations_proof` | Theorems about `Migrations`. |
| `MCMigrations` | The instance for TLC. |

How they compose: `ApplicationLock` and `ApplicationState` meet in `ApplicationLease`,
`ConfigIngest` and `ApplicationState` in `ConfigRegister`, `Migrations` extends
`GrantVersion`. `ConfigRegister` promises no order of statuses, which is why
`ApplicationState` lets definitions come and go in any order (`Publish`, `Withdraw`);
`Allowlist` takes a replacement as one step because `ConfigIngest` has it as a
transaction whose deletions conflict.

Both `ApplicationLock` and `ApplicationState` are shown to implement
`ApplicationLease`, the first with the holder and the lapsed leases computed from
the documents, the second with its `locks` as the holder. This is how they compose:
the detail of the upsert is checked once, and the handlers use its promise.

### ApplicationLock

`locks[k]` is the document of application `k` (`NoLock` if there is none), `calls`
the calls of `acquireOrRefreshApplicationLock` that run or have returned, `now` the
slowest clock. `Begin` is line 79 of `state.repository.js` (`new Date()`), with a
clock up to `MaxSkew` ahead; `UpdateMatched` and `MatchNothing` are the filter of
`findOneAndUpdate`; `InsertLock` and `DuplicateKey` the insert of the upsert and its
error 11000; `Forget` an error that is rethrown, a stopped instance, or the end of
the request. `Delete` is `deleteOne` and `deleteMany` by owner, `ReapLock` the TTL
index by a server clock that may also be ahead. MongoDB's automatic retry of an
upsert after 11000 does not apply here, because the filter has an `$or`. The history `alone`
of a call says that no other call of its owner has overlapped it: only such a call may be
sure that what refuses its insert is another user's lock (`OwnLockIsNoObstacle`), which
is what `RefuseLock` of `ApplicationState` assumes of serial clients.

A call counts as *relying* on its lock until `2 * MaxSkew + MaxDelay` before the end
of its own lease. The margin is needed: a refresh that was stamped earlier may arrive
later and bring `expiresAt` forward by `MaxDelay` and a skew, and the clock that judges the
lease may be ahead by another.

### ApplicationState

One grant. `docs`, `submissions` and `locks` are the collections; a lock is its live
holder, or `Nobody`. `replica` is the state collection as a secondary has it, from
some time ago; `Views` is what a read may see. `active` is the set of versions with
an active form definition. `req[r]` is a request: its `pc`, the application its token
names, and the document with-definition read (`seen`). `purge[p]` is what a purging
instance has found.

| Code | Actions |
|---|---|
| `enforceApplicationLock`, `acquireLockOrThrow` | `ReceiveLocked`, `AcquireLock`, `RefuseLock` |
| `stateSave` / `saveApplicationState` | `InsertState`, `UpdateState` |
| `stateRetrieve`, `stateDelete`, `statePatch` | `RetrieveState`, `DeleteState`, `UpdateState`, `StateNotFound` |
| `addSubmission` | `RejectMismatch`, `InsertSubmission`, `DuplicateSubmission`, `ReleaseAfterSubmission` |
| `getStateWithFormDefinition` | `ReceiveLatest`, `ReadExisting`, `ReadNothing`, `ResolveDefinition`, `DefinitionNotFound`, `AcquireLock`, `Upgrade`, `UpgradeClash`, `ReleaseOld` |
| `purgeApplications`, `runStartupPurge` | `FindUnsubmitted`, `MarkPurged`, `PurgeFails` |
| `applicationLocksRelease`, `applicationLockRelease`, `clearTestData` | `SignOut`, `AdminRelease`, `ClearStates`, `ClearSubmissions`, `ClearLocks` |
| a rejected MongoDB call, a stopped instance | `Fail`, at any point of any handler |
| the TTL index; replication; the config module | `ExpireLock`; `Replicate`; `Publish`, `Withdraw` |

Versions are numbers in semver order, `Major` their major part. A document has the
status that the purge looks at; the rest of the state is left out, so a save and a
patch differ only in what they do when there is no document. The application that
the payload names may differ from the token's (`MatchingTokens`): only
`POST /submissions` compares them.

Constants that say how the environment behaves:

- `SerialClients`: a user waits for one answer before asking again (or signing out).
- `KnownVersions`: clients address versions that are published or stored.
- `Withdrawals`: an active definition may become inactive.
- `ReplicaLag`: reads may see a secondary that is behind.
- `Operations`: the routes in use, so that a run can leave administration out.

`ExpireLock` does not take a lock from under a running request of its owner: the
default lease is four hours. How close a lease may be cut is the subject of
`ApplicationLock`.

Legacy documents without `pinnedMajor` (`existing.pinnedMajor ?? existing.major`)
are not modelled here: `Migrations` shows that an instance serves only when every
state document has one (`ServesMigrated`).

### ConfigIngest

One grant. `broker` is the broker's last news of each version, `queue` the notifications
that have not been deleted, `definitions` the status stored of each version (`Absent` if
none), `past` all that these have been, `lists` the allowlists in the entries collection, each with the instance that
stored it (a document has an `_id`, so two insertions are two things). An instance is
`down`, in one of the steps of its pull, or polling and handling its `batch`.

| Code | Actions |
|---|---|
| the broker, SNS | `BrokerChange`, `MalformedNews` |
| `runStartupPull`: `fetchAllGrants`, `getDefinitionStatuses` | the actions of these names |
| `pullVersion`: skip, update the status, or fetch and ingest | `SkipVersion`, `ChangeStatus`, `fetchVersion`, `IngestFetched` |
| `pullVersionSafely` | `VersionFails` |
| the allowlist of each grant, at the end of `runStartupPull` | `NothingActive`, `fetchLatestActiveVersion`, `NoLatestActive`, `PullFails` |
| `sqsConsumerPlugin` (`loop`, `pollOnce`) | `ReceiveMessages` |
| `handleMessage`, `ingestVersion` | `IngestMessage` |
| `ingestAllowlist`, `replaceAllowlistEntries` | `BeginReplace` (the deletion), `CommitReplace` (insertion and commit) |
| deleting a message | `DeleteMessage` |
| an error anywhere in a message | `MessageFails`: the message stays, the batch goes on |
| a stopped instance | `Stop`, at any point, for those in `Restarting` |

`upsertDefinition` stores `coerceStatus` of the status, `updateDefinitionStatus` the
status itself: the model keeps the difference. The two steps of a replacement are
those MongoDB distinguishes: a transaction sees a snapshot and deletes from it; if
another open transaction has deleted one of the same documents it is refused and
`withTransaction` starts again, which is why `BeginReplace` waits. Two transactions
that find nothing to delete do not conflict.

History variables, read by properties only: `basis` (the news a status was taken from),
`regressed` (older news replaced newer), `listed`, `raced` (two replacements began on
an empty collection) and `undisturbed` (pulls during which nothing changed and nothing
failed, and whose read of the statuses was not stale).

`getDefinitionStatuses` reads through a client that asks for `secondaryPreferred`, so it may
return any state that the definitions have been in. The lists are read within the
transaction that replaces them, which MongoDB runs on the primary.

### Allowlist

`store` is the state of the database that matters for one grant (is a version active, which
block does `allowlist.yaml` have), `replica` the same as a secondary has it, `behind` how
far behind it is. `calls[c]` is a call of `resolveAllowedGrants` with what its reads have
found; `cache` the answers an instance keeps. Times are ages, counted as far as they matter.

| Code | Actions and operators |
|---|---|
| `buildAllowlistEntries` | the operator |
| `findGrantCodesByEntry` (crn, sbi), `findGrantCodesWithAllowlist`, `getAllActiveGrants` | `Finds`; each is a `Read` of its own |
| `resolveAllowedGrants` | `AnswerFromCache`, `StartReading`, `Read` (the `Promise.all`), `Respond` with the filter `Allowed`, `Fail` |
| `LRUCache` with `max` and `ttl` | `Evict`, `Tick` |
| what ingest does | `Replace`, `Activate`; `Replicate` for the secondary |

`Promised` and `Entitled` are the rules of `allowlist.yaml` as documented, written
without entries and reads; the properties compare the two. They judge each ground of access
by itself, because the four reads do: section 3 says what a mixture of grounds can do.

### Migrations

`held` says which documents are in which collection, `version` the grantVersion of each
(a raw value of `GrantVersion`), `indexed` which collections have their unique indexes;
`changelog` and `lockRows` are migrate-mongo's. An instance is where `pc` says; `pending` are
the migrations it has yet to apply, by their place in the order, and `at` is the place of the
collection its migration is at.

| Code | Actions |
|---|---|
| `startServer`, `withLockRetry` | `Start`, `RetryLater`, `GiveUp`, `Fail` |
| `up` of migrate-mongo (external) | `FindNoLock`, `ActivateLock`, `ReadStatus`, `RecordMigration`, `ClearLock`; `ExpireLock` for its TTL |
| `use-semver` | `NormaliseDocument`, `CollectionNormalised` |
| `create-indexes` | `CreateIndexes` |
| `rename-collections`, `renameIfNeeded` | `ListCollections`, `RenameCollection` |
| `report-pence-values` | `ReportPence` |

The lock is looked for and inserted in two steps, it expires at any time, and clearing it
removes all rows. So several instances may migrate at once, and the properties must
hold nevertheless: they rest on the migrations themselves and on the unique index over
the changelog.

`secondary` is what a secondary has of the lock, the changelog and the collection names, from
some time ago, and `LaggingReads` says which of the three may be read from it: all are, as
migrate-mongo is given the same database handle (`server.stateDb`). A `find` of `use-semver`
may lag as well, which only has it rewrite documents to the values they have. `missed` is
the history of the collections whose rename was due and was skipped, because
`listCollections` did not show them yet.

### GrantVersion

A raw version is a number, a string of digits, a semver string or something else.
`normaliseGrantVersion` (repository), `normalizeGrantVersion` (schema) and `parseSemver`
(migration) are compared by the theorems of `GrantVersion_proof`, and `Migrations` uses
the first and the third. The schema accepts less than the repository, and `POST /submissions`
compares by the schema's: a lock token of version `2` or `"2"` locks 2.0.0, but a submission
of 2.0.0 with it is answered 400. Leading zeros are accepted, and make
several spellings of one version.

## 3. Runs

| Run | Instance | What it shows |
|---|---|---|
| `lock` | 2 owners, 1 application, 2 calls at a time, lease 4, skew 1, delay 1, time up to 6 | Types, mutual exclusion of owners that rely on the lock, what backs such reliance, no takeover before expiry, nobody is refused because of his own lock, the implementation of the lease; an abandoned lock is reclaimed. |
| `state_exclusive` | 2 users, 2 versions, 2 documents, 2 requests, all user routes, one purge | A handler keeps its lock; exclusive access; an application changes only under the lock of the user whose request changes it; a submission frees the application. |
| `state_versions` | 1 user with overlapping requests, 3 versions of 2 majors, 2 documents, save, with-definition, administration and clear-down, withdrawals, lagging secondary | pinnedMajor is kept, documents are unique, remembered documents agree with stored ones in business and pinned major. |
| `state_alone` | 1 user, serial, payloads that name other versions than the token, 3 versions of 2 majors, 3 documents, any status a client may write (PURGED too), one purge, reads of the last write | A user alone gets all that with-definition promises, and a purge stays within the majors of its rule while documents are re-keyed under it. |
| `state_foreign_upgrade`, `state_vanished`, `state_downgrade`, `state_purge_race`, `migrations_lag` | 1 or 2 users, 1 or 2 versions; the instance of `migrations` | The disagreements below. |
| `ingest` | 2 instances, one of which stops and starts, 2 versions with an allowlist, one of them without a definition, 2 announcements (or one and a poisoned message), 1 message per poll, stale reads of the statuses | Nothing announced is lost; the implementation of `ConfigRegister`; one list is stored; a version whose messages are consumed, and what a pull leaves that is undisturbed and not misled, agree with the broker; every message is consumed. |
| `allowlist` | 1 user, 1 instance, 1 call at a time, 4 lists (all, the user, either of his numbers only), ttl, read time and lag of 1 | What each ground of access contributes to an answer is at most the window old. |
| `migrations` | 2 instances, 2 state documents of one application and a lock, 2 legacy databases (one with two spellings of one version), 1 retry, a lagging list of collections | Nobody serves documents that are not migrated; documents stay reachable; the changelog is in order; the deployment completes. |

The bounds are enough for what the properties tell apart.

- *Lock.* One application and two owners show every conflict, since applications do
  not interact. Two calls at a time are enough for a refresh to be overtaken by another of
  the same owner while a third competes, because a call that has returned may be forgotten
  and its place taken. A lease of 4 with a margin of 3 leaves reliance possible.
- *Handlers.* Two requests are every pair of handlers at every pair of their steps; three
  documents include one that is deleted and replaced while a handler remembers it (two
  are enough for that with one of them gone). `state_versions` has no submissions, so
  `ClearSubmissions` deletes nothing there. Versions 1, 2 and 4 are two of one major
  and one of the next. Businesses are independent, so one is enough.
- *Ingest.* Two announcements of one version are the shortest history in which old news
  may follow new; of two versions, the shortest in which one allowlist replaces another.
  One instance that stops and one that does not are enough for a pull to race a
  consumer and for two replacements to race. The safety properties were also checked once
  with both instances restarting (804,000 states).
- *Allowlist.* Users share nothing but the lists, and answers nothing but the database;
  the four lists give each read every result for one user. The theorems cover the rest.
- *Migrations.* Two instances are every pair of steps; a third adds no pair. Two
  documents of one application can collide, and the lock document goes through the
  collection without `pinnedMajor`. Only the list of collections lags in the run; the lock and the
  changelog may as well for the theorems.

Owners, requests, documents, purgers and references of `ApplicationState` are
interchangeable, and its runs use that symmetry; runs with liveness properties use none.

Deadlock is checked in all runs.

**Fairness.** Nothing is assumed of users or of the broker.

- `lock`: MongoDB answers a call it accepted (`Answer`), the TTL monitor runs for ever
  (`ReapLock`), time passes (`Tick`). A lease that ends after the bound on the clock is not
  judged.
- `ingest`: an instance goes on with what it is doing (`Pull`, `Handle`, `Replace`: weak, no
  one else can take the step from it for ever); a message that cannot be parsed fails
  when it is handled; each message in the queue is received again and again (strong: it is
  invisible between receptions, which is what SQS's visibility timeout ends). Failures
  and restarts other than those of poisoned messages end some day (`<>[][~Unlucky]_vars`):
  without that a message may fail for ever.
- `migrations`: an instance goes on (weak), is started again after it failed (the
  orchestrator does that), and the TTL monitor runs; failures that the database does not
  cause end some day. Refusals of the database (`Refused`) never have to.

### What the documentation says and the code does not do

1. `state_foreign_upgrade`: with-definition takes the lock of the *resolved* version
   only, then re-keys the document by `_id` (`state.service.js:241`), so it can re-key
   a document that another user has locked at its stored version (README: only one user
   may view or edit an application at a time).
2. `state_vanished`: `upgraded: true` is returned whatever the update found
   (`state.service.js:273`); openapi.yaml says it means that the upgrade was persisted.
3. `state_downgrade`: any difference in version counts as an upgrade
   (`state.service.js:236`); openapi.yaml says "if it is newer". A definition that
   becomes inactive re-keys the documents of its users to an older version.
4. `state_purge_race`: the purge updates by `_id` what it found before
   (`state.repository.js:574`), and may mark an application that was submitted in
   between by an instance that is still serving.
5. `migrations_lag`: `renameIfNeeded` lists the collections through `server.stateDb`
   (`20260609132200-rename-collections.js:19`), whose client asks for `secondaryPreferred`; its
   comment says "if (and only if) the source collection exists". A collection without documents, which
   `create-indexes` has just made, may not be listed yet: its rename is skipped and
   recorded, and the indexes stay under the old name while the service uses the new one.

Section 4 has the other side of 2, 3 and 5: premises under which the promise is kept, and
what of it is kept always.

More is within reach of the modules and has no run of its own:

- A state that with-definition returns unchanged may not be the stored one: it is read before
  the lock is taken, and perhaps from a secondary that has not seen the user's own last
  save. Two upgrades that resolved different versions may be written in the other order.
- A user "must appear in both" lists (`allowlist.service.js:20`, README.md:495). When the list
  {crn1, sbi2} is replaced by {crn2, sbi1}, a call that reads the crn before and the sbi after
  admits the user (crn1, sbi1), who is in neither list, and caches that. When an open list is
  replaced by one that names a user, a call that looks for his numbers before and for
  `allowAll` after refuses him, who had access all the time. `RevokedAreRefused` and
  `AdmittedAreAllowed` judge each ground by itself and say nothing of either; the next call
  after the ttl is right again.
- The purge marks records that "must match the configured semver rule" (README.md:533). A
  with-definition between its `find` and its update may take a document out of the rule, and
  it is marked nevertheless; `PurgesKeepToMajors` is what is left of the rule.
- A pull that reads stale statuses from a secondary skips a version whose stored status
  differs from the broker's (`SkipVersion`), and nothing but the next message or restart
  corrects it. `PullReconciles` is about pulls that were not misled.
- `start-server.js` counts on the live consumer to reconcile the database. Without its
  exception for `regressed` versions, `ConsumedMeansReconciled` does not hold: nothing
  orders messages, and a redelivered older one sets a status back for good, until
  a restart pulls (`PullReconciles`).
- `replaceAllowlistEntries` "atomically replaces all" entries. Without its exception for
  `raced`, `OneListUnlessRaced` does not hold: two replacements that both begin on an
  empty collection (the first list of a grant, consumed and pulled at the same time)
  leave the union of two lists, until the next replacement.
- README.md says that exactly one instance applies pending migrations and that each runs
  exactly once. The lock expires, an instance that stops half-way leaves its migration
  to be run from the start, and two instances that find no lock at the same moment
  both go on. `Migrations` shows that what matters holds all the same.
- Two legacy spellings of one version in one application (the second database of the
  `migrations` run) make `create-indexes` or the semver migration fail, and every boot with
  it; hence the premise `Distinct` of `DeploymentCompletes`.

## 4. Proofs

All theorems hold for any number of users, businesses, versions, documents, instances,
messages and overlapping requests, from the named assumptions on constants
(`NobodyIsNoOwner`, `ClockAssumption`; `VersionAssumption`, `NullAssumption`,
`OperationAssumption`; `IngestAssumption`; `TimeAssumption`; `NullIsNoVersion`,
`MigrationAssumption`) and from the premises that a theorem states.

**The lock.** `MutualExclusion` is not inductive: it does not say why a lock that is
relied on is still there. `RelianceIsBacked` does: the document behind it is still
the caller's, and its end is at most `MaxSkew + MaxDelay` before the end the caller
computed. That survives a refresh that was overtaken because a
running call is at most `MaxDelay` old and its stamp at most `MaxSkew` ahead (`StampsAreRecent`:
what `Begin` and `Tick` assume of clocks and delays, in a form the proof can use), and a
takeover or a reaping needs an end that a clock ahead by `MaxSkew` has passed, which
reliance excludes. `IInv` is the conjunction with the types. `LockInvariant` proves it
inductive, one step per action; `LockExclusion`, `LockTakeover` and `LockTypes` follow, and
`LockImplementsLease` maps each step to a step of the lease or a stutter. `LockReliance`
states the strengthening on its own. `OwnLockNeverRefused` has an
invariant of its own (`OwnLock`): of overlapping calls none is alone, and while a call that is
alone is between filter and insert, the document in its place is not its owner's, because
only a call that overlaps it could have written that.

**The handlers.** `StateTypes` is the type invariant. `HandlersKeepTheLock` shows, under
`LocksAreRespected` (serial clients, no administration), that a handler past the lock
holds it until it answers. The strengthening is `OneRequestPerOwner`: without it a
user's own submission or sign-out would release the lock of his other request.
`AccessIsExclusive` follows, and `SubmissionsFree`: the release after a submission finds the
lock that the pre-handler took. `ChangesAreMadeUnderLock` is about the lock of the
user whose request makes the change (`UnderLock`), which a purge alone does without. It needs
`MatchingTokens` as well, and for upgrades the invariant of the next paragraph: they address the document by `_id`, so
that it is of the business whose lock is held has to be known. `StateImplementsLease` needs none of this.

**Versions.** `PinnedMajorKept` is not inductive either, because the upgrade writes a
version chosen earlier, for a document read earlier, perhaps from a secondary.
`SnapshotsAgree` says what remains true of such a memory: the stored document with
that `_id`, if there still is one, has the same business and pinnedMajor (its
version and status may have changed), and the version resolved is of that major. It rests on two facts about every step
(`DocumentsKept`): a stored document keeps its business and pinnedMajor, and an `_id` that is
remembered never becomes a new document's. `VersionInvariant` proves the whole,
`PinnedMajorIsKept`, `DocumentsAreUnique` and `SnapshotsStayTrue` are its parts.

**The purge.** It marks by `_id` what it found by version, so an upgrade in between takes a
document out of the rule and it is marked all the same. What remains is its major:
`PurgesStayInTheirMajors` has no premise at all. `PurgeInv` says that what a purge has found is
of a major of its rule (`FoundOK`), wherever it was found, because a secondary shows each
document in the major that the stored one is pinned to. `NextKeepsFound` shows that it stays so:
re-keying keeps pinnedMajor, and an `_id` that is remembered never becomes a new document's.

**What with-definition promises.** `state_vanished` and `state_downgrade` show promises
broken. The theorems of `ApplicationState_alone_proof` say what has to go wrong for that, each
with a premise about the behaviour and not about the code:

- `UpgradesArePersisted`: an upgrade that is reported was persisted, unless a document is
  deleted (`DeletesNothing`). Overlapping requests, purges, withdrawn definitions and reads
  of secondaries do no harm, because every `_id` that a request or a secondary knows is that
  of a stored document (`KnownIds`), and the update goes by `_id`.
- `VersionsRise`: a document is only ever re-keyed to a newer version, as long as no two
  requests in progress are for the same business (`Alone`) and every document is at a version that
  is published (`StoredArePublished`). Then the resolved version, the newest of its
  major, is no older than the stored one (`ResolvedIsNewest`), even if a secondary
  showed an older one. Definitions that nothing is stored at may be withdrawn.
- `ReadsStayTrueAlone`: what with-definition has read stays true until it answers, but for the
  mark of a purge, where requests are `Alone`, test data is not cleared, and the documents of the
  business have reached the secondaries when it reads (`CaughtUp`).
  `ReturnedStatesAreStored` follows.

`Alone` and `CaughtUp` are what a user gets who works alone and not faster than replication.
Requests for other businesses may overlap as they like, and so may sign-outs, expiries,
administration of locks, purges and definitions that come in.

`ReadsStayTrue` is kept by a step of the handler because `LatestIn` has an element whenever the
business has a document at all (`LatestExists`). That is no triviality where versions
are any set of numbers: they must be bounded, which is an invariant (`Bounded`) because a step
brings in at most one version (`OneNewVersion`), and a bounded set of numbers has a greatest
(`Greatest`, from the library's well-foundedness of `<`). A step of another handler keeps it
because it changes documents of its own business only (`OwnBusiness`; for an upgrade, by
`SnapshotsAgree`).

**Ingest.** `NotificationsAreNotLost` speaks of messages that are gone; what makes it true
is what an instance has done of a message before it deletes it. `InstanceOK` says so step
by step: at "delete" the first message of the batch is done, at "allowlist" and "replace" its
definition is stored, and what a pull has in hand was announced. It is preserved because
statuses, announcements and replaced lists only grow (`Grows`), so no other instance can
undo it. `OneListUnlessRaced` needs `Transactions`: until two replacements have raced,
one transaction is open at most, and nobody has changed the lists under it. `Invariant`
proves the conjunction inductive; `NothingAnnouncedIsLost`, `OneListIsStored` and
`TypeCorrect` follow, and `IngestImplementsRegister` maps every step to one of
`ConfigRegister`.

**Reconciliation.** That a version whose notifications are consumed has the broker's status
needs to know which news a stored status was taken from. `NewsInv` says so in three parts:
news is numbered in the order of announcement and the broker has the newest of each version
(`NumbersOK`), a stored status is that of the news numbered `basis` (`BasisOK`), and
news that is no longer in the queue, or that an instance has come past storing, is recorded: the
store has taken it or newer news (`RecordsOK`), until older news has replaced newer. So when
nothing of a version is in the queue, its basis is the broker's last news.
`ConsumedVersionsAreReconciled` says this of one version at a time and of every state: other
versions may have messages and the instances may be anywhere. For `UndisturbedPullReconciles`
the invariant `PullInv` follows a pull that nobody disturbs, and that read the statuses that
are stored, through its steps: its `summary` is
the broker's, of each version it has yet to consider its `existing` is what is stored, and
each it has considered is settled, or is being fetched. A step of another instance that writes anything
ends the premise (`OthersUnseen`), and at the last step the list in hand is that of the latest
active version.

**Allowlist.** The answer of a call is put together from facts that need never have been
true together, so nothing can be said of it as a whole, and section 3 shows what a mixture may do. The
properties and the invariant therefore speak of one fact at a time: what the secondary has (`ReplicaIsRecent`), what a call has read
(`CallsAreRecent`) and the facts an answer rests on (`AnswersAreRecent`) are as stored or have
changed recently, the longer ago the older the call or answer. `RevocationTakesEffect` and
`AdmissionTakesEffect` use that the rule is monotone (`EntitledIsMonotone`) and that reads find
what `allowlist.yaml` promises (`ReadsFindWhatIsPromised`).

**Migrations.** The lock keeps nobody out, so the argument cannot rest on it. It rests on
each migration being one that may be repeated at any time, on whatever a secondary has told its instance: what it establishes of a
collection (`DoneFor`) is undone by no step of any instance, at whatever migration it is
(`DoneStays`; the lemmas `NormaliseKeepsDatabase`, `IndexKeepsDatabase` and
`RenameKeepsDatabase`). The invariant `IInv` adds what holds of a collection and its two names
at any time (`CollectionOK`: each document under one of them, a new name only for what is
migrated and indexed), that a recorded migration is done in all collections (`LogOK`), and
that an instance applies a migration when those before it are recorded, though others may
have come further (`InstanceOK`), and that a secondary shows a changelog that was, and
every collection with documents, which was there from the start, as one to be renamed until it
is renamed (`SecondaryOK`). `NextKeepsInvariant` goes through the actions. From it follow
`ChangelogStaysInOrder`, `LegacyApplicationsStayFound` (with `MigrationAgreesWithRuntime`) and
`OnlyMigratedIsServed`, from `MigrationAssumption` alone and for lagging reads of any kind. The last
excepts collections without documents whose rename a secondary hid (`missed`), which
`migrations_lag` shows to be needed.

**Versions of grants.** `NormalisedIsSemver`, `PinnedMajorIsMajor`, `MigrationAgreesWithRuntime` and
`SchemaAgreesWithRuntime` hold for every raw value: there is no machine, and no induction.

Only model-checked: the liveness properties (`AbandonedLockIsReclaimed`,
`NotificationsAreConsumed`, `DeploymentCompletes`; liveness under fairness is out of the
prover's reach). Every invariant and action property of a passing run is a theorem. Of the
properties of the violation runs `UpgradedMeansPersisted` and `VersionsOnlyRise` are theorems under
the premises named above. The others have none: a lock outlives the request that took it, so
the user who holds the stored version need not be active for another to re-key it
(`UpgradeRespectsLock`); a purge marks what it found, whatever has become of it
(`PurgeSparesSubmitted`); and nothing makes a secondary catch up (`RenamedBeforeServing`).

## 5. Mutants

Each property of a passing run is paired with a mutant of a definition it depends
on (`PROJECT.json`, "mutants"), the way a plausible mistake in the code would change it: a
filter without its `$or`, a deletion without the owner, an upgrade that does
not re-key, a missing unique index, a sort the wrong way round. They stand before
the definitions they replace, and nothing else uses them.

## 6. Plan

Done: all modules of section 2, their runs and proofs. Left, in this order:

1. A fourth kind of legacy document, without `grantVersion`, if one is ever found.
2. The TTL index over application locks that the indexes migration creates, in `Migrations`.

## 7. Not modelled

- Authentication and token cryptography (a request in the models has passed them),
  logging, metrics, proxy and secure-context set-up, the health route, OpenAPI, the S3
  client: I/O and wiring without state of their own.
- The content of `state`, of submissions, of form definitions and of S3 objects, payload
  validation and size limits: nothing above depends on them. A fetch that fails
  is a call that fails. Reads of submissions change nothing.
- The Authorization header towards the broker, and the manifest's file names: a version
  has a definition, an allowlist, both or none, once and for all.
- How far a secondary lags: it shows some earlier state of the collection that is read, except in
  `Allowlist`, where the lag is bounded. The lock's own reads and writes go to the primary and
  are modelled as such.
- The migrations of the config database: the same machine over files that create
  indexes. The TTL index over application locks that the indexes migration creates,
  which may remove expired legacy locks.
- Liveness of the allowlist and of the handlers: a call is answered if MongoDB answers.
