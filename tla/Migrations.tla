----------------------------- MODULE Migrations -----------------------------
(***************************************************************************)
(* What happens to the state database before an instance serves            *)
(* (startServer, runMigrations): migrate-mongo applies the pending         *)
(* migrations one by one and records each in the changelog, under a lock   *)
(* that is not one: it is looked for, then inserted, and MongoDB removes   *)
(* it after lockTtl even if the migrations go on. Several instances of a   *)
(* deployment start at the same time, and each may stop at any point. What *)
(* they read may come from a secondary that lags behind.                   *)
(*                                                                         *)
(* migrate-mongo is modelled from how run-migrations.js uses it.           *)
(***************************************************************************)
EXTENDS GrantVersion, Sequences, FiniteSets

CONSTANTS
  Instances,     \* instances of a deployment
  Documents,     \* documents stored before
  CollectionOf,  \* the collection of each
  Applications,  \* what an application is known by besides its version
  ApplicationOf, \* the application of each document
  Legacies,      \* what the grantVersions of all may be
  MaxRetries,    \* attempts within maxWaitMs
  LaggingReads   \* what is read from a secondary at times

Files == <<"semver", "indexes", "rename", "report">>

Collections == {"state", "locks", "submissions"}

\* The order in which a migration takes the collections.
CollectionsOf(file) ==
  IF file = "indexes" THEN <<"locks", "state", "submissions">>
                      ELSE <<"state", "locks", "submissions">>

Names == Collections \X {"old", "new"}

\* grant-application-state and so on; state__grant_application_state and so on.
Old(c) == <<c, "old">>
New(c) == <<c, "new">>

ASSUME MigrationAssumption ==
  /\ CollectionOf \in [Documents -> Collections]
  /\ ApplicationOf \in [Documents -> Applications]
  /\ Legacies \subseteq [Documents -> RawVersions]
  /\ MaxRetries \in Nat
  /\ LaggingReads \subseteq {"lock", "changelog", "collections"}

VARIABLES
  existing,      \* the collections that exist
  held,          \* the documents in each collection
  legacy,        \* history: the grantVersion each document had
  version,       \* the one it has
  pinned,        \* documents of the state collection with a pinnedMajor
  indexed,       \* collections that have their unique indexes
  missed,        \* history: collections whose rename was due and was skipped
  changelog,     \* the migrations recorded
  lockRows,      \* instances whose rows are in the changelog lock
  secondary,     \* what a secondary has of it
  pc,            \* where each instance is
  retries,       \* times it has found the lock in place
  pending,       \* migrations it has yet to apply, by their place in Files
  at             \* the place of the collection its current migration is at

database == <<existing, held, version, pinned, indexed, missed>>
migrating == <<changelog, lockRows>>
vars == <<database, legacy, secondary, migrating, pc, retries, pending, at>>

\* The client of mongodb.js asks for secondaryPreferred: a secondary that may
\* lag behind answers, or else the primary.
primary == [lock |-> lockRows, changelog |-> changelog, collections |-> existing]
replicated == [r \in LaggingReads |-> primary[r]]
Views(r) == {primary[r]} \cup (IF r \in LaggingReads THEN {secondary[r]} ELSE {})

---------------------------------------------------------------------------
Steps == {"semver", "indexes", "rename", "renaming", "report"}

TypeOK ==
  /\ existing \subseteq Names
  /\ held \in [Names -> SUBSET Documents]
  /\ legacy \in Legacies
  /\ version \in [Documents -> RawVersions]
  /\ pinned \subseteq Documents
  /\ indexed \subseteq Names
  /\ missed \subseteq Collections
  /\ changelog \in Seq({"semver", "indexes", "rename", "report"})
  /\ lockRows \subseteq Instances
  /\ DOMAIN secondary = LaggingReads
  /\ \A rows \in Views("lock") : rows \subseteq Instances
  /\ \A log \in Views("changelog") : log \in Seq({"semver", "indexes", "rename", "report"})
  /\ \A names \in Views("collections") : names \subseteq Names
  /\ pc \in [Instances -> {"down", "waiting", "unlocked", "status", "recording",
                           "clearing", "serving"} \cup Steps]
  /\ retries \in [Instances -> 0..MaxRetries]
  /\ pending \in [Instances -> SUBSET DOMAIN Files]
  /\ at \in [Instances -> 1..3]

\* Two documents with one key. A submission has a reference of its own.
Collide(c, documents, versions) ==
  /\ c # "submissions"
  /\ \E d, e \in documents :
       d # e /\ ApplicationOf[d] = ApplicationOf[e] /\ versions[d] = versions[e]

DocumentsOf(c) == {d \in Documents : CollectionOf[d] = c}

Init ==
  /\ held = [n \in Names |-> IF n[2] = "old" THEN DocumentsOf(n[1]) ELSE {}]
  /\ existing = {n \in Names : held[n] # {}}
  /\ legacy \in Legacies
  /\ \A n \in existing : ~Collide(n[1], held[n], legacy)
  /\ version = legacy
  /\ pinned = {}
  /\ indexed \in {{}, existing}
  /\ changelog = <<>>
  /\ lockRows = {}
  /\ missed = {}
  /\ secondary = replicated
  /\ pc = [i \in Instances |-> "down"]
  /\ retries = [i \in Instances |-> 0]
  /\ pending = [i \in Instances |-> {}]
  /\ at = [i \in Instances |-> 1]

Goto(i, p) == pc' = [pc EXCEPT ![i] = p]

\* The instance is gone, and with it what it remembered.
Down(i) ==
  /\ Goto(i, "down")
  /\ retries' = [retries EXCEPT ![i] = 0]
  /\ pending' = [pending EXCEPT ![i] = {}]
  /\ at' = [at EXCEPT ![i] = 1]

---------------------------------------------------------------------------
(* runMigrations and withLockRetry *)

\* startServer; ensureChangelogIndex changes nothing that is modelled but
\* what RecordMigration may do.
Start(i) ==
  /\ pc[i] = "down"
  /\ Goto(i, "waiting")
  /\ UNCHANGED <<database, legacy, secondary, migrating, retries, pending, at>>

\* `up` finds no lock.
FindNoLock(i) ==
  /\ pc[i] = "waiting"
  /\ \E rows \in Views("lock") : rows = {}
  /\ Goto(i, "unlocked")
  /\ UNCHANGED <<database, legacy, secondary, migrating, retries, pending, at>>

LockFound == \E rows \in Views("lock") : rows # {}

\* Mutant: no deadline.
RetryForever(i) ==
  /\ pc[i] = "waiting" /\ LockFound
  /\ retries' = [retries EXCEPT ![i] = @ + 1]
  /\ UNCHANGED <<database, legacy, secondary, migrating, pc, pending, at>>

RetryLater(i) ==
  /\ pc[i] = "waiting" /\ LockFound
  /\ retries[i] < MaxRetries
  /\ retries' = [retries EXCEPT ![i] = @ + 1]
  /\ UNCHANGED <<database, legacy, secondary, migrating, pc, pending, at>>

\* Mutant: the instance starts anyway.
ServeUnmigrated(i) ==
  /\ pc[i] = "waiting" /\ LockFound
  /\ retries[i] = MaxRetries
  /\ Goto(i, "serving")
  /\ UNCHANGED <<database, legacy, secondary, migrating, retries, pending, at>>

\* Timed out waiting for another instance: the boot fails.
GiveUp(i) ==
  /\ pc[i] = "waiting" /\ LockFound
  /\ retries[i] = MaxRetries
  /\ Down(i)
  /\ UNCHANGED <<database, legacy, secondary, migrating>>

ActivateLock(i) ==
  /\ pc[i] = "unlocked"
  /\ lockRows' = lockRows \cup {i}
  /\ Goto(i, "status")
  /\ UNCHANGED <<database, legacy, secondary, changelog, retries, pending, at>>

RecordedIn(log, file) == \E k \in DOMAIN log : log[k] = file
Recorded(file) == RecordedIn(changelog, file)

\* The place of the first migration among those pending, and its name.
First(todo) == CHOOSE k \in todo : \A m \in todo : k <= m
Applying(i) == Files[First(pending[i])]

\* The next pending migration, or the end.
Proceed(i, todo) ==
  /\ pending' = [pending EXCEPT ![i] = todo]
  /\ at' = [at EXCEPT ![i] = 1]
  /\ Goto(i, IF todo = {} THEN "clearing" ELSE Files[First(todo)])

ReadStatus(i) ==
  /\ pc[i] = "status"
  /\ \E log \in Views("changelog") :
       Proceed(i, {k \in DOMAIN Files : ~RecordedIn(log, Files[k])})
  /\ UNCHANGED <<database, legacy, secondary, migrating, retries>>

\* Mutant: there is no unique index on the changelog.
RecordAnyMigration(i) ==
  /\ pc[i] = "recording"
  /\ changelog' = Append(changelog, Applying(i))
  /\ Proceed(i, pending[i] \ {First(pending[i])})
  /\ UNCHANGED <<database, legacy, secondary, lockRows, retries>>

\* The index uniq_fileName refuses a second row.
RecordMigration(i) ==
  /\ pc[i] = "recording"
  /\ ~Recorded(Applying(i))
  /\ changelog' = Append(changelog, Applying(i))
  /\ Proceed(i, pending[i] \ {First(pending[i])})
  /\ UNCHANGED <<database, legacy, secondary, lockRows, retries>>

\* All rows go, those of other instances as well.
ClearLock(i) ==
  /\ pc[i] = "clearing"
  /\ lockRows' = {}
  /\ Goto(i, "serving")
  /\ UNCHANGED <<database, legacy, secondary, changelog, retries, pending, at>>

\* Mutant: the lock has no TTL (what is left behind stays).
KeepLock == FALSE /\ UNCHANGED vars

\* The TTL index of the lock, lockTtl after it was inserted.
ExpireLock ==
  /\ lockRows # {}
  /\ \E i \in lockRows : lockRows' = lockRows \ {i}
  /\ UNCHANGED <<database, legacy, secondary, changelog, pc, retries, pending, at>>

---------------------------------------------------------------------------
(* The migrations *)

Current(i) == CollectionsOf(Applying(i))[at[i]]

\* One collection is done, or with the last the migration is.
Done(i) ==
  /\ at' = [at EXCEPT ![i] = IF @ < 3 THEN @ + 1 ELSE 1]
  /\ Goto(i, IF at[i] < 3 THEN Applying(i) ELSE "recording")
  /\ UNCHANGED <<legacy, secondary, migrating, retries, pending>>

\* Documents of a collection that the semver migration has yet to rewrite. (A
\* secondary that lags may show some that are done: they are given what they
\* have.)
Unmigrated(c) ==
  {d \in held[Old(c)] :
     IF c = "state" THEN d \notin pinned ELSE version[d] \notin SemverStrings}

Normalised(d) == [version EXCEPT ![d] = parseSemver(@).semver]

\* The indexes may be there from before.
Acceptable(c, versions) ==
  Old(c) \in indexed => ~Collide(c, held[Old(c)], versions)

NormaliseDocument(i) ==
  /\ pc[i] = "semver"
  /\ \E d \in Unmigrated(Current(i)) :
       /\ Acceptable(Current(i), Normalised(d))
       /\ version' = Normalised(d)
       /\ pinned' = IF Current(i) = "state" THEN pinned \cup {d} ELSE pinned
  /\ UNCHANGED <<existing, held, indexed, missed, legacy, secondary, migrating, pc, retries, pending, at>>

CollectionNormalised(i) ==
  /\ pc[i] = "semver"
  /\ Unmigrated(Current(i)) = {}
  /\ Done(i)
  /\ UNCHANGED database

\* createIndex creates the collection if need be. It fails on duplicates.
CreateIndexes(i) ==
  /\ pc[i] = "indexes"
  /\ LET name == Old(Current(i))
     IN  /\ ~Collide(Current(i), held[name], version)
         /\ existing' = existing \cup {name}
         /\ indexed' = indexed \cup {name}
  /\ Done(i)
  /\ UNCHANGED <<held, version, pinned, missed>>

RenameDue(c, names) == Old(c) \in names /\ New(c) \notin names

\* renameIfNeeded looks at the names first, not always at the latest ...
ListCollections(i) ==
  /\ pc[i] = "rename"
  /\ \E names \in Views("collections") :
       \/ /\ RenameDue(Current(i), names)
          /\ Goto(i, "renaming")
          /\ UNCHANGED <<missed, legacy, secondary, migrating, retries, pending, at>>
       \/ /\ ~RenameDue(Current(i), names)
          /\ Done(i)
          /\ missed' = IF RenameDue(Current(i), existing) THEN missed \cup {Current(i)}
                                                          ELSE missed
  /\ UNCHANGED <<existing, held, version, pinned, indexed>>

\* The documents and the indexes go with the name.
Rename(from, to) ==
  /\ existing' = (existing \ {from}) \cup {to}
  /\ held' = [held EXCEPT ![to] = held[from], ![from] = {}]
  /\ indexed' = {n \in Names : IF n = to THEN from \in indexed ELSE n # from /\ n \in indexed}

\* ... and renames then, unless the source is gone or the target has come.
RenameCollection(i) ==
  /\ pc[i] = "renaming"
  /\ RenameDue(Current(i), existing)
  /\ Rename(Old(Current(i)), New(Current(i)))
  /\ missed' = missed \ {Current(i)}
  /\ Done(i)
  /\ UNCHANGED <<version, pinned>>

\* The last migration only reads.
ReportPence(i) ==
  /\ pc[i] = "report"
  /\ Goto(i, "recording")
  /\ UNCHANGED <<database, legacy, secondary, migrating, retries, pending, at>>

\* The instance has waited long enough for the lock, or what it tries next
\* is refused by the database.
Refused(i) ==
  \/ pc[i] = "waiting" /\ LockFound /\ retries[i] = MaxRetries
  \/ pc[i] = "recording" /\ Recorded(Applying(i))
  \/ pc[i] = "semver" /\ \E d \in Unmigrated(Current(i)) :
                            ~Acceptable(Current(i), Normalised(d))
  \/ pc[i] = "indexes" /\ Collide(Current(i), held[Old(Current(i))], version)
  \/ pc[i] = "renaming" /\ ~RenameDue(Current(i), existing)

\* A call is refused, or fails for another reason, and the boot with it; or
\* the instance stops. A lock it has inserted may be left behind.
Fail(i) ==
  /\ pc[i] # "down"
  /\ Down(i)
  /\ \/ UNCHANGED lockRows
     \/ pc[i] \in {"status", "recording"} \cup Steps /\ lockRows' = {}
  /\ UNCHANGED <<database, legacy, secondary, changelog>>

\* The secondary catches up.
Replicate ==
  /\ secondary # replicated
  /\ secondary' = replicated
  /\ UNCHANGED <<database, legacy, migrating, pc, retries, pending, at>>

---------------------------------------------------------------------------
Wait(i) == Start(i) \/ FindNoLock(i) \/ RetryLater(i) \/ GiveUp(i)

Up(i) == ActivateLock(i) \/ ReadStatus(i) \/ RecordMigration(i) \/ ClearLock(i)

Migrate(i) ==
  \/ NormaliseDocument(i) \/ CollectionNormalised(i)
  \/ CreateIndexes(i)
  \/ ListCollections(i) \/ RenameCollection(i)
  \/ ReportPence(i)

Next ==
  \/ \E i \in Instances : Wait(i) \/ Up(i) \/ Migrate(i) \/ Fail(i)
  \/ ExpireLock \/ Replicate

Spec == Init /\ [][Next]_vars

\* Failures that the database does not cause end some day. Instances that
\* have failed are started again, the TTL monitor runs, and secondaries
\* catch up.
FairSpec ==
  /\ Spec
  /\ \A i \in Instances : WF_vars(Wait(i) \/ Up(i) \/ Migrate(i) \/ (Refused(i) /\ Fail(i)))
  /\ WF_vars(ExpireLock) /\ WF_vars(Replicate)
  /\ <>[][~\E i \in Instances : ~Refused(i) /\ Fail(i)]_vars

---------------------------------------------------------------------------
(* Properties *)

\* An instance serves only when the collections have the names, the versions
\* and the unique indexes that its repositories count on, however many
\* instances have migrated at a time, and wherever they have stopped
\* (startServer: migrations first; any error ends the boot). Excepted are
\* collections without documents that create-indexes had just made when the
\* rename was due, and that a lagging secondary did not list yet: these are
\* left under the old name (RenamedBeforeServing).
ServesMigrated ==
  (\E i \in Instances : pc[i] = "serving") =>
    \A c \in Collections :
      \/ c \in missed /\ DocumentsOf(c) = {}
      \/ /\ New(c) \in existing \cap indexed
         /\ ~Collide(c, held[New(c)], version)
         /\ \A d \in held[New(c)] : version[d] \in SemverStrings
         /\ c = "state" => held[New(c)] \subseteq pinned

\* renameIfNeeded: "Renames a collection if (and only if) the source
\* collection exists and the target does not". No instance serves when that
\* rename has been left out for good. (A lagging secondary breaks this.)
RenamedBeforeServing == (\E i \in Instances : pc[i] = "serving") => missed = {}

\* A document of before is never lost, and under the new names the routes
\* find it with whatever version their clients have kept: the migration
\* and normaliseGrantVersion make the same of it.
LegacyApplicationsAreFound ==
  \A d \in Documents :
    LET c == CollectionOf[d]
    IN  \/ d \in held[Old(c)]
        \/ /\ d \in held[New(c)]
           /\ version[d] = normaliseGrantVersion(legacy[d]).grantVersion

\* The changelog has each migration once, in the order of the files.
ChangelogInOrder == changelog = SubSeq(Files, 1, Len(changelog))

\* Unless two documents come to have one version, every instance serves in
\* the end, though locks are left behind and instances give up waiting.
Distinct ==
  \A d, e \in Documents :
    /\ d # e /\ CollectionOf[d] = CollectionOf[e] /\ CollectionOf[d] # "submissions"
    /\ ApplicationOf[d] = ApplicationOf[e]
    => normaliseGrantVersion(legacy[d]) # normaliseGrantVersion(legacy[e])

DeploymentCompletes == Distinct => <>(\A i \in Instances : pc[i] = "serving")

===========================================================================
