--------------------------- MODULE ConfigIngest ---------------------------
(***************************************************************************)
(* How form definitions and allowlists reach the config database. Every    *)
(* instance of the service pulls all versions from the broker as it starts *)
(* (runStartupPull) and then polls an SQS queue of notifications           *)
(* (sqsConsumerPlugin). Both end in ingestVersion and ingestAllowlist.     *)
(*                                                                         *)
(* SQS is a standard queue: a message is delivered at least once, in any   *)
(* order, and again whenever its visibility timeout has run out before it  *)
(* was deleted. Instances run at the same time and may stop at any point.  *)
(*                                                                         *)
(* One grant: every collection is keyed by grantCode, and grants do not    *)
(* interact. The manifest of a version does not change, so what it lists   *)
(* is a constant.                                                          *)
(***************************************************************************)
EXTENDS SequencesExt

CONSTANTS
  Instances,           \* running instances of the service
  Restarting,          \* those that start or stop; the others have been polling since before
  Versions,            \* versions of the grant, as numbers in semver order
  Statuses,            \* what the broker may say of a version, "active" among it
  WithDefinition,      \* versions whose manifest lists the form definition
  WithAllowlist,       \* versions whose manifest lists an allowlist.yaml
  sqsMaxMessages,      \* messages per poll
  MaxNews,             \* bound on what the broker announces
  Absent,              \* the status of a version that is not stored
  NoVersion            \* the version of a message that cannot be parsed

ASSUME IngestAssumption ==
  /\ Versions \subseteq Nat /\ IsFiniteSet(Versions)
  /\ NoVersion \notin Versions
  /\ Restarting \subseteq Instances
  /\ WithDefinition \subseteq Versions
  /\ WithAllowlist \subseteq Versions
  /\ "active" \in Statuses /\ Absent \notin Statuses \cup {"draft"}
  /\ sqsMaxMessages \in Nat \ {0}
  /\ MaxNews \in Nat

VARIABLES
  broker,        \* the broker's last news of each version
  sent,          \* every notification that was published
  queue,         \* the notifications that have not been deleted from SQS
  definitions,   \* config__form_definitions: the stored status of each version
  past,          \* what these have been, which a lagging secondary may still have
  lists,         \* config__allowlist_entries: the lists stored, and who stored them
  pc,            \* where each instance is
  batch,         \* messages an instance has received, the first being handled
  full,          \* the version an instance has fetched from the broker
  summary,       \* what an instance got from fetchAllGrants
  existing,      \* what it got from getDefinitionStatuses
  todo,          \* versions its pull has yet to consider
  snapshot,      \* the lists its allowlist transaction has deleted
  basis,         \* history: the news each stored status was taken from
  regressed,     \* history: versions for which older news has replaced newer
  listed,        \* history: versions that an allowlist was replaced for
  raced,         \* history: two replacements have begun on an empty collection
  undisturbed    \* history: instances whose pull has met no change, no failure and
                 \* no secondary that lagged

store   == <<definitions, past, lists, basis, regressed, listed, raced>>
outside == <<broker, sent, queue>>
pulling == <<summary, existing, todo>>
working == <<batch, full, snapshot>>
vars    == <<outside, store, pc, pulling, working, undisturbed>>

---------------------------------------------------------------------------
News == [id : 1..MaxNews, version : Versions \cup {NoVersion}, status : Statuses]
NoNews(v) == [id |-> 0, version |-> v, status |-> Absent]
Proper(n) == n.version \in Versions

\* How a version may be stored: as the broker said (updateDefinitionStatus)
\* or coerced (upsertDefinition).
Stored == Statuses \cup {"draft", Absent}
coerceStatus(s) == IF s = "active" THEN "active" ELSE "draft"

\* What may be known of every version: news of it, or none.
NewsOfVersions ==
  {f \in [Versions -> sent \cup {NoNews(v) : v \in Versions}] :
     \A v \in Versions : f[v].version = v}

TypeOK ==
  /\ sent \subseteq News
  /\ queue \subseteq sent
  /\ broker \in NewsOfVersions
  /\ definitions \in [Versions -> Stored]
  /\ past \subseteq [Versions -> Stored]
  /\ lists \subseteq [version : Versions, by : Instances]
  /\ pc \in [Instances -> {"down", "statuses", "pull", "fetched", "poll",
                           "ingest", "allowlist", "replace", "delete"}]
  /\ batch \in [Instances -> Seq(sent)]
  /\ full \in [Instances -> sent \cup {NoNews(NoVersion)}]
  /\ summary \in [Instances -> NewsOfVersions]
  /\ existing \in [Instances -> [Versions -> Stored]]
  /\ todo \in [Instances -> SUBSET Versions]
  /\ snapshot \in [Instances -> SUBSET [version : Versions, by : Instances]]
  /\ basis \in [Versions -> 0..MaxNews]
  /\ regressed \subseteq Versions
  /\ listed \subseteq Versions
  /\ raced \in BOOLEAN
  /\ undisturbed \subseteq Instances

Init ==
  /\ broker = [v \in Versions |-> NoNews(v)]
  /\ sent = {}
  /\ queue = {}
  /\ definitions = [v \in Versions |-> Absent]
  /\ past = {definitions}
  /\ lists = {}
  /\ pc = [i \in Instances |-> IF i \in Restarting THEN "down" ELSE "poll"]
  /\ batch = [i \in Instances |-> <<>>]
  /\ full = [i \in Instances |-> NoNews(NoVersion)]
  /\ summary = [i \in Instances |-> [v \in Versions |-> NoNews(v)]]
  /\ existing = [i \in Instances |-> [v \in Versions |-> Absent]]
  /\ todo = [i \in Instances |-> {}]
  /\ snapshot = [i \in Instances |-> {}]
  /\ basis = [v \in Versions |-> 0]
  /\ regressed = {}
  /\ listed = {}
  /\ raced = FALSE
  /\ undisturbed = {}

---------------------------------------------------------------------------
(* The broker and SNS *)

BrokerChange(v, s) ==
  /\ Cardinality(sent) < MaxNews
  /\ broker[v].status # s
  /\ LET n == [id |-> Cardinality(sent) + 1, version |-> v, status |-> s]
     IN  /\ broker' = [broker EXCEPT ![v] = n]
         /\ sent' = sent \cup {n}
         /\ queue' = queue \cup {n}
  /\ undisturbed' = {}
  /\ UNCHANGED <<store, pc, pulling, working>>

\* A notification without a version, or whose body is not JSON.
MalformedNews ==
  /\ Cardinality(sent) < MaxNews
  /\ LET n == [id |-> Cardinality(sent) + 1, version |-> NoVersion, status |-> "active"]
     IN  sent' = sent \cup {n} /\ queue' = queue \cup {n}
  /\ UNCHANGED <<broker, store, pc, pulling, working, undisturbed>>

---------------------------------------------------------------------------
(* What both ways of ingesting do to the database *)

\* The store takes status s for version v, which the news with this id gave.
SetStatus(v, s, id) ==
  /\ definitions' = [definitions EXCEPT ![v] = s]
  /\ past' = past \cup {definitions'}
  /\ basis' = [basis EXCEPT ![v] = id]
  /\ regressed' = IF id < basis[v] THEN regressed \cup {v} ELSE regressed
  /\ UNCHANGED <<lists, listed, raced>>

\* Mutant: $setOnInsert where $set is needed.
InsertDefinition(n) ==
  SetStatus(n.version, IF definitions[n.version] = Absent THEN coerceStatus(n.status)
                       ELSE definitions[n.version], n.id)

upsertDefinition(n) == SetStatus(n.version, coerceStatus(n.status), n.id)
updateDefinitionStatus(n) == SetStatus(n.version, n.status, n.id)

ingestVersion(n) ==
  IF n.version \in WithDefinition THEN upsertDefinition(n) ELSE UNCHANGED store

\* Whatever i has changed has disturbed the pulls of the others.
Disturbing(i) == undisturbed' = undisturbed \cap {i}

\* The version whose allowlist instance i is replacing.
Target(i) == IF batch[i] = <<>> THEN full[i].version ELSE Head(batch[i]).version

AfterAllowlist(i) == IF batch[i] = <<>> THEN "poll" ELSE "delete"

\* Mutant: no transaction, so nothing conflicts.
BeginAnyReplace(i) ==
  /\ pc[i] = "allowlist"
  /\ snapshot' = [snapshot EXCEPT ![i] = lists]
  /\ raced' = (raced \/ (lists = {} /\ \E j \in Instances : pc[j] = "replace"))
  /\ pc' = [pc EXCEPT ![i] = "replace"]
  /\ UNCHANGED <<outside, definitions, past, lists, basis, regressed, listed,
                 batch, full, pulling, undisturbed>>

\* replaceAllowlistEntries: the transaction deletes what it sees. When another
\* open transaction has deleted some of that, MongoDB refuses with a write
\* conflict, and withTransaction starts again.
BeginReplace(i) ==
  /\ pc[i] = "allowlist"
  /\ \A j \in Instances \ {i} : pc[j] = "replace" => snapshot[j] \cap lists = {}
  /\ snapshot' = [snapshot EXCEPT ![i] = lists]
  /\ raced' = (raced \/ (lists = {} /\ \E j \in Instances : pc[j] = "replace"))
  /\ pc' = [pc EXCEPT ![i] = "replace"]
  /\ UNCHANGED <<outside, definitions, past, lists, basis, regressed, listed,
                 batch, full, pulling, undisturbed>>

CommitReplace(i) ==
  /\ pc[i] = "replace"
  /\ lists' = (lists \ snapshot[i]) \cup
              [version : {Target(i)} \cap WithAllowlist, by : {i}]
  /\ listed' = listed \cup {Target(i)}
  /\ snapshot' = [snapshot EXCEPT ![i] = {}]
  /\ pc' = [pc EXCEPT ![i] = AfterAllowlist(i)]
  /\ full' = [full EXCEPT ![i] = NoNews(NoVersion)]
  /\ undisturbed' = {}
  /\ UNCHANGED <<outside, definitions, past, basis, regressed, raced, batch, pulling>>

---------------------------------------------------------------------------
(* Startup pull *)

fetchAllGrants(i) ==
  /\ pc[i] = "down"
  /\ summary' = [summary EXCEPT ![i] = broker]
  /\ pc' = [pc EXCEPT ![i] = "statuses"]
  /\ undisturbed' = undisturbed \cup {i}
  /\ UNCHANGED <<outside, store, existing, todo, working>>

\* The client of mongodb.js asks for secondaryPreferred: the statuses may be
\* those of some time ago.
getDefinitionStatuses(i) ==
  /\ pc[i] = "statuses"
  /\ \E statuses \in past :
       /\ existing' = [existing EXCEPT ![i] = statuses]
       /\ undisturbed' = IF statuses = definitions THEN undisturbed ELSE undisturbed \ {i}
  /\ todo' = [todo EXCEPT ![i] = {v \in Versions : summary[i][v].id > 0}]
  /\ pc' = [pc EXCEPT ![i] = "pull"]
  /\ UNCHANGED <<outside, store, summary, working>>

Considered(i, v) ==
  /\ todo' = [todo EXCEPT ![i] = @ \ {v}]
  /\ existing' = [existing EXCEPT ![i][v] = Absent]

\* Mutant: whatever is stored already is skipped.
SkipStored(i, v) ==
  /\ pc[i] = "pull" /\ v \in todo[i]
  /\ existing[i][v] # Absent
  /\ Considered(i, v)
  /\ UNCHANGED <<outside, store, pc, summary, working, undisturbed>>

SkipVersion(i, v) ==
  /\ pc[i] = "pull" /\ v \in todo[i]
  /\ existing[i][v] = summary[i][v].status
  /\ Considered(i, v)
  /\ UNCHANGED <<outside, store, pc, summary, working, undisturbed>>

ChangeStatus(i, v) ==
  /\ pc[i] = "pull" /\ v \in todo[i]
  /\ existing[i][v] \notin {Absent, summary[i][v].status}
  /\ updateDefinitionStatus(summary[i][v])
  /\ Considered(i, v)
  /\ Disturbing(i)
  /\ UNCHANGED <<outside, pc, summary, working>>

fetchVersion(i, v) ==
  /\ pc[i] = "pull" /\ v \in todo[i]
  /\ existing[i][v] = Absent
  /\ full' = [full EXCEPT ![i] = broker[v]]
  /\ pc' = [pc EXCEPT ![i] = "fetched"]
  /\ Considered(i, v)
  /\ UNCHANGED <<outside, store, summary, batch, snapshot, undisturbed>>

IngestFetched(i) ==
  /\ pc[i] = "fetched"
  /\ ingestVersion(full[i])
  /\ full' = [full EXCEPT ![i] = NoNews(NoVersion)]
  /\ pc' = [pc EXCEPT ![i] = "pull"]
  /\ Disturbing(i)
  /\ UNCHANGED <<outside, pulling, batch, snapshot>>

\* pullVersionSafely: a version that fails is skipped.
VersionFails(i) ==
  /\ \/ pc[i] = "pull" /\ \E v \in todo[i] : Considered(i, v)
     \/ pc[i] = "fetched" /\ UNCHANGED <<todo, existing>>
  /\ pc' = [pc EXCEPT ![i] = "pull"]
  /\ full' = [full EXCEPT ![i] = NoNews(NoVersion)]
  /\ undisturbed' = undisturbed \ {i}
  /\ UNCHANGED <<outside, store, summary, batch, snapshot>>

\* What the pull remembered is of no use after it.
PullOver(i) ==
  /\ summary' = [summary EXCEPT ![i] = [v \in Versions |-> NoNews(v)]]
  /\ existing' = [existing EXCEPT ![i] = [v \in Versions |-> Absent]]
  /\ todo' = [todo EXCEPT ![i] = {}]

ActiveIn(news) == {v \in Versions : news[v].status = "active"}

NothingActive(i) ==
  /\ pc[i] = "pull" /\ todo[i] = {}
  /\ ActiveIn(summary[i]) = {}
  /\ PullOver(i)
  /\ pc' = [pc EXCEPT ![i] = "poll"]
  /\ undisturbed' = undisturbed \ {i}
  /\ UNCHANGED <<outside, store, working>>

fetchLatestActiveVersion(i) ==
  /\ pc[i] = "pull" /\ todo[i] = {}
  /\ ActiveIn(summary[i]) # {}
  /\ \E v \in ActiveIn(broker) :
       /\ \A w \in ActiveIn(broker) : w <= v
       /\ full' = [full EXCEPT ![i] = broker[v]]
  /\ PullOver(i)
  /\ pc' = [pc EXCEPT ![i] = "allowlist"]
  /\ UNCHANGED <<outside, store, batch, snapshot, undisturbed>>

\* There is no active version any more: the broker answers 404.
NoLatestActive(i) ==
  /\ pc[i] = "pull" /\ todo[i] = {}
  /\ ActiveIn(summary[i]) # {}
  /\ ActiveIn(broker) = {}
  /\ PullOver(i)
  /\ pc' = [pc EXCEPT ![i] = "poll"]
  /\ undisturbed' = undisturbed \ {i}
  /\ UNCHANGED <<outside, store, working>>

\* Whatever else fails, the instance goes on to serve and poll: the broker
\* does not answer, the statuses cannot be read, the allowlist not replaced.
PullFails(i) ==
  /\ \/ pc[i] \in {"down", "statuses"}
     \/ pc[i] = "pull" /\ todo[i] = {} /\ ActiveIn(summary[i]) # {}
     \/ pc[i] \in {"allowlist", "replace"} /\ batch[i] = <<>>
  /\ PullOver(i)
  /\ full' = [full EXCEPT ![i] = NoNews(NoVersion)]
  /\ snapshot' = [snapshot EXCEPT ![i] = {}]
  /\ pc' = [pc EXCEPT ![i] = "poll"]
  /\ undisturbed' = undisturbed \ {i}
  /\ UNCHANGED <<outside, store, batch>>

---------------------------------------------------------------------------
(* SQS consumer *)

\* A poll may return any messages that are still in the queue: one that
\* another instance is handling is visible again after its timeout.
ReceiveMessages(i) ==
  /\ pc[i] = "poll"
  /\ \E received \in SUBSET queue :
       /\ Cardinality(received) \in 1..sqsMaxMessages
       /\ \E messages \in SetToSeqs(received) : batch' = [batch EXCEPT ![i] = messages]
  /\ pc' = [pc EXCEPT ![i] = "ingest"]
  /\ UNCHANGED <<outside, store, pulling, full, snapshot, undisturbed>>

NextMessage(i) ==
  /\ batch' = [batch EXCEPT ![i] = Tail(@)]
  /\ pc' = [pc EXCEPT ![i] = IF Len(batch[i]) > 1 THEN "ingest" ELSE "poll"]

\* Mutant: the attributes are not checked.
IngestAnyMessage(i) ==
  /\ pc[i] = "ingest"
  /\ LET n == Head(batch[i])
     IN  /\ ingestVersion(n)
         /\ pc' = [pc EXCEPT ![i] = IF n.status = "active" \/ ~Proper(n) THEN "allowlist" ELSE "delete"]
  /\ Disturbing(i)
  /\ UNCHANGED <<outside, pulling, working>>

\* Mutant: the allowlist of a draft is ingested too.
IngestDraftLists(i) ==
  /\ pc[i] = "ingest"
  /\ LET n == Head(batch[i])
     IN  /\ Proper(n)
         /\ ingestVersion(n)
         /\ pc' = [pc EXCEPT ![i] = "allowlist"]
  /\ Disturbing(i)
  /\ UNCHANGED <<outside, pulling, working>>

\* handleMessage, first half. A message that cannot be parsed throws.
IngestMessage(i) ==
  /\ pc[i] = "ingest"
  /\ LET n == Head(batch[i])
     IN  /\ Proper(n)
         /\ ingestVersion(n)
         /\ pc' = [pc EXCEPT ![i] = IF n.status = "active" THEN "allowlist" ELSE "delete"]
  /\ Disturbing(i)
  /\ UNCHANGED <<outside, pulling, working>>

DeleteMessage(i) ==
  /\ pc[i] = "delete"
  /\ queue' = queue \ {Head(batch[i])}
  /\ NextMessage(i)
  /\ UNCHANGED <<broker, sent, store, pulling, full, snapshot, undisturbed>>

\* Mutant: a message that fails is deleted with the others.
DropFailedMessage(i) ==
  /\ pc[i] \in {"ingest", "allowlist", "replace", "delete"} /\ batch[i] # <<>>
  /\ queue' = queue \ {Head(batch[i])}
  /\ NextMessage(i)
  /\ snapshot' = [snapshot EXCEPT ![i] = {}]
  /\ UNCHANGED <<broker, sent, store, pulling, full, undisturbed>>

\* Mutant: a message that fails is tried again at once.
RetryFailedMessage(i) ==
  /\ pc[i] \in {"ingest", "allowlist", "replace", "delete"} /\ batch[i] # <<>>
  /\ pc' = [pc EXCEPT ![i] = "ingest"]
  /\ snapshot' = [snapshot EXCEPT ![i] = {}]
  /\ UNCHANGED <<outside, store, pulling, batch, full, undisturbed>>

\* Anything handleMessage or the deletion throws: the message stays in the
\* queue, and the rest of the batch is handled.
MessageFails(i) ==
  /\ pc[i] \in {"ingest", "allowlist", "replace", "delete"} /\ batch[i] # <<>>
  /\ NextMessage(i)
  /\ snapshot' = [snapshot EXCEPT ![i] = {}]
  /\ UNCHANGED <<outside, store, pulling, full, undisturbed>>

\* The instance stops, at any point, and may be started again.
Stop(i) ==
  /\ i \in Restarting
  /\ pc[i] # "down"
  /\ PullOver(i)
  /\ batch' = [batch EXCEPT ![i] = <<>>]
  /\ full' = [full EXCEPT ![i] = NoNews(NoVersion)]
  /\ snapshot' = [snapshot EXCEPT ![i] = {}]
  /\ pc' = [pc EXCEPT ![i] = "down"]
  /\ undisturbed' = undisturbed \ {i}
  /\ UNCHANGED <<outside, store>>

---------------------------------------------------------------------------
Broker ==
  \/ \E v \in Versions, s \in Statuses : BrokerChange(v, s)
  \/ MalformedNews

Pull(i) ==
  \/ fetchAllGrants(i)
  \/ getDefinitionStatuses(i)
  \/ \E v \in Versions : SkipVersion(i, v) \/ ChangeStatus(i, v) \/ fetchVersion(i, v)
  \/ IngestFetched(i)
  \/ NothingActive(i)
  \/ fetchLatestActiveVersion(i)
  \/ NoLatestActive(i)

Handle(i) == IngestMessage(i) \/ DeleteMessage(i)

Replace(i) == BeginReplace(i) \/ CommitReplace(i)

Fault(i) == VersionFails(i) \/ PullFails(i) \/ MessageFails(i) \/ Stop(i)

Next ==
  \/ Broker
  \/ \E i \in Instances :
       Pull(i) \/ ReceiveMessages(i) \/ Handle(i) \/ Replace(i) \/ Fault(i)

Spec == Init /\ [][Next]_vars

\* A message that cannot be parsed fails however often it is handled.
Poisoned(i) == pc[i] = "ingest" /\ ~Proper(Head(batch[i]))

\* Failures and restarts end some day, but for poisoned messages. What may
\* as well be a step of the program is not a failure.
Unlucky ==
  \E i \in Instances : ~Poisoned(i) /\ Fault(i) /\ ~Pull(i) /\ ~Handle(i)

\* Instances go on, and SQS returns every message it holds to some poll
\* again and again.
FairSpec ==
  /\ Spec
  /\ \A i \in Instances :
       WF_vars(Pull(i) \/ Handle(i) \/ Replace(i) \/ (Poisoned(i) /\ MessageFails(i)))
  /\ \A k \in 1..MaxNews :
       SF_vars((\E n \in queue : n.id = k) /\
               \E i \in Instances : ReceiveMessages(i) /\ Head(batch'[i]).id = k)
  /\ <>[][~Unlucky]_vars

---------------------------------------------------------------------------
(* Properties *)

\* A notification leaves the queue only when it has been acted upon: its
\* version is stored, and if it is active, the allowlist has been replaced
\* for it. Failures, restarts and redelivery lose nothing (sqs-consumer.js:
\* a message is deleted after handleMessage, and left when it throws).
NotificationsAreNotLost ==
  \A n \in sent \ queue :
    /\ Proper(n)
    /\ n.version \in WithDefinition => definitions[n.version] # Absent
    /\ n.status = "active" => n.version \in listed

\* What is stored is what ConfigRegister promises: a version has a status
\* that was announced of it, and only active versions bring their lists.
Announced == {<<n.version, n.status>> : n \in {m \in sent : Proper(m)}}

Register == INSTANCE ConfigRegister WITH
  reported <- Announced, status <- definitions,
  entries <- {l.version : l \in lists}, Coerce <- coerceStatus

ImplementsRegister == Register!Spec

Reconciled(v) == coerceStatus(definitions[v]) = coerceStatus(broker[v].status)

\* Once every notification of a version has been consumed, its stored status
\* is the broker's (start-server.js: the consumer reconciles the database),
\* whatever the instances are doing, except where older news was written
\* after newer.
ConsumedMeansReconciled ==
  \A v \in WithDefinition :
    /\ broker[v].id > 0 /\ v \notin regressed
    /\ \A n \in queue : n.version # v
    => Reconciled(v)

\* Even that is put right by a start that nobody disturbs, in which nothing
\* fails and that reads its statuses from where they are up to date: it ends
\* with the broker's statuses, and with the list of the latest active version
\* alone (runStartupPull). (A secondary that lags may show a status that is
\* the broker's already, and the version is skipped.)
PullReconciles ==
  [][\A i \in undisturbed :
       NothingActive(i) \/ (CommitReplace(i) /\ batch[i] = <<>>) =>
         /\ \A v \in WithDefinition : broker[v].id > 0 => Reconciled(v)'
         /\ ActiveIn(broker) # {} =>
              {l.version : l \in lists'} = {Max(ActiveIn(broker))} \cap WithAllowlist]_vars

\* The stored entries are the list of one version, as long as no two
\* replacements have begun on an empty collection: then neither deletes
\* anything, the transactions do not conflict, and both lists stay
\* (replaceAllowlistEntries: deleteMany, then insertMany).
OneListUnlessRaced == raced \/ \A l, m \in lists : l.version = m.version

\* Every message that can be parsed is consumed some day, whatever poisoned
\* messages there are beside it and however replacements conflict.
NotificationsAreConsumed ==
  \A k \in 1..MaxNews :
    (\E n \in queue : n.id = k /\ Proper(n)) ~> (\A n \in queue : n.id = k => ~Proper(n))

===========================================================================
