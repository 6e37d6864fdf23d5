----------------------- MODULE ConfigReconcile_proof -----------------------
(***************************************************************************)
(* Proofs about ConfigIngest, continued: what is stored follows what the   *)
(* broker announces. A version all of whose notifications were consumed    *)
(* has the broker's status, unless older news has replaced newer; and a    *)
(* startup pull that meets no change, no failure and no lagging secondary  *)
(* ends with the broker's statuses and with the list of the latest active  *)
(* version alone.                                                          *)
(***************************************************************************)
EXTENDS ConfigIngest_proof

USE IngestAssumption

---------------------------------------------------------------------------
(* What the numbers of the news say about the store *)

\* News is numbered as it is announced, and the broker's is the newest.
NumbersOK ==
  /\ \A n \in sent : n.id <= Cardinality(sent)
  /\ \A m, n \in sent : m.id = n.id => m = n
  /\ \A n \in sent : Proper(n) =>
       broker[n.version] \in sent /\ n.id <= broker[n.version].id

\* A stored status is that of the news it was taken from.
From(v, n) ==
  /\ n.version = v /\ n.id = basis[v]
  /\ coerceStatus(definitions[v]) = coerceStatus(n.status)

BasisOK == \A v \in Versions : basis[v] > 0 => \E n \in sent : From(v, n)

\* The store has taken this news of a version, or newer news, and has not
\* fallen back since.
Recorded(n) ==
  n.version \in WithDefinition \ regressed => n.id <= basis[n.version]

\* What was consumed is recorded, and so is what is being consumed.
RecordsOK ==
  /\ \A n \in sent \ queue : Recorded(n)
  /\ \A i \in Instances :
       batch[i] # <<>> /\ pc[i] \in {"allowlist", "replace", "delete"} =>
         Recorded(Head(batch[i]))

NewsInv == NumbersOK /\ BasisOK /\ RecordsOK

---------------------------------------------------------------------------
(* How far an undisturbed pull has got *)

\* Version v has what the broker says of it.
Settled(v) == v \in WithDefinition /\ broker[v].id > 0 => Reconciled(v)

\* The pull of instance i, which nobody has disturbed: it remembers what the
\* broker says and what is stored, and what it has been through is settled.
PullInv(i) ==
  /\ batch[i] = <<>>
  /\ pc[i] \in {"statuses", "pull", "fetched", "allowlist", "replace"}
  /\ pc[i] \in {"statuses", "pull", "fetched"} => summary[i] = broker
  /\ pc[i] \in {"pull", "fetched"} =>
       \A v \in Versions :
         \/ v \in todo[i] /\ existing[i][v] = definitions[v]
         \/ v \notin todo[i] /\ pc[i] = "fetched" /\ full[i] = broker[v]
         \/ v \notin todo[i] /\ Settled(v)
  /\ pc[i] = "fetched" => full[i].version \notin todo[i] /\ full[i] = broker[full[i].version]
  /\ pc[i] \in {"allowlist", "replace"} =>
       /\ \A v \in Versions : Settled(v)
       /\ \E v \in ActiveIn(broker) :
            full[i] = broker[v] /\ \A w \in ActiveIn(broker) : w <= v
  /\ pc[i] = "replace" => snapshot[i] = lists

UndisturbedInv == \A i \in undisturbed : PullInv(i)

---------------------------------------------------------------------------
(* The store takes news *)

\* A status that was coerced once is not changed by doing so again.
LEMMA CoercedTwice ==
  ASSUME NEW s
  PROVE  coerceStatus(coerceStatus(s)) = coerceStatus(s)
BY DEF coerceStatus

\* What an instance does to the statuses: nothing, or it adopts one.
LEMMA StatusSteps ==
  ASSUME IInv, NEW i \in Instances, Acts(i)
  PROVE  UNCHANGED <<definitions, basis, regressed>> \/ Adopts
<1>t. TypeOK /\ InstanceOK(i)
  BY DEF IInv
<1>1. ASSUME NEW v \in Versions, ChangeStatus(i, v)
      PROVE  Adopts
  <2>1. v \in todo[i] /\ summary[i] \in NewsOfVersions
    BY <1>t, <1>1 DEF ChangeStatus, TypeOK
  <2>2. summary[i][v] \in sent /\ Proper(summary[i][v])
    BY <1>t, <2>1, NewsIsSentOrNone DEF InstanceOK, Proper
  <2>3. SetStatus(summary[i][v].version, summary[i][v].status, summary[i][v].id)
    BY <1>1, <2>1, <1>t, NewsIsSentOrNone DEF ChangeStatus, updateDefinitionStatus
  <2> QED
    BY <2>2, <2>3 DEF Adopts
<1>2. ASSUME NEW n \in sent, Proper(n), ingestVersion(n)
      PROVE  Adopts \/ UNCHANGED <<definitions, basis, regressed>>
  BY <1>2 DEF ingestVersion, upsertDefinition, Adopts, store
<1>3. CASE IngestFetched(i)
  BY <1>t, <1>2, <1>3 DEF IngestFetched, InstanceOK
<1>4. CASE IngestMessage(i)
  BY <1>t, <1>2, <1>4, MessagesAtHand DEF IngestMessage, InstanceOK
<1>5. ASSUME ~IngestFetched(i), ~IngestMessage(i),
             ~\E v \in Versions : ChangeStatus(i, v)
      PROVE  UNCHANGED <<definitions, basis, regressed>>
  BY <1>5 DEF Acts, Pull, Handle, Replace, Fault, SkipVersion, fetchVersion, fetchAllGrants,
       getDefinitionStatuses, VersionFails, NothingActive, fetchLatestActiveVersion,
       NoLatestActive, PullFails, ReceiveMessages, DeleteMessage, MessageFails, Stop,
       BeginReplace, CommitReplace, store
<1> QED
  BY <1>1, <1>3, <1>4, <1>5

\* What adopting does, version by version.
LEMMA AdoptEffect ==
  ASSUME TypeOK, Adopts
  PROVE  \E n \in sent :
           /\ Proper(n)
           /\ basis'[n.version] = n.id
           /\ coerceStatus(definitions'[n.version]) = coerceStatus(n.status)
           /\ n.id < basis[n.version] => n.version \in regressed'
           /\ regressed \subseteq regressed'
           /\ \A v \in Versions \ {n.version} :
                basis'[v] = basis[v] /\ definitions'[v] = definitions[v]
<1>1. PICK n \in sent :
        /\ Proper(n)
        /\ \E s \in {n.status, coerceStatus(n.status)} : SetStatus(n.version, s, n.id)
  BY DEF Adopts
<1>2. PICK s \in {n.status, coerceStatus(n.status)} : SetStatus(n.version, s, n.id)
  BY <1>1
<1>3. coerceStatus(s) = coerceStatus(n.status)
  BY CoercedTwice
<1>4. /\ definitions' = [definitions EXCEPT ![n.version] = s]
      /\ basis' = [basis EXCEPT ![n.version] = n.id]
      /\ regressed' = IF n.id < basis[n.version] THEN regressed \cup {n.version} ELSE regressed
  BY <1>2 DEF SetStatus
<1>5. /\ definitions \in [Versions -> Stored] /\ basis \in [Versions -> 0..MaxNews]
      /\ n.version \in Versions
  BY <1>1 DEF TypeOK, Proper
<1>6. definitions'[n.version] = s /\ basis'[n.version] = n.id
  BY <1>4, <1>5
<1>7. \A v \in Versions \ {n.version} : basis'[v] = basis[v] /\ definitions'[v] = definitions[v]
  BY <1>4, <1>5
<1>8. /\ regressed \subseteq regressed'
      /\ n.id < basis[n.version] => n.version \in regressed'
  BY <1>4
<1> QED
  BY <1>1, <1>3, <1>6, <1>7, <1>8

\* Recorded news stays recorded: what is older than the store's only gets in
\* with the version marked as regressed.
LEMMA RecordedStays ==
  ASSUME TypeOK, UNCHANGED <<definitions, basis, regressed>> \/ Adopts,
         NEW m \in sent, Recorded(m)
  PROVE  Recorded(m)'
<1>1. CASE UNCHANGED <<definitions, basis, regressed>>
  BY <1>1 DEF Recorded
<1>2. CASE Adopts
  <2>1. PICK n \in sent :
          /\ Proper(n)
          /\ basis'[n.version] = n.id
          /\ n.id < basis[n.version] => n.version \in regressed'
          /\ regressed \subseteq regressed'
          /\ \A v \in Versions \ {n.version} : basis'[v] = basis[v]
    BY <1>2, AdoptEffect
  <2>2. SUFFICES ASSUME m.version \in WithDefinition, m.version \notin regressed'
                 PROVE  m.id <= basis'[m.version]
    BY DEF Recorded
  <2>3. m.version \in Versions /\ m.id <= basis[m.version]
    BY <2>1, <2>2 DEF Recorded
  <2>4. m.id \in 1..MaxNews /\ n.id \in 1..MaxNews /\ basis[m.version] \in 0..MaxNews
    <3>1. m \in News /\ n \in News /\ basis \in [Versions -> 0..MaxNews]
      BY DEF TypeOK
    <3> QED
      BY <2>3, <3>1 DEF News
  <2>5. CASE m.version = n.version
    BY <2>1, <2>2, <2>3, <2>4, <2>5
  <2>6. CASE m.version # n.version
    BY <2>1, <2>3, <2>6
  <2> QED
    BY <2>5, <2>6
<1> QED
  BY <1>1, <1>2

\* Every stored status keeps a source.
LEMMA BasisStays ==
  ASSUME TypeOK, BasisOK, sent \subseteq sent',
         UNCHANGED <<definitions, basis, regressed>> \/ Adopts
  PROVE  BasisOK'
<1> SUFFICES ASSUME NEW v \in Versions, basis'[v] > 0
             PROVE  \E n \in sent' : From(v, n)'
  BY DEF BasisOK
<1>1. CASE basis'[v] = basis[v] /\ definitions'[v] = definitions[v]
  <2>1. PICK n \in sent : From(v, n)
    BY <1>1 DEF BasisOK
  <2>2. From(v, n)'
    BY <1>1, <2>1 DEF From
  <2> QED
    BY <2>2
<1>2. ASSUME NEW n \in sent, n.version = v, basis'[v] = n.id,
             coerceStatus(definitions'[v]) = coerceStatus(n.status)
      PROVE  From(v, n)'
  BY <1>2 DEF From, coerceStatus
<1> QED
  BY <1>1, <1>2, AdoptEffect

---------------------------------------------------------------------------
(* The numbers of the news *)

\* What the broker announces is newer than all that was announced.
LEMMA BrokerNumbers ==
  ASSUME IInv, NumbersOK, Broker
  PROVE  NumbersOK' /\ sent \subseteq sent'
<1>t. TypeOK /\ IsFiniteSet(sent) /\ broker \in NewsOfVersions
  BY DEF IInv, TypeOK
<1> DEFINE k == Cardinality(sent)
<1>1. k \in Nat
  BY <1>t, FS_CardinalityType
<1>2. \A n \in sent : n.id \in Nat /\ n.id <= k
  <2>1. \A n \in sent : n.id \in 1..MaxNews
    BY <1>t DEF TypeOK, News
  <2> QED
    BY <2>1 DEF NumbersOK
<1>3. PICK n : /\ n.id = k + 1 /\ sent' = sent \cup {n}
               /\ \/ ~Proper(n) /\ broker' = broker
                  \/ Proper(n) /\ broker' = [broker EXCEPT ![n.version] = n]
  <2>1. ASSUME NEW v \in Versions, NEW s \in Statuses, BrokerChange(v, s)
        PROVE  \E n : /\ n.id = k + 1 /\ sent' = sent \cup {n}
                      /\ Proper(n) /\ broker' = [broker EXCEPT ![n.version] = n]
    <3> DEFINE n == [id |-> Cardinality(sent) + 1, version |-> v, status |-> s]
    <3>1. sent' = sent \cup {n} /\ broker' = [broker EXCEPT ![v] = n]
      BY <2>1 DEF BrokerChange
    <3>2. n.id = k + 1 /\ n.version = v /\ Proper(n)
      BY DEF Proper
    <3> HIDE DEF n
    <3> QED
      BY <3>1, <3>2
  <2>2. CASE MalformedNews
    <3> DEFINE n == [id |-> Cardinality(sent) + 1, version |-> NoVersion, status |-> "active"]
    <3>1. sent' = sent \cup {n} /\ broker' = broker
      BY <2>2 DEF MalformedNews
    <3>2. n.id = k + 1 /\ ~Proper(n)
      BY DEF Proper
    <3> HIDE DEF n
    <3> QED
      BY <3>1, <3>2
  <2> QED
    BY <2>1, <2>2 DEF Broker
<1>4. n \notin sent /\ Cardinality(sent') = k + 1
  <2>1. n \notin sent
    BY <1>1, <1>2, <1>3
  <2> QED
    BY <1>t, <1>3, <2>1, FS_AddElement
<1> HIDE DEF k
<1>5. \A m \in sent' : m.id <= Cardinality(sent')
  BY <1>1, <1>2, <1>3, <1>4
<1>6. \A l, m \in sent' : l.id = m.id => l = m
  <2>1. \A m \in sent : m.id # n.id
    BY <1>1, <1>2, <1>3
  <2> QED
    BY <1>3, <2>1 DEF NumbersOK
<1>7. ASSUME NEW m \in sent', Proper(m)
      PROVE  broker'[m.version] \in sent' /\ m.id <= broker'[m.version].id
  <2>1. CASE broker'[m.version] = n
    BY <1>1, <1>2, <1>3, <2>1
  <2>2. CASE broker'[m.version] # n
    <3>1. m.version \in Versions /\ broker \in [Versions -> sent \cup {NoNews(v) : v \in Versions}]
      BY <1>t, <1>7 DEF Proper, NewsOfVersions
    <3>2. m \in sent /\ broker'[m.version] = broker[m.version]
      BY <1>3, <1>7, <2>2, <3>1
    <3> QED
      BY <1>3, <1>7, <3>2 DEF NumbersOK
  <2> QED
    BY <2>1, <2>2
<1> QED
  BY <1>3, <1>5, <1>6, <1>7 DEF NumbersOK, Proper

---------------------------------------------------------------------------
(* The records are kept *)

\* A message an instance has written, or goes on with, is the one at hand.
LEMMA AtHand ==
  ASSUME IInv, NEW i \in Instances, Acts(i), batch'[i] # <<>>,
         pc'[i] \in {"allowlist", "replace", "delete"}
  PROVE  /\ batch'[i] = batch[i]
         /\ IngestMessage(i) \/ pc[i] \in {"allowlist", "replace"}
<1>t. /\ pc \in [Instances -> {"down", "statuses", "pull", "fetched", "poll",
                               "ingest", "allowlist", "replace", "delete"}]
      /\ batch \in [Instances -> Seq(sent)]
  BY DEF IInv, TypeOK
<1>i. pc[i] \in {"down", "statuses", "pull", "fetched", "poll"} => batch[i] = <<>>
  BY DEF IInv, InstanceOK
<1>1. CASE IngestMessage(i) \/ BeginReplace(i) \/ CommitReplace(i)
  BY <1>1 DEF IngestMessage, BeginReplace, CommitReplace, working
<1>2. CASE \E v \in Versions : SkipVersion(i, v) \/ ChangeStatus(i, v) \/ fetchVersion(i, v)
  BY <1>t, <1>i, <1>2 DEF SkipVersion, ChangeStatus, fetchVersion, working
<1>3. CASE fetchAllGrants(i) \/ getDefinitionStatuses(i) \/ fetchLatestActiveVersion(i)
  BY <1>t, <1>i, <1>3 DEF fetchAllGrants, getDefinitionStatuses, fetchLatestActiveVersion, working
<1>4. CASE IngestFetched(i) \/ VersionFails(i)
  BY <1>t, <1>4 DEF IngestFetched, VersionFails
<1>5. CASE NothingActive(i) \/ NoLatestActive(i) \/ PullFails(i) \/ Stop(i)
  BY <1>t, <1>5 DEF NothingActive, NoLatestActive, PullFails, Stop
<1>6. CASE ReceiveMessages(i)
  BY <1>t, <1>6 DEF ReceiveMessages
<1>7. CASE DeleteMessage(i) \/ MessageFails(i)
  BY <1>t, <1>7 DEF DeleteMessage, MessageFails, NextMessage
<1> QED
  BY <1>1, <1>2, <1>3, <1>4, <1>5, <1>6, <1>7 DEF Acts, Pull, Handle, Replace, Fault

\* The store has taken the message that an instance has just ingested.
LEMMA IngestedIsRecorded ==
  ASSUME IInv, NEW i \in Instances, IngestMessage(i)
  PROVE  Recorded(Head(batch[i]))'
<1> DEFINE n == Head(batch[i])
<1>1. Proper(n) /\ ingestVersion(n) /\ n \in sent /\ UNCHANGED batch
  BY MessagesAtHand DEF IngestMessage, IInv, InstanceOK, working
<1>2. n.id \in Nat /\ basis \in [Versions -> 0..MaxNews]
  BY <1>1 DEF IInv, TypeOK, News
<1> HIDE DEF n
<1>3. n.version \in WithDefinition => basis'[n.version] = n.id
  BY <1>1, <1>2 DEF ingestVersion, upsertDefinition, SetStatus
<1> QED
  BY <1>1, <1>2, <1>3 DEF Recorded, n

\* An instance keeps the records.
LEMMA RecordsStay ==
  ASSUME IInv, NewsInv, NEW i \in Instances, Acts(i)
  PROVE  RecordsOK'
<1>t. TypeOK /\ \A j \in Instances : batch[j] # <<>> => Head(batch[j]) \in sent
  BY MessagesAtHand DEF IInv
<1>1. /\ sent' = sent
      /\ \A j \in Instances \ {i} : pc'[j] = pc[j] /\ batch'[j] = batch[j]
      /\ queue' = queue \/ (pc[i] = "delete" /\ queue' = queue \ {Head(batch[i])})
  BY InstanceSteps DEF Steps, Moves
<1>2. UNCHANGED <<definitions, basis, regressed>> \/ Adopts
  BY StatusSteps
<1>3. \A m \in sent : Recorded(m) => Recorded(m)'
  BY <1>t, <1>2, RecordedStays
<1>4. /\ \A n \in sent \ queue : Recorded(n)
      /\ \A j \in Instances :
           batch[j] # <<>> /\ pc[j] \in {"allowlist", "replace", "delete"} =>
             Recorded(Head(batch[j]))
  BY DEF NewsInv, RecordsOK
<1>5. ASSUME NEW n \in sent' \ queue' PROVE Recorded(n)'
  <2>1. CASE n \in sent \ queue
    BY <1>3, <1>4, <2>1
  <2>2. CASE n \in queue
    <3>1. pc[i] = "delete" /\ n = Head(batch[i])
      BY <1>1, <2>2
    <3>2. batch[i] # <<>>
      BY <3>1 DEF IInv, InstanceOK
    <3> QED
      BY <1>t, <1>3, <1>4, <3>1, <3>2
  <2> QED
    BY <1>1, <2>1, <2>2
<1>6. ASSUME NEW j \in Instances, batch'[j] # <<>>,
             pc'[j] \in {"allowlist", "replace", "delete"}
      PROVE  Recorded(Head(batch[j]))'
  <2>1. CASE j # i
    <3>1. /\ Recorded(Head(batch[j])) /\ Head(batch[j]) \in sent
          /\ batch'[j] = batch[j]
      BY <1>t, <1>1, <1>4, <1>6, <2>1
    <3> QED
      BY <1>3, <3>1 DEF Recorded
  <2>2. CASE j = i /\ ~IngestMessage(i)
    <3>1. batch'[i] = batch[i] /\ pc[i] \in {"allowlist", "replace"}
      BY <1>6, <2>2, AtHand
    <3>2. Recorded(Head(batch[i])) /\ Head(batch[i]) \in sent
      BY <1>t, <1>4, <1>6, <2>2, <3>1
    <3> QED
      BY <1>3, <2>2, <3>1, <3>2 DEF Recorded
  <2>3. CASE j = i /\ IngestMessage(i)
    BY <2>3, IngestedIsRecorded
  <2> QED
    BY <2>1, <2>2, <2>3
<1> QED
  BY <1>5, <1>6 DEF RecordsOK

\* Every step keeps the numbers, the sources and the records.
LEMMA NewsNextKeeps == IInv /\ NewsInv /\ [Next]_vars => NewsInv'
<1> SUFFICES ASSUME IInv, NewsInv, [Next]_vars PROVE NewsInv'
  OBVIOUS
<1>t. TypeOK /\ NumbersOK /\ BasisOK /\ RecordsOK
  BY DEF IInv, NewsInv
<1>1. CASE Broker
  <2>1. NumbersOK' /\ sent \subseteq sent'
    BY <1>t, <1>1, BrokerNumbers
  <2>2. /\ UNCHANGED <<store, pc, pulling, working>>
        /\ \E n \in News : sent' = sent \cup {n} /\ queue' = queue \cup {n}
    BY <1>1, BrokerKeepsTypes
  <2>3. UNCHANGED <<definitions, basis, regressed, pc, batch>>
    BY <2>2 DEF store, working
  <2>4. BasisOK'
    BY <1>t, <2>1, <2>3, BasisStays
  <2>5. RecordsOK'
    <3>1. sent' \ queue' \subseteq sent \ queue
      BY <2>2
    <3>2. /\ \A n \in sent \ queue : Recorded(n)
          /\ \A i \in Instances :
               batch[i] # <<>> /\ pc[i] \in {"allowlist", "replace", "delete"} =>
                 Recorded(Head(batch[i]))
      BY <1>t DEF RecordsOK
    <3> QED
      BY <2>3, <3>1, <3>2 DEF RecordsOK, Recorded
  <2> QED
    BY <2>1, <2>4, <2>5 DEF NewsInv
<1>2. ASSUME NEW i \in Instances, Acts(i) PROVE NewsInv'
  <2>1. UNCHANGED <<broker, sent>>
    BY <1>2, InstanceSteps DEF Steps, Moves
  <2>2. NumbersOK'
    BY <1>t, <2>1 DEF NumbersOK, Proper
  <2>3. BasisOK'
    BY <1>t, <1>2, <2>1, StatusSteps, BasisStays
  <2>4. RecordsOK'
    BY <1>2, RecordsStay
  <2> QED
    BY <2>2, <2>3, <2>4 DEF NewsInv
<1>3. CASE UNCHANGED vars
  <2>1. UNCHANGED <<broker, sent, queue, definitions, basis, regressed, pc, batch>>
    BY <1>3 DEF vars, outside, store, working
  <2> QED
    BY <1>t, <2>1 DEF NewsInv, NumbersOK, BasisOK, RecordsOK, Recorded, From, Proper
<1> QED
  BY <1>1, <1>2, <1>3 DEF Next, Acts

\* Nothing has been announced or stored at first.
LEMMA NewsInitEstablishes == Init => NewsInv
BY DEF Init, NewsInv, NumbersOK, BasisOK, RecordsOK

\* The store follows the numbers of the news in every behaviour.
THEOREM NewsInvariant == Spec => []NewsInv
BY NewsInitEstablishes, NewsNextKeeps, Invariant, PTL DEF Spec

\* A version whose news was all consumed is stored as the broker last said,
\* unless older news has been written after newer (start-server.js: the
\* consumer reconciles the database).
THEOREM ConsumedVersionsAreReconciled == Spec => []ConsumedMeansReconciled
<1>1. ASSUME IInv, NewsInv PROVE ConsumedMeansReconciled
  <2> SUFFICES ASSUME NEW v \in WithDefinition, broker[v].id > 0, v \notin regressed,
                      \A n \in queue : n.version # v
               PROVE  Reconciled(v)
    BY DEF ConsumedMeansReconciled
  <2>1. broker[v] \in sent /\ broker[v].version = v
    BY <1>1, NewsIsSentOrNone DEF IInv, TypeOK
  <2>2. broker[v].id <= basis[v]
    BY <1>1, <2>1 DEF NewsInv, RecordsOK, Recorded
  <2>3. basis[v] \in 0..MaxNews /\ \A n \in sent : n.id \in 1..MaxNews
    BY <1>1 DEF IInv, TypeOK, News
  <2>4. basis[v] > 0
    BY <2>1, <2>2, <2>3
  <2>5. PICK n \in sent : From(v, n)
    BY <1>1, <2>4 DEF NewsInv, BasisOK
  <2>6. n.id <= broker[v].id
    BY <1>1, <2>5 DEF NewsInv, NumbersOK, From, Proper
  <2>7. n.id = broker[v].id
    BY <2>1, <2>2, <2>3, <2>5, <2>6 DEF From
  <2>8. n = broker[v]
    BY <1>1, <2>1, <2>5, <2>7 DEF NewsInv, NumbersOK
  <2> QED
    BY <2>5, <2>8 DEF From, Reconciled
<1> QED
  BY <1>1, Invariant, NewsInvariant, PTL

---------------------------------------------------------------------------
(* Undisturbed pulls *)

\* The pull of instance i sees nothing of a step that changes neither what
\* it has at hand nor what it reads.
Unseen(i) ==
  /\ UNCHANGED <<broker, definitions, lists>>
  /\ pc'[i] = pc[i] /\ batch'[i] = batch[i] /\ full'[i] = full[i]
  /\ summary'[i] = summary[i] /\ existing'[i] = existing[i]
  /\ todo'[i] = todo[i] /\ snapshot'[i] = snapshot[i]

LEMMA UnseenKeepsPull ==
  ASSUME NEW i, PullInv(i), Unseen(i)
  PROVE  PullInv(i)'
<1>1. \A v : Settled(v) => Settled(v)'
  BY DEF Unseen, Settled, Reconciled
<1>2. ActiveIn(broker)' = ActiveIn(broker)
  BY DEF Unseen, ActiveIn
<1> QED
  BY <1>1, <1>2 DEF PullInv, Unseen

\* What another instance does to the store disturbs the pull, and the rest of
\* what it does goes unseen.
LEMMA OthersUnseen ==
  ASSUME IInv, NEW j \in Instances, Acts(j), NEW i \in undisturbed' \ {j}
  PROVE  i \in undisturbed /\ Unseen(i)
<1>t. /\ undisturbed \subseteq Instances
      /\ existing \in [Instances -> [Versions -> Stored]]
  BY DEF IInv, TypeOK
<1>1. i \in undisturbed /\ UNCHANGED <<definitions, lists>>
  <2>1. ~IngestFetched(j) /\ ~IngestMessage(j) /\ ~CommitReplace(j)
        /\ ~\E v \in Versions : ChangeStatus(j, v)
    BY DEF IngestFetched, IngestMessage, CommitReplace, ChangeStatus, Disturbing
  <2> QED
    BY <2>1 DEF Acts, Pull, Handle, Replace, Fault, SkipVersion, fetchVersion, fetchAllGrants,
         getDefinitionStatuses, VersionFails, NothingActive, fetchLatestActiveVersion,
         NoLatestActive, PullFails, ReceiveMessages, DeleteMessage, MessageFails, Stop,
         BeginReplace, store
<1>2. existing'[i] = existing[i]
  <2>1. existing' = existing \/ \E e : existing' = [existing EXCEPT ![j] = e]
    BY DEF Acts, Pull, Handle, Replace, Fault, SkipVersion, ChangeStatus, fetchVersion,
         fetchAllGrants, getDefinitionStatuses, IngestFetched, VersionFails, NothingActive,
         fetchLatestActiveVersion, NoLatestActive, PullFails, ReceiveMessages, IngestMessage,
         DeleteMessage, MessageFails, Stop, BeginReplace, CommitReplace, Considered, PullOver,
         pulling
  <2> QED
    BY <1>t, <1>1, <2>1
<1>3. Moves(j)
  BY InstanceSteps DEF Steps
<1> QED
  BY <1>t, <1>1, <1>2, <1>3 DEF Moves, Unseen

\* A pull begins undisturbed, with what the broker says.
LEMMA BeginKeepsPull ==
  ASSUME IInv, NEW i \in Instances, fetchAllGrants(i)
  PROVE  PullInv(i)'
<1>1. pc \in [Instances -> {"down", "statuses", "pull", "fetched", "poll",
                           "ingest", "allowlist", "replace", "delete"}]
      /\ summary \in [Instances -> NewsOfVersions]
  BY DEF IInv, TypeOK
<1>2. pc[i] = "down" /\ batch[i] = <<>>
  BY DEF fetchAllGrants, IInv, InstanceOK
<1>3. pc'[i] = "statuses" /\ summary'[i] = broker /\ broker' = broker /\ batch' = batch
  BY <1>1 DEF fetchAllGrants, working, outside
<1> QED
  BY <1>2, <1>3 DEF PullInv

\* Then it reads what is stored; from a secondary that lags, it would be
\* undisturbed no more.
LEMMA StatusesKeepPull ==
  ASSUME IInv, NEW i \in Instances, PullInv(i), getDefinitionStatuses(i), i \in undisturbed'
  PROVE  PullInv(i)'
<1>t. TypeOK
  BY DEF IInv
<1>e. existing' = [existing EXCEPT ![i] = definitions]
  BY DEF getDefinitionStatuses
<1>1. /\ UNCHANGED <<broker, definitions, lists>>
      /\ pc[i] = "statuses" /\ pc'[i] = "pull" /\ batch'[i] = batch[i]
      /\ summary'[i] = summary[i] /\ existing'[i] = definitions
      /\ todo'[i] = {v \in Versions : summary[i][v].id > 0}
  BY <1>t, <1>e DEF getDefinitionStatuses, TypeOK, outside, store, working
<1>2. summary[i] = broker /\ batch[i] = <<>>
  BY <1>1 DEF PullInv
<1>3. ASSUME NEW v \in Versions, v \notin todo'[i]
      PROVE  Settled(v)'
  BY <1>1, <1>2, <1>3 DEF Settled
<1> QED
  BY <1>1, <1>2, <1>3 DEF PullInv

\* A version that is skipped has the broker's status, one whose status is
\* changed gets it, and one that is fetched is at hand in full (pullVersion).
LEMMA ConsiderKeepsPull ==
  ASSUME IInv, NEW i \in Instances, PullInv(i), NEW v \in Versions,
         SkipVersion(i, v) \/ ChangeStatus(i, v) \/ fetchVersion(i, v)
  PROVE  PullInv(i)'
<1>t. /\ TypeOK /\ broker \in NewsOfVersions
      /\ pc \in [Instances -> {"down", "statuses", "pull", "fetched", "poll",
                               "ingest", "allowlist", "replace", "delete"}]
      /\ existing \in [Instances -> [Versions -> Stored]]
      /\ todo \in [Instances -> SUBSET Versions]
      /\ full \in [Instances -> sent \cup {NoNews(NoVersion)}]
      /\ definitions \in [Versions -> Stored]
  BY DEF IInv, TypeOK
<1>1. /\ pc[i] = "pull" /\ v \in todo[i]
      /\ UNCHANGED <<broker, lists, summary, batch, snapshot>> /\ Considered(i, v)
  BY DEF SkipVersion, ChangeStatus, fetchVersion, outside, store, working, updateDefinitionStatus,
         SetStatus
<1>2. /\ batch[i] = <<>> /\ summary[i] = broker /\ existing[i][v] = definitions[v]
      /\ \A w \in Versions :
           \/ w \in todo[i] /\ existing[i][w] = definitions[w]
           \/ w \notin todo[i] /\ Settled(w)
  BY <1>1 DEF PullInv
<1>3. /\ todo'[i] = todo[i] \ {v}
      /\ \A w \in Versions \ {v} : existing'[i][w] = existing[i][w]
  BY <1>1, <1>t DEF Considered
<1>4. broker[v].version = v
  BY <1>t DEF NewsOfVersions
<1>5. \A w \in Versions \ {v} : definitions'[w] = definitions[w]
  <2>1. CASE ChangeStatus(i, v)
    <3>1. definitions' = [definitions EXCEPT ![v] = broker[v].status]
      BY <1>2, <1>4, <2>1 DEF ChangeStatus, updateDefinitionStatus, SetStatus
    <3> QED
      BY <1>t, <3>1
  <2>2. CASE SkipVersion(i, v) \/ fetchVersion(i, v)
    BY <2>2 DEF SkipVersion, fetchVersion, store
  <2> QED
    BY <2>1, <2>2
<1>6. \A w \in Versions \ {v} : Settled(w) => Settled(w)'
  BY <1>1, <1>5 DEF Settled, Reconciled
<1>7. \A w \in Versions \ {v} :
        \/ w \in todo'[i] /\ existing'[i][w] = definitions'[w]
        \/ w \notin todo'[i] /\ Settled(w)'
  BY <1>2, <1>3, <1>5, <1>6
<1>8. CASE fetchVersion(i, v)
  <2>1. pc'[i] = "fetched" /\ full'[i] = broker[v]
    BY <1>t, <1>8 DEF fetchVersion
  <2> QED
    BY <1>1, <1>2, <1>3, <1>4, <1>7, <2>1 DEF PullInv
<1>9. CASE SkipVersion(i, v) \/ ChangeStatus(i, v)
  <2>1. pc'[i] = "pull"
    BY <1>1, <1>9 DEF SkipVersion, ChangeStatus
  <2>2. definitions'[v] = broker[v].status
    <3>1. CASE SkipVersion(i, v)
      BY <1>2, <3>1 DEF SkipVersion, store
    <3>2. CASE ChangeStatus(i, v)
      <4>1. definitions' = [definitions EXCEPT ![v] = broker[v].status]
        BY <1>2, <1>4, <3>2 DEF ChangeStatus, updateDefinitionStatus, SetStatus
      <4> QED
        BY <1>t, <4>1
    <3> QED
      BY <1>9, <3>1, <3>2
  <2>3. Settled(v)'
    BY <1>1, <2>2 DEF Settled, Reconciled
  <2> QED
    BY <1>1, <1>2, <1>3, <1>7, <2>1, <2>3 DEF PullInv
<1> QED
  BY <1>8, <1>9

\* What was fetched is stored (ingestVersion).
LEMMA FetchedKeepsPull ==
  ASSUME IInv, NEW i \in Instances, PullInv(i), IngestFetched(i)
  PROVE  PullInv(i)'
<1>t. /\ TypeOK /\ InstanceOK(i)
      /\ pc \in [Instances -> {"down", "statuses", "pull", "fetched", "poll",
                               "ingest", "allowlist", "replace", "delete"}]
      /\ definitions \in [Versions -> Stored]
  BY DEF IInv, TypeOK
<1>1. /\ pc[i] = "fetched" /\ pc'[i] = "pull" /\ UNCHANGED <<broker, batch, summary, existing, todo>>
      /\ ingestVersion(full[i])
  BY <1>t DEF IngestFetched, outside, pulling
<1> PICK v \in Versions : v = full[i].version
  BY <1>t, <1>1 DEF InstanceOK, Proper
<1>2. batch[i] = <<>> /\ summary[i] = broker /\ v \notin todo[i] /\ full[i] = broker[v]
  BY <1>1 DEF PullInv
<1>3. ASSUME NEW w \in Versions, full[i] = broker[w] PROVE w = v
  BY <1>t, <1>3 DEF TypeOK, NewsOfVersions
<1>4. \A w \in Versions \ {v} :
        \/ w \in todo[i] /\ existing[i][w] = definitions[w]
        \/ w \notin todo[i] /\ Settled(w)
  BY <1>1, <1>3 DEF PullInv
<1>5. \A w \in Versions \ {v} : definitions'[w] = definitions[w]
  BY <1>t, <1>1 DEF ingestVersion, upsertDefinition, SetStatus, store
<1>6. Settled(v)'
  <2>1. v \in WithDefinition => definitions'[v] = coerceStatus(broker[v].status)
    BY <1>t, <1>1, <1>2 DEF ingestVersion, upsertDefinition, SetStatus
  <2>2. coerceStatus(coerceStatus(broker[v].status)) = coerceStatus(broker[v].status)
    BY CoercedTwice
  <2>3. v \in WithDefinition => coerceStatus(definitions'[v]) = coerceStatus(broker'[v].status)
    BY <1>1, <2>1, <2>2
  <2>4. v \in WithDefinition => Reconciled(v)'
    BY <2>3 DEF Reconciled, coerceStatus
  <2> QED
    BY <2>4 DEF Settled
<1>7. \A w \in Versions \ {v} : Settled(w) => Settled(w)'
  BY <1>1, <1>5 DEF Settled, Reconciled
<1>8. \A w \in Versions :
        \/ w \in todo'[i] /\ existing'[i][w] = definitions'[w]
        \/ w \notin todo'[i] /\ Settled(w)'
  BY <1>1, <1>2, <1>4, <1>5, <1>6, <1>7
<1> QED
  BY <1>1, <1>2, <1>8 DEF PullInv

\* The list to come is that of the latest active version, and the transaction
\* deletes all that is stored.
LEMMA ListKeepsPull ==
  ASSUME IInv, NEW i \in Instances, PullInv(i),
         fetchLatestActiveVersion(i) \/ BeginReplace(i)
  PROVE  PullInv(i)'
<1>t. /\ pc \in [Instances -> {"down", "statuses", "pull", "fetched", "poll",
                               "ingest", "allowlist", "replace", "delete"}]
      /\ full \in [Instances -> sent \cup {NoNews(NoVersion)}]
      /\ snapshot \in [Instances -> SUBSET [version : Versions, by : Instances]]
  BY DEF IInv, TypeOK
<1>1. UNCHANGED <<broker, definitions, lists, batch>>
  BY DEF fetchLatestActiveVersion, BeginReplace, outside, store
<1>2. \A v : Settled(v) => Settled(v)'
  BY <1>1 DEF Settled, Reconciled
<1>3. ActiveIn(broker)' = ActiveIn(broker)
  BY <1>1 DEF ActiveIn
<1>4. CASE fetchLatestActiveVersion(i)
  <2>1. pc[i] = "pull" /\ todo[i] = {} /\ pc'[i] = "allowlist"
    BY <1>t, <1>4 DEF fetchLatestActiveVersion
  <2>2. \E v \in ActiveIn(broker) :
          full'[i] = broker[v] /\ \A w \in ActiveIn(broker) : w <= v
    BY <1>t, <1>4 DEF fetchLatestActiveVersion
  <2>3. batch[i] = <<>> /\ \A v \in Versions : Settled(v)
    BY <2>1 DEF PullInv
  <2> QED
    BY <1>1, <1>2, <1>3, <2>1, <2>2, <2>3 DEF PullInv
<1>5. CASE BeginReplace(i)
  <2>1. pc[i] = "allowlist" /\ pc'[i] = "replace" /\ snapshot'[i] = lists /\ full' = full
    BY <1>t, <1>5 DEF BeginReplace
  <2> QED
    BY <1>1, <1>2, <1>3, <2>1 DEF PullInv
<1> QED
  BY <1>4, <1>5

\* Whatever ends a pull ends the history of it.
LEMMA OwnStepsKeepPull ==
  ASSUME IInv, NEW i \in Instances, Acts(i), i \in undisturbed => PullInv(i),
         i \in undisturbed'
  PROVE  PullInv(i)'
<1>1. CASE fetchAllGrants(i)
  BY <1>1, BeginKeepsPull
<1>2. ASSUME ~fetchAllGrants(i) PROVE i \in undisturbed
  BY <1>2 DEF Acts, Pull, Handle, Replace, Fault, SkipVersion, ChangeStatus, fetchVersion,
       getDefinitionStatuses, IngestFetched, VersionFails, NothingActive, Disturbing,
       fetchLatestActiveVersion, NoLatestActive, PullFails, ReceiveMessages, IngestMessage,
       DeleteMessage, MessageFails, Stop, BeginReplace, CommitReplace
<1>3. CASE i \in undisturbed /\ ~fetchAllGrants(i)
  <2>1. PullInv(i)
    BY <1>3
  <2>2. CASE \E v \in Versions : SkipVersion(i, v) \/ ChangeStatus(i, v) \/ fetchVersion(i, v)
    BY <2>1, <2>2, ConsiderKeepsPull
  <2>3. CASE getDefinitionStatuses(i)
    BY <2>1, <2>3, StatusesKeepPull
  <2>4. CASE IngestFetched(i)
    BY <2>1, <2>4, FetchedKeepsPull
  <2>5. CASE fetchLatestActiveVersion(i) \/ BeginReplace(i)
    BY <2>1, <2>5, ListKeepsPull
  <2>6. ~ReceiveMessages(i) /\ ~IngestMessage(i) /\ ~DeleteMessage(i) /\ ~MessageFails(i)
    BY <2>1 DEF PullInv, ReceiveMessages, IngestMessage, DeleteMessage, MessageFails
  <2>7. ~NothingActive(i) /\ ~NoLatestActive(i) /\ ~PullFails(i) /\ ~Stop(i) /\ ~VersionFails(i)
        /\ ~CommitReplace(i)
    BY DEF NothingActive, NoLatestActive, PullFails, Stop, VersionFails, CommitReplace
  <2> QED
    BY <1>3, <2>2, <2>3, <2>4, <2>5, <2>6, <2>7 DEF Acts, Pull, Handle, Replace, Fault
<1> QED
  BY <1>1, <1>2, <1>3

\* Every step keeps what is known of undisturbed pulls.
LEMMA UndisturbedNextKeeps == IInv /\ UndisturbedInv /\ [Next]_vars => UndisturbedInv'
<1> SUFFICES ASSUME IInv, UndisturbedInv, [Next]_vars, NEW i \in undisturbed'
             PROVE  PullInv(i)'
  BY DEF UndisturbedInv
<1>1. CASE Broker
  <2>1. UNCHANGED <<broker, definitions, lists, pc, batch, full, summary, existing, todo,
                    snapshot, undisturbed>>
    BY <1>1 DEF Broker, BrokerChange, MalformedNews, store, pulling, working
  <2>2. PullInv(i) /\ Unseen(i)
    BY <2>1 DEF UndisturbedInv, Unseen
  <2> QED
    BY <2>2, UnseenKeepsPull
<1>2. ASSUME NEW j \in Instances, Acts(j) PROVE PullInv(i)'
  <2>1. CASE i = j
    BY <1>2, <2>1, OwnStepsKeepPull DEF UndisturbedInv
  <2>2. CASE i # j
    <3>1. i \in undisturbed /\ Unseen(i)
      BY <1>2, <2>2, OthersUnseen
    <3> QED
      BY <3>1, UnseenKeepsPull DEF UndisturbedInv
  <2> QED
    BY <2>1, <2>2
<1>3. CASE UNCHANGED vars
  <2>1. undisturbed' = undisturbed /\ Unseen(i)
    BY <1>3 DEF vars, outside, store, pulling, working, Unseen
  <2> QED
    BY <2>1, UnseenKeepsPull DEF UndisturbedInv
<1> QED
  BY <1>1, <1>2, <1>3 DEF Next, Acts

\* An undisturbed pull settles version after version, in every behaviour.
THEOREM UndisturbedInvariant == Spec => []UndisturbedInv
<1>1. Init => UndisturbedInv
  BY DEF Init, UndisturbedInv
<1> QED
  BY <1>1, UndisturbedNextKeeps, Invariant, PTL DEF Spec

\* The largest of a set of versions is at least each of them.
LEMMA LargestVersion ==
  ASSUME NEW S \in SUBSET Versions, NEW v \in S, \A w \in S : w <= v
  PROVE  Max(S) = v
<1>1. \A w \in S : w \in Nat
  OBVIOUS
<1>2. \E x \in S : \A y \in S : x >= y
  BY <1>1
<1>3. PICK m : m = Max(S)
  OBVIOUS
<1>4. m \in S /\ m >= v
  BY <1>2, <1>3 DEF Max
<1>5. m <= v /\ m \in Nat /\ v \in Nat
  BY <1>1, <1>4
<1> QED
  BY <1>3, <1>4, <1>5

\* A start that nobody disturbs, in which nothing fails and that reads its
\* statuses up to date ends with the broker's statuses, and with the list of
\* the latest active version alone (runStartupPull).
THEOREM UndisturbedPullReconciles == Spec => PullReconciles
<1> DEFINE A(i) ==
      NothingActive(i) \/ (CommitReplace(i) /\ batch[i] = <<>>) =>
        /\ \A v \in WithDefinition : broker[v].id > 0 => Reconciled(v)'
        /\ ActiveIn(broker) # {} =>
             {l.version : l \in lists'} = {Max(ActiveIn(broker))} \cap WithAllowlist
<1>1. ASSUME IInv, UndisturbedInv, NEW i \in undisturbed, NothingActive(i)
      PROVE  A(i)
  <2>1. PullInv(i) /\ pc[i] = "pull" /\ todo[i] = {} /\ ActiveIn(summary[i]) = {}
    BY <1>1 DEF UndisturbedInv, NothingActive
  <2>2. UNCHANGED <<broker, definitions>>
    BY <1>1 DEF NothingActive, outside, store
  <2>3. ActiveIn(broker) = {} /\ \A v \in Versions : Settled(v)
    BY <2>1 DEF PullInv
  <2> QED
    BY <2>2, <2>3 DEF Settled, Reconciled
<1>2. ASSUME IInv, UndisturbedInv, NEW i \in undisturbed, CommitReplace(i), batch[i] = <<>>
      PROVE  A(i)
  <2>1. /\ PullInv(i) /\ pc[i] = "replace" /\ UNCHANGED <<broker, definitions>>
        /\ lists' = (lists \ snapshot[i]) \cup
                    [version : {Target(i)} \cap WithAllowlist, by : {i}]
    BY <1>2 DEF UndisturbedInv, CommitReplace, outside
  <2>2. PICK v \in ActiveIn(broker) :
          full[i] = broker[v] /\ \A w \in ActiveIn(broker) : w <= v
    BY <2>1 DEF PullInv
  <2>3. v \in Versions /\ broker[v].version = v
    BY <1>2, <2>2 DEF IInv, TypeOK, NewsOfVersions, ActiveIn
  <2>4. Target(i) = v /\ v = Max(ActiveIn(broker))
    <3>1. ActiveIn(broker) \in SUBSET Versions
      BY DEF ActiveIn
    <3>2. Max(ActiveIn(broker)) = v
      BY <2>2, <3>1, LargestVersion
    <3> QED
      BY <1>2, <2>2, <2>3, <3>2 DEF Target
  <2>5. lists' = [version : {v} \cap WithAllowlist, by : {i}]
    BY <2>1, <2>4 DEF PullInv
  <2>6. {l.version : l \in lists'} = {v} \cap WithAllowlist
    <3>1. CASE v \in WithAllowlist
      <4>1. lists' = [version : {v}, by : {i}]
        BY <2>5, <3>1
      <4>2. \A l \in lists' : l.version = v
        BY <4>1
      <4>3. [version |-> v, by |-> i] \in lists'
        BY <4>1
      <4> QED
        BY <3>1, <4>2, <4>3
    <3>2. CASE v \notin WithAllowlist
      BY <2>5, <3>2
    <3> QED
      BY <3>1, <3>2
  <2>7. \A w \in Versions : Settled(w)
    BY <2>1 DEF PullInv
  <2>8. \A w \in WithDefinition : broker[w].id > 0 => Reconciled(w)'
    BY <2>1, <2>7 DEF Settled, Reconciled
  <2> QED
    BY <2>4, <2>6, <2>8
<1>3. IInv /\ UndisturbedInv /\ [Next]_vars => [\A i \in undisturbed : A(i)]_vars
  BY <1>1, <1>2
<1> QED
  BY <1>3, Invariant, UndisturbedInvariant, PTL DEF Spec, PullReconciles

===========================================================================
