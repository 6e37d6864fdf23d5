------------------------ MODULE ConfigIngest_proof ------------------------
(***************************************************************************)
(* Proofs about ConfigIngest, for any number of instances, versions,       *)
(* messages per poll and announcements: nothing that was announced is      *)
(* lost, the stored list is one unless replacements have raced, and what   *)
(* is stored is what ConfigRegister promises.                              *)
(***************************************************************************)
EXTENDS ConfigIngest, FiniteSetTheorems, SequenceTheorems, TLAPS

USE IngestAssumption

---------------------------------------------------------------------------
(* The inductive invariant *)

\* News that has been acted upon.
Done(n) ==
  /\ Proper(n)
  /\ n.version \in WithDefinition => definitions[n.version] # Absent
  /\ n.status = "active" => n.version \in listed

\* The news whose allowlist an instance is replacing.
Current(i) == IF batch[i] = <<>> THEN full[i] ELSE Head(batch[i])

\* Where an instance is tells what it has at hand, and what of it is done.
InstanceOK(i) ==
  /\ pc[i] \in {"ingest", "delete"} => batch[i] # <<>>
  /\ pc[i] \in {"down", "statuses", "pull", "fetched", "poll"} => batch[i] = <<>>
  /\ \A v \in Versions : summary[i][v] \in sent => broker[v] \in sent
  /\ \A v \in todo[i] : summary[i][v] \in sent
  /\ pc[i] = "fetched" => full[i] \in sent /\ Proper(full[i])
  /\ pc[i] \in {"allowlist", "replace"} =>
       /\ Current(i) \in sent /\ Proper(Current(i)) /\ Current(i).status = "active"
       /\ batch[i] # <<>> /\ Current(i).version \in WithDefinition =>
            definitions[Current(i).version] # Absent
  /\ pc[i] = "delete" => Done(Head(batch[i]))

\* Before two replacements have raced, one transaction is open at most, and
\* nobody has changed the lists under it.
Transactions ==
  raced \/ /\ \A i, j \in Instances : pc[i] = "replace" /\ pc[j] = "replace" => i = j
           /\ \A i \in Instances : pc[i] = "replace" => snapshot[i] = lists
           /\ \A l, m \in lists : l.version = m.version

IInv ==
  /\ TypeOK
  /\ IsFiniteSet(sent)
  /\ \A i \in Instances : InstanceOK(i)
  /\ NotificationsAreNotLost
  /\ Transactions

\* Nothing has been announced, received or stored at first.
LEMMA InitEstablishes == Init => IInv
<1> SUFFICES ASSUME Init PROVE IInv
  OBVIOUS
<1> USE DEF Init
<1>1. TypeOK
  <2>1. [v \in Versions |-> NoNews(v)] \in NewsOfVersions
    BY DEF NewsOfVersions, NoNews
  <2>2. broker \in NewsOfVersions /\ summary \in [Instances -> NewsOfVersions]
    BY <2>1
  <2>3. batch \in [Instances -> Seq(sent)]
    OBVIOUS
  <2>4. basis \in [Versions -> 0..MaxNews]
    OBVIOUS
  <2> QED
    BY <2>2, <2>3, <2>4 DEF TypeOK, Stored
<1>2. IsFiniteSet(sent)
  BY FS_EmptySet
<1>3. \A i \in Instances : InstanceOK(i)
  BY DEF InstanceOK
<1>4. NotificationsAreNotLost
  BY DEF NotificationsAreNotLost
<1>5. Transactions
  BY DEF Transactions
<1> QED
  BY <1>1, <1>2, <1>3, <1>4, <1>5 DEF IInv

---------------------------------------------------------------------------
(* What only ever grows *)

Grows ==
  /\ sent \subseteq sent'
  /\ \A v \in Versions : definitions[v] # Absent => definitions'[v] # Absent
  /\ listed \subseteq listed'
  /\ \A v \in Versions : broker[v] \in sent => broker'[v] \in sent'

\* News of versions is either an announcement or none.
LEMMA NewsIsSentOrNone ==
  ASSUME TypeOK, NEW f \in NewsOfVersions, NEW v \in Versions
  PROVE  /\ f[v].version = v
         /\ f[v] \in sent \/ f[v] = NoNews(v)
         /\ f[v] \in sent <=> f[v].id > 0
         /\ f[v].status = "active" => f[v] \in sent
<1>1. f[v].version = v /\ f[v] \in sent \cup {NoNews(w) : w \in Versions}
  BY DEF NewsOfVersions
<1>2. f[v] \in sent => f[v].id > 0
  BY DEF TypeOK, News
<1>3. f[v] \notin sent => f[v] = NoNews(v)
  BY <1>1 DEF NoNews
<1>4. NoNews(v).id = 0 /\ NoNews(v).status = Absent
  BY DEF NoNews
<1> QED
  BY <1>1, <1>2, <1>3, <1>4

\* The store takes a status that some news has, and forgets nothing.
LEMMA StoreTakesNews ==
  ASSUME TypeOK, NEW n \in sent, Proper(n),
         SetStatus(n.version, n.status, n.id) \/ SetStatus(n.version, coerceStatus(n.status), n.id)
  PROVE  /\ definitions' \in [Versions -> Stored] /\ past' \subseteq [Versions -> Stored]
         /\ basis' \in [Versions -> 0..MaxNews]
         /\ regressed' \subseteq Versions
         /\ UNCHANGED <<lists, listed, raced>>
         /\ \A v \in Versions : definitions[v] # Absent => definitions'[v] # Absent
         /\ definitions'[n.version] # Absent
<1>1. n.version \in Versions /\ n.id \in 0..MaxNews /\ n.status \in Statuses
  BY DEF Proper, TypeOK, News
<1>2. coerceStatus(n.status) \in Stored \ {Absent} /\ n.status \in Stored \ {Absent}
  BY <1>1 DEF coerceStatus, Stored
<1>3. /\ \E s \in Stored \ {Absent} : definitions' = [definitions EXCEPT ![n.version] = s]
      /\ past' = past \cup {definitions'}
      /\ basis' = [basis EXCEPT ![n.version] = n.id]
      /\ regressed' \subseteq regressed \cup {n.version}
      /\ UNCHANGED <<lists, listed, raced>>
  BY <1>2 DEF SetStatus
<1>4. /\ definitions \in [Versions -> Stored] /\ past \subseteq [Versions -> Stored]
      /\ basis \in [Versions -> 0..MaxNews] /\ regressed \subseteq Versions
  BY DEF TypeOK
<1> HIDE DEF TypeOK
<1> QED
  BY <1>1, <1>3, <1>4

---------------------------------------------------------------------------
(* Types, part by part *)

OutsideOK == sent \subseteq News /\ queue \subseteq sent /\ broker \in NewsOfVersions

StoreOK ==
  /\ definitions \in [Versions -> Stored] /\ past \subseteq [Versions -> Stored]
  /\ lists \subseteq [version : Versions, by : Instances]
  /\ basis \in [Versions -> 0..MaxNews]
  /\ regressed \subseteq Versions /\ listed \subseteq Versions
  /\ raced \in BOOLEAN

PcOK == pc \in [Instances -> {"down", "statuses", "pull", "fetched", "poll",
                              "ingest", "allowlist", "replace", "delete"}]

PullOK ==
  /\ summary \in [Instances -> NewsOfVersions]
  /\ existing \in [Instances -> [Versions -> Stored]]
  /\ todo \in [Instances -> SUBSET Versions]

WorkOK ==
  /\ batch \in [Instances -> Seq(sent)]
  /\ full \in [Instances -> sent \cup {NoNews(NoVersion)}]
  /\ snapshot \in [Instances -> SUBSET [version : Versions, by : Instances]]

\* The parts are the whole, before a step and after it.
LEMMA TypeParts ==
  TypeOK <=> OutsideOK /\ StoreOK /\ PcOK /\ PullOK /\ WorkOK /\ undisturbed \subseteq Instances
BY DEF TypeOK, OutsideOK, StoreOK, PcOK, PullOK, WorkOK

LEMMA TypePartsNext ==
  TypeOK' <=> /\ OutsideOK' /\ StoreOK' /\ PcOK' /\ PullOK' /\ WorkOK'
              /\ undisturbed' \subseteq Instances
BY DEF TypeOK, OutsideOK, StoreOK, PcOK, PullOK, WorkOK

\* A new announcement has a number of its own, within the bound.
LEMMA Announcement ==
  ASSUME IInv, Cardinality(sent) < MaxNews
  PROVE  Cardinality(sent) + 1 \in 1..MaxNews
BY FS_CardinalityType DEF IInv

\* The broker announces; nothing else moves.
LEMMA BrokerKeepsTypes ==
  ASSUME IInv, Broker
  PROVE  /\ TypeOK' /\ IsFiniteSet(sent') /\ Grows
         /\ \E n \in News : sent' = sent \cup {n} /\ queue' = queue \cup {n}
         /\ UNCHANGED <<store, pc, pulling, working>>
<1>t. OutsideOK /\ StoreOK /\ PcOK /\ PullOK /\ WorkOK /\ undisturbed \subseteq Instances
  BY TypeParts DEF IInv
<1>1. PICK n \in News :
        /\ sent' = sent \cup {n} /\ queue' = queue \cup {n}
        /\ broker' = broker \/ \E v \in Versions : n.version = v /\ broker' = [broker EXCEPT ![v] = n]
  <2>1. ASSUME NEW v \in Versions, NEW s \in Statuses, BrokerChange(v, s)
        PROVE  \E n \in News :
                 /\ sent' = sent \cup {n} /\ queue' = queue \cup {n}
                 /\ n.version = v /\ broker' = [broker EXCEPT ![v] = n]
    <3> DEFINE n == [id |-> Cardinality(sent) + 1, version |-> v, status |-> s]
    <3>1. n \in News
      BY <2>1, Announcement DEF BrokerChange, News
    <3> QED
      BY <2>1, <3>1 DEF BrokerChange
  <2>2. CASE MalformedNews
    <3> DEFINE n == [id |-> Cardinality(sent) + 1, version |-> NoVersion, status |-> "active"]
    <3>1. n \in News
      BY <2>2, Announcement DEF MalformedNews, News
    <3> QED
      BY <2>2, <3>1 DEF MalformedNews
  <2> QED
    BY <2>1, <2>2 DEF Broker
<1>2. UNCHANGED <<store, pc, pulling, working>> /\ undisturbed' \subseteq undisturbed
  BY DEF Broker, BrokerChange, MalformedNews
<1>3. NewsOfVersions \subseteq NewsOfVersions'
  <2>1. sent \subseteq sent'
    BY <1>1
  <2> SUFFICES ASSUME NEW f \in NewsOfVersions PROVE f \in NewsOfVersions'
    OBVIOUS
  <2>2. f \in [Versions -> sent' \cup {NoNews(v) : v \in Versions}]
    BY <2>1 DEF NewsOfVersions
  <2> QED
    BY <2>2 DEF NewsOfVersions
<1>4. broker' \in NewsOfVersions'
  <2>1. CASE broker' = broker
    BY <1>t, <1>3, <2>1 DEF OutsideOK
  <2>2. ASSUME NEW v \in Versions, n.version = v, broker' = [broker EXCEPT ![v] = n]
        PROVE  broker' \in NewsOfVersions'
    <3>1. broker \in NewsOfVersions' /\ n \in sent'
      BY <1>t, <1>1, <1>3 DEF OutsideOK
    <3>2. broker' \in [Versions -> sent' \cup {NoNews(w) : w \in Versions}]
      BY <2>2, <3>1 DEF NewsOfVersions
    <3>3. \A w \in Versions : broker'[w].version = w
      BY <2>2, <3>1 DEF NewsOfVersions
    <3> QED
      BY <3>2, <3>3 DEF NewsOfVersions
  <2> QED
    BY <1>1, <2>1, <2>2
<1>5. OutsideOK'
  BY <1>t, <1>1, <1>4 DEF OutsideOK
<1>6. StoreOK' /\ PcOK' /\ undisturbed' \subseteq Instances
  BY <1>t, <1>2 DEF StoreOK, PcOK, store
<1>7. PullOK'
  BY <1>t, <1>2, <1>3 DEF PullOK, pulling
<1>8. WorkOK'
  <2>1. sent \subseteq sent'
    BY <1>1
  <2>2. Seq(sent) \subseteq Seq(sent')
    BY <2>1
  <2> QED
    BY <1>t, <1>2, <2>1, <2>2 DEF WorkOK, working
<1>9. IsFiniteSet(sent')
  BY <1>1, FS_AddElement DEF IInv
<1>10. Grows
  <2>1. \A v \in Versions : broker[v] \in sent => broker'[v] \in sent'
    BY <1>t, <1>1 DEF OutsideOK, NewsOfVersions
  <2> QED
    BY <1>1, <1>2, <2>1 DEF Grows, store
<1> QED
  BY <1>1, <1>2, <1>5, <1>6, <1>7, <1>8, <1>9, <1>10, TypePartsNext

---------------------------------------------------------------------------
(* Steps of instances *)

\* Instance i moves, and leaves alone what the others have at hand.
Moves(i) ==
  /\ UNCHANGED <<broker, sent>>
  /\ \A j \in Instances \ {i} :
       /\ pc'[j] = pc[j] /\ batch'[j] = batch[j] /\ full'[j] = full[j]
       /\ summary'[j] = summary[j] /\ todo'[j] = todo[j] /\ snapshot'[j] = snapshot[j]

\* The end of a pull leaves its variables in their types.
LEMMA PullOverKeepsTypes ==
  ASSUME PullOK, sent' = sent, NEW i \in Instances, PullOver(i)
  PROVE  /\ PullOK'
         /\ \A v \in Versions : summary'[i][v] = NoNews(v)
         /\ todo'[i] = {}
         /\ \A j \in Instances \ {i} : summary'[j] = summary[j] /\ todo'[j] = todo[j]
<1> DEFINE none == [v \in Versions |-> NoNews(v)]
<1> DEFINE blank == [v \in Versions |-> Absent]
<1>1. none \in NewsOfVersions /\ blank \in [Versions -> Stored]
  BY DEF NewsOfVersions, NoNews, Stored
<1>2. NewsOfVersions' = NewsOfVersions
  BY DEF NewsOfVersions
<1>3. /\ summary' = [summary EXCEPT ![i] = none]
      /\ existing' = [existing EXCEPT ![i] = blank]
      /\ todo' = [todo EXCEPT ![i] = {}]
  BY DEF PullOver
<1>4. \A v \in Versions : none[v] = NoNews(v)
  OBVIOUS
<1> HIDE DEF none, blank
<1> QED
  BY <1>1, <1>2, <1>3, <1>4 DEF PullOK

\* While no instance does anything to the store, the broker or the queue.
LEMMA FrameKeepsTypes ==
  ASSUME TypeOK, UNCHANGED outside
  PROVE  /\ OutsideOK' /\ NewsOfVersions' = NewsOfVersions
         /\ UNCHANGED store => StoreOK' /\ Grows
         /\ UNCHANGED pc => PcOK'
         /\ UNCHANGED pulling => PullOK'
         /\ UNCHANGED working => WorkOK'
<1>1. OutsideOK /\ StoreOK /\ PcOK /\ PullOK /\ WorkOK
  BY TypeParts
<1>2. NewsOfVersions' = NewsOfVersions
  BY DEF NewsOfVersions, outside
<1> QED
  BY <1>1, <1>2 DEF OutsideOK, StoreOK, PcOK, PullOK, WorkOK, Grows, outside, store, pulling, working

\* Only the state of instance i changes, in its types.
Steps(i) == TypeOK' /\ Moves(i) /\ InstanceOK(i)' /\ Grows

\* The startup pull considers the versions one by one (pullVersion).
LEMMA ConsiderSteps ==
  ASSUME IInv, NEW i \in Instances, NEW v \in Versions,
         SkipVersion(i, v) \/ ChangeStatus(i, v) \/ fetchVersion(i, v)
  PROVE  Steps(i) /\ UNCHANGED <<queue, lists, listed, raced, snapshot>> /\ pc'[i] # "replace"
<1>t. TypeOK /\ OutsideOK /\ StoreOK /\ PcOK /\ PullOK /\ WorkOK /\ undisturbed \subseteq Instances
  BY TypeParts DEF IInv
<1>i. InstanceOK(i)
  BY DEF IInv
<1>1. pc[i] = "pull" /\ v \in todo[i] /\ Considered(i, v) /\ UNCHANGED <<outside, summary, batch, snapshot>>
  BY DEF SkipVersion, ChangeStatus, fetchVersion, working
<1>2. summary[i] \in NewsOfVersions /\ summary[i][v] \in sent /\ summary[i][v].version = v
  BY <1>t, <1>i, <1>1, NewsIsSentOrNone DEF InstanceOK, PullOK
<1>3. broker[v] \in sent /\ broker[v].version = v
  BY <1>t, <1>i, <1>2, NewsIsSentOrNone DEF InstanceOK, OutsideOK
<1>4. OutsideOK' /\ NewsOfVersions' = NewsOfVersions
  BY <1>t, <1>1, FrameKeepsTypes
<1>5. PullOK'
  <2>1. existing' \in [Instances -> [Versions -> Stored]]
    BY <1>t, <1>1 DEF PullOK, Considered, Stored
  <2>2. todo' \in [Instances -> SUBSET Versions]
    BY <1>t, <1>1 DEF PullOK, Considered
  <2> QED
    BY <1>t, <1>1, <1>4, <2>1, <2>2 DEF PullOK
<1>6. StoreOK' /\ Grows /\ UNCHANGED <<lists, listed, raced>>
  <2>1. CASE UNCHANGED store
    BY <1>t, <1>1, <2>1, FrameKeepsTypes DEF store
  <2>2. CASE ChangeStatus(i, v)
    <3>1. SetStatus(v, summary[i][v].status, summary[i][v].id) /\ Proper(summary[i][v])
      BY <1>2, <2>2 DEF ChangeStatus, updateDefinitionStatus, Proper
    <3> QED
      BY <1>t, <1>1, <1>2, <3>1, StoreTakesNews DEF StoreOK, Grows, outside
  <2> QED
    BY <2>1, <2>2 DEF SkipVersion, fetchVersion
<1>7. /\ pc'[i] \in {"pull", "fetched"} /\ PcOK'
      /\ \A j \in Instances \ {i} : pc'[j] = pc[j]
  BY <1>t, <1>1 DEF PcOK, SkipVersion, ChangeStatus, fetchVersion
<1>8. /\ full' \in [Instances -> sent \cup {NoNews(NoVersion)}]
      /\ \A j \in Instances \ {i} : full'[j] = full[j]
      /\ pc'[i] = "fetched" => full'[i] = broker[v]
  BY <1>t, <1>1, <1>3 DEF WorkOK, SkipVersion, ChangeStatus, fetchVersion, working
<1>9. WorkOK'
  BY <1>t, <1>1, <1>8 DEF WorkOK, outside
<1>10. undisturbed' \subseteq Instances
  BY <1>t DEF SkipVersion, ChangeStatus, fetchVersion, Disturbing
<1>11. TypeOK'
  BY <1>4, <1>5, <1>6, <1>7, <1>9, <1>10, TypePartsNext
<1>12. Moves(i)
  BY <1>t, <1>1, <1>7, <1>8 DEF Moves, Considered, PullOK, outside
<1>13. InstanceOK(i)'
  <2>1. batch[i] = <<>> /\ todo'[i] \subseteq todo[i] /\ UNCHANGED <<sent, broker>>
    BY <1>t, <1>i, <1>1 DEF InstanceOK, Considered, PullOK, outside
  <2>2. pc'[i] = "fetched" => full'[i] \in sent /\ Proper(full'[i])
    BY <1>3, <1>8 DEF Proper
  <2> QED
    BY <1>i, <1>1, <1>7, <2>1, <2>2 DEF InstanceOK, Proper
<1> QED
  BY <1>1, <1>6, <1>7, <1>11, <1>12, <1>13 DEF Steps, outside

\* A pull begins with a summary of the broker's versions and the statuses
\* that are stored (runStartupPull).
LEMMA BeginSteps ==
  ASSUME IInv, NEW i \in Instances, fetchAllGrants(i) \/ getDefinitionStatuses(i)
  PROVE  Steps(i) /\ UNCHANGED <<queue, store, snapshot>> /\ pc'[i] # "replace"
<1>t. TypeOK /\ OutsideOK /\ StoreOK /\ PcOK /\ PullOK /\ WorkOK /\ undisturbed \subseteq Instances
  BY TypeParts DEF IInv
<1>i. InstanceOK(i)
  BY DEF IInv
<1>1. UNCHANGED <<outside, store, working>>
  BY DEF fetchAllGrants, getDefinitionStatuses
<1>2. OutsideOK' /\ NewsOfVersions' = NewsOfVersions /\ StoreOK' /\ Grows /\ WorkOK'
  BY <1>t, <1>1, FrameKeepsTypes
<1>3. PullOK'
  <2>1. CASE fetchAllGrants(i)
    BY <1>t, <1>2, <2>1 DEF PullOK, OutsideOK, fetchAllGrants
  <2>2. CASE getDefinitionStatuses(i)
    <3> DEFINE fresh == {v \in Versions : summary[i][v].id > 0}
    <3>1. PICK statuses \in past :
          /\ summary' = summary
          /\ existing' = [existing EXCEPT ![i] = statuses]
          /\ todo' = [todo EXCEPT ![i] = fresh]
      BY <2>2 DEF getDefinitionStatuses
    <3>2. fresh \in SUBSET Versions
      OBVIOUS
    <3> HIDE DEF fresh
    <3> QED
      BY <1>t, <1>2, <3>1, <3>2 DEF PullOK, StoreOK
  <2> QED
    BY <2>1, <2>2
<1>4. PcOK' /\ pc'[i] \in {"statuses", "pull"} /\ \A j \in Instances \ {i} : pc'[j] = pc[j]
  BY <1>t DEF PcOK, fetchAllGrants, getDefinitionStatuses
<1>5. TypeOK'
  <2>1. undisturbed' \subseteq Instances
    BY <1>t DEF fetchAllGrants, getDefinitionStatuses
  <2> QED
    BY <1>2, <1>3, <1>4, <2>1, TypePartsNext
<1>6. Moves(i)
  BY <1>t, <1>1, <1>4
  DEF Moves, PullOK, fetchAllGrants, getDefinitionStatuses, outside, working
<1>7. InstanceOK(i)'
  <2>1. batch'[i] = <<>> /\ UNCHANGED <<sent, broker>>
    BY <1>i, <1>1 DEF InstanceOK, fetchAllGrants, getDefinitionStatuses, outside, working
  <2>2. \A w \in Versions : summary'[i][w] \in sent => broker[w] \in sent
    BY <1>t, <1>i DEF InstanceOK, PullOK, fetchAllGrants, getDefinitionStatuses
  <2>3. \A w \in todo'[i] : summary'[i][w] \in sent
    <3>1. CASE fetchAllGrants(i)
      <4>1. todo' = todo /\ summary'[i] = broker /\ \A w \in todo[i] : w \in Versions
        BY <1>t, <3>1 DEF fetchAllGrants, PullOK
      <4> QED
        BY <1>i, <4>1 DEF InstanceOK
    <3>2. CASE getDefinitionStatuses(i)
      <4>1. /\ summary' = summary /\ summary[i] \in NewsOfVersions
            /\ todo'[i] = {v \in Versions : summary[i][v].id > 0}
        BY <1>t, <3>2 DEF getDefinitionStatuses, PullOK
      <4> QED
        BY <1>t, <4>1, NewsIsSentOrNone
    <3> QED
      BY <3>1, <3>2
  <2> QED
    BY <1>4, <2>1, <2>2, <2>3 DEF InstanceOK
<1> QED
  BY <1>1, <1>2, <1>4, <1>5, <1>6, <1>7 DEF Steps, outside, working

\* A version that was fetched in full is stored, or fails and is left out
\* (pullVersionSafely).
LEMMA FetchedSteps ==
  ASSUME IInv, NEW i \in Instances, IngestFetched(i) \/ VersionFails(i)
  PROVE  Steps(i) /\ UNCHANGED <<queue, lists, listed, raced, snapshot>> /\ pc'[i] # "replace"
<1>t. TypeOK /\ OutsideOK /\ StoreOK /\ PcOK /\ PullOK /\ WorkOK /\ undisturbed \subseteq Instances
  BY TypeParts DEF IInv
<1>i. InstanceOK(i)
  BY DEF IInv
<1>1. /\ UNCHANGED <<outside, summary, batch, snapshot>>
      /\ full' = [full EXCEPT ![i] = NoNews(NoVersion)]
      /\ pc[i] \in {"pull", "fetched"} /\ pc' = [pc EXCEPT ![i] = "pull"]
  BY DEF IngestFetched, VersionFails, pulling
<1>2. OutsideOK' /\ NewsOfVersions' = NewsOfVersions
  BY <1>t, <1>1, FrameKeepsTypes
<1>3. \/ UNCHANGED <<todo, existing>>
      \/ \E v \in todo[i] : Considered(i, v)
  BY DEF IngestFetched, VersionFails, pulling
<1>4. PullOK' /\ todo'[i] \subseteq todo[i] /\ \A j \in Instances \ {i} : todo'[j] = todo[j]
  <2>1. existing' \in [Instances -> [Versions -> Stored]]
    BY <1>t, <1>3 DEF PullOK, Considered, Stored
  <2>2. todo' \in [Instances -> SUBSET Versions] /\ todo'[i] \subseteq todo[i]
        /\ \A j \in Instances \ {i} : todo'[j] = todo[j]
    BY <1>t, <1>3 DEF PullOK, Considered
  <2> QED
    BY <1>t, <1>1, <1>2, <2>1, <2>2 DEF PullOK
<1>5. StoreOK' /\ Grows /\ UNCHANGED <<lists, listed, raced>>
  <2>1. CASE UNCHANGED store
    BY <1>t, <1>1, <2>1, FrameKeepsTypes DEF store
  <2>2. CASE IngestFetched(i) /\ upsertDefinition(full[i])
    <3>1. full[i] \in sent /\ Proper(full[i])
      BY <1>i, <2>2 DEF InstanceOK, IngestFetched
    <3>2. SetStatus(full[i].version, coerceStatus(full[i].status), full[i].id)
      BY <2>2 DEF upsertDefinition
    <3> QED
      BY <1>t, <1>1, <3>1, <3>2, StoreTakesNews DEF StoreOK, Grows, outside
  <2> QED
    BY <2>1, <2>2 DEF IngestFetched, VersionFails, ingestVersion
<1>6. PcOK' /\ WorkOK'
  BY <1>t, <1>1 DEF PcOK, WorkOK, outside
<1>7. TypeOK'
  <2>1. undisturbed' \subseteq Instances
    BY <1>t DEF IngestFetched, VersionFails, Disturbing
  <2> QED
    BY <1>2, <1>4, <1>5, <1>6, <2>1, TypePartsNext
<1>8. Moves(i)
  BY <1>t, <1>1, <1>4 DEF Moves, PcOK, WorkOK, outside
<1>9. InstanceOK(i)'
  <2>1. batch[i] = <<>> /\ UNCHANGED <<sent, broker>> /\ pc'[i] = "pull"
    BY <1>t, <1>i, <1>1 DEF InstanceOK, PcOK, outside
  <2> QED
    BY <1>i, <1>1, <1>4, <2>1 DEF InstanceOK
<1> QED
  BY <1>1, <1>5, <1>7, <1>8, <1>9 DEF Steps, outside

\* A pull ends with the latest active version, if there is one
\* (fetchLatestActiveVersion, ingestAllowlist).
LEMMA LatestSteps ==
  ASSUME IInv, NEW i \in Instances, fetchLatestActiveVersion(i)
  PROVE  Steps(i) /\ UNCHANGED <<queue, store, snapshot>> /\ pc'[i] # "replace"
<1>t. TypeOK /\ OutsideOK /\ StoreOK /\ PcOK /\ PullOK /\ WorkOK /\ undisturbed \subseteq Instances
  BY TypeParts DEF IInv
<1>i. InstanceOK(i)
  BY DEF IInv
<1>1. /\ UNCHANGED <<outside, store, batch, snapshot, undisturbed>>
      /\ PullOver(i) /\ pc' = [pc EXCEPT ![i] = "allowlist"] /\ pc[i] = "pull"
  BY DEF fetchLatestActiveVersion
<1>2. PICK v \in Versions : broker[v].status = "active" /\ full' = [full EXCEPT ![i] = broker[v]]
  BY DEF fetchLatestActiveVersion, ActiveIn
<1>3. broker[v] \in sent /\ Proper(broker[v])
  BY <1>t, <1>2, NewsIsSentOrNone DEF OutsideOK, Proper
<1>4. OutsideOK' /\ StoreOK' /\ Grows
  BY <1>t, <1>1, FrameKeepsTypes
<1>5. /\ PullOK' /\ todo'[i] = {} /\ \A w \in Versions : summary'[i][w] = NoNews(w)
      /\ \A j \in Instances \ {i} : summary'[j] = summary[j] /\ todo'[j] = todo[j]
  BY <1>t, <1>1, PullOverKeepsTypes DEF outside
<1>6. PcOK' /\ WorkOK'
  BY <1>t, <1>1, <1>2, <1>3 DEF PcOK, WorkOK, outside
<1>7. TypeOK'
  BY <1>t, <1>1, <1>4, <1>5, <1>6, TypePartsNext
<1>8. Moves(i)
  BY <1>t, <1>1, <1>2, <1>5 DEF Moves, PcOK, WorkOK, outside
<1>9. InstanceOK(i)'
  <2>1. batch[i] = <<>> /\ batch' = batch /\ UNCHANGED <<sent, broker>>
        /\ pc'[i] = "allowlist" /\ full'[i] = broker[v]
    BY <1>t, <1>i, <1>1, <1>2 DEF InstanceOK, PcOK, WorkOK, outside
  <2>2. \A w \in Versions : NoNews(w) \notin sent
    BY <1>t DEF OutsideOK, News, NoNews
  <2>3. Current(i)' = broker[v]
    BY <2>1 DEF Current
  <2>4. Proper(Current(i))' /\ Current(i)' \in sent'
    BY <1>3, <2>1, <2>3 DEF Proper
  <2> QED
    BY <1>2, <1>5, <2>1, <2>2, <2>3, <2>4 DEF InstanceOK
<1> QED
  BY <1>1, <1>4, <1>7, <1>8, <1>9 DEF Steps, outside

\* An instance goes on to poll, or stops, with nothing at hand.
LEMMA RestSteps ==
  ASSUME IInv, NEW i \in Instances,
         NothingActive(i) \/ NoLatestActive(i) \/ PullFails(i) \/ Stop(i)
  PROVE  /\ Steps(i) /\ UNCHANGED <<queue, store>> /\ pc'[i] # "replace"
<1>t. TypeOK /\ OutsideOK /\ StoreOK /\ PcOK /\ PullOK /\ WorkOK /\ undisturbed \subseteq Instances
  BY TypeParts DEF IInv
<1>i. InstanceOK(i)
  BY DEF IInv
<1>1. /\ UNCHANGED <<outside, store>> /\ PullOver(i)
      /\ \E p \in {"down", "poll"} : pc' = [pc EXCEPT ![i] = p]
      /\ full' = full \/ full' = [full EXCEPT ![i] = NoNews(NoVersion)]
      /\ snapshot' = snapshot \/ snapshot' = [snapshot EXCEPT ![i] = {}]
      /\ undisturbed' \subseteq undisturbed
  BY DEF NothingActive, NoLatestActive, PullFails, Stop, working
<1>2. /\ batch'[i] = <<>> /\ batch' \in [Instances -> Seq(sent)]
      /\ \A j \in Instances \ {i} : batch'[j] = batch[j]
  <2>1. CASE Stop(i)
    BY <1>t, <2>1 DEF Stop, WorkOK
  <2>2. CASE PullFails(i)
    BY <1>t, <1>i, <2>2 DEF PullFails, InstanceOK, WorkOK
  <2>3. CASE NothingActive(i) \/ NoLatestActive(i)
    BY <1>t, <1>i, <2>3 DEF NothingActive, NoLatestActive, InstanceOK, WorkOK, working
  <2> QED
    BY <2>1, <2>2, <2>3
<1>4. OutsideOK' /\ StoreOK' /\ Grows
  BY <1>t, <1>1, FrameKeepsTypes
<1>5. /\ PullOK' /\ todo'[i] = {} /\ \A w \in Versions : summary'[i][w] = NoNews(w)
      /\ \A j \in Instances \ {i} : summary'[j] = summary[j] /\ todo'[j] = todo[j]
  BY <1>t, <1>1, PullOverKeepsTypes DEF outside
<1>6. PcOK' /\ WorkOK' /\ pc'[i] \in {"down", "poll"}
  <2>1. PcOK' /\ pc'[i] \in {"down", "poll"}
    BY <1>t, <1>1 DEF PcOK
  <2>2. full' \in [Instances -> sent \cup {NoNews(NoVersion)}]
    BY <1>t, <1>1 DEF WorkOK
  <2>3. snapshot' \in [Instances -> SUBSET [version : Versions, by : Instances]]
    BY <1>t, <1>1 DEF WorkOK
  <2> QED
    BY <1>1, <1>2, <2>1, <2>2, <2>3 DEF WorkOK, outside
<1>7. TypeOK'
  BY <1>t, <1>1, <1>4, <1>5, <1>6, TypePartsNext
<1>8. Moves(i)
  BY <1>t, <1>1, <1>2, <1>5 DEF Moves, PcOK, WorkOK, outside
<1>9. InstanceOK(i)'
  <2>1. \A w \in Versions : NoNews(w) \notin sent
    BY <1>t DEF OutsideOK, News, NoNews
  <2> QED
    BY <1>1, <1>2, <1>5, <1>6, <2>1 DEF InstanceOK, outside
<1> QED
  BY <1>1, <1>4, <1>6, <1>7, <1>8, <1>9 DEF Steps, outside

\* Some messages are received (sqsClient, ReceiveMessageCommand).
LEMMA ReceiveSteps ==
  ASSUME IInv, NEW i \in Instances, ReceiveMessages(i)
  PROVE  Steps(i) /\ UNCHANGED <<queue, store, snapshot>> /\ pc'[i] # "replace"
<1>t. TypeOK /\ OutsideOK /\ StoreOK /\ PcOK /\ PullOK /\ WorkOK /\ undisturbed \subseteq Instances
  BY TypeParts DEF IInv
<1>i. InstanceOK(i)
  BY DEF IInv
<1>1. PICK received \in SUBSET queue :
        /\ Cardinality(received) \in 1..sqsMaxMessages
        /\ \E messages \in SetToSeqs(received) : batch' = [batch EXCEPT ![i] = messages]
  BY DEF ReceiveMessages
<1>2. PICK messages \in SetToSeqs(received) : batch' = [batch EXCEPT ![i] = messages]
  BY <1>1
<1>3. messages \in Seq(sent) /\ messages # <<>>
  <2> DEFINE k == Cardinality(received)
  <2>1. k \in Nat /\ k >= 1
    BY <1>1
  <2>2. messages \in [1..k -> received]
    BY <1>2 DEF SetToSeqs
  <2>3. received \subseteq sent
    BY <1>t DEF OutsideOK
  <2> HIDE DEF k
  <2>4. messages \in Seq(sent) /\ Len(messages) = k
    BY <2>1, <2>2, <2>3
  <2> QED
    BY <2>1, <2>4
<1>4. /\ UNCHANGED <<outside, store, pulling, full, snapshot, undisturbed>>
      /\ pc[i] = "poll" /\ pc' = [pc EXCEPT ![i] = "ingest"]
  BY DEF ReceiveMessages
<1>5. OutsideOK' /\ StoreOK' /\ PullOK' /\ Grows
  BY <1>t, <1>4, FrameKeepsTypes
<1>6. PcOK' /\ WorkOK'
  BY <1>t, <1>2, <1>3, <1>4 DEF PcOK, WorkOK, outside
<1>7. TypeOK'
  BY <1>t, <1>4, <1>5, <1>6, TypePartsNext
<1>8. Moves(i)
  BY <1>t, <1>2, <1>4 DEF Moves, PcOK, WorkOK, outside, pulling
<1>9. InstanceOK(i)'
  <2>1. batch'[i] # <<>> /\ pc'[i] = "ingest"
    BY <1>t, <1>2, <1>3, <1>4 DEF PcOK, WorkOK
  <2> QED
    BY <1>i, <1>4, <2>1 DEF InstanceOK, outside, pulling
<1> QED
  BY <1>4, <1>5, <1>7, <1>8, <1>9, <1>6 DEF Steps, outside, PcOK

\* The message at hand is one that was sent, and the rest of a batch is one.
LEMMA MessagesAtHand ==
  ASSUME TypeOK, NEW i \in Instances, batch[i] # <<>>
  PROVE  /\ Head(batch[i]) \in sent
         /\ Tail(batch[i]) \in Seq(sent)
         /\ Len(batch[i]) > 1 <=> Tail(batch[i]) # <<>>
<1>1. batch[i] \in Seq(sent)
  BY DEF TypeOK
<1>2. /\ Head(batch[i]) \in sent /\ Tail(batch[i]) \in Seq(sent)
      /\ Len(Tail(batch[i])) = Len(batch[i]) - 1
  BY <1>1, HeadTailProperties
<1> DEFINE k == Len(batch[i])
<1> DEFINE rest == Tail(batch[i])
<1>3. k \in Nat /\ Len(rest) = k - 1
  BY <1>1, <1>2, LenProperties
<1>4. k # 0
  BY <1>1, EmptySeq
<1>5. rest # <<>> <=> Len(rest) # 0
  BY <1>2, EmptySeq
<1>6. k > 1 <=> rest # <<>>
  <2> HIDE DEF k, rest
  <2> QED
    BY <1>3, <1>4, <1>5
<1> QED
  BY <1>2, <1>6

\* A message is ingested, with its version (handleMessage, ingestVersion).
LEMMA IngestSteps ==
  ASSUME IInv, NEW i \in Instances, IngestMessage(i)
  PROVE  Steps(i) /\ UNCHANGED <<queue, lists, listed, raced, snapshot>> /\ pc'[i] # "replace"
<1>t. TypeOK /\ OutsideOK /\ StoreOK /\ PcOK /\ PullOK /\ WorkOK /\ undisturbed \subseteq Instances
  BY TypeParts DEF IInv
<1>i. InstanceOK(i)
  BY DEF IInv
<1> DEFINE n == Head(batch[i])
<1>1. /\ pc[i] = "ingest" /\ Proper(n) /\ ingestVersion(n)
      /\ pc' = [pc EXCEPT ![i] = IF n.status = "active" THEN "allowlist" ELSE "delete"]
      /\ UNCHANGED <<outside, pulling, working>> /\ undisturbed' \subseteq undisturbed
  BY DEF IngestMessage, Disturbing
<1>2. batch[i] # <<>> /\ n \in sent
  BY <1>t, <1>i, <1>1, MessagesAtHand DEF InstanceOK
<1> HIDE DEF n
<1>3. /\ StoreOK' /\ Grows /\ UNCHANGED <<lists, listed, raced>>
      /\ n.version \in WithDefinition => definitions'[n.version] # Absent
  <2>1. CASE n.version \in WithDefinition
    <3>1. SetStatus(n.version, coerceStatus(n.status), n.id)
      BY <1>1, <2>1 DEF ingestVersion, upsertDefinition
    <3> QED
      BY <1>t, <1>1, <1>2, <3>1, StoreTakesNews DEF StoreOK, Grows, outside
  <2>2. CASE n.version \notin WithDefinition
    <3>1. UNCHANGED store
      BY <1>1, <2>2 DEF ingestVersion
    <3> QED
      BY <1>t, <1>1, <2>2, <3>1, FrameKeepsTypes DEF store
  <2> QED
    BY <2>1, <2>2
<1>4. OutsideOK' /\ PullOK' /\ WorkOK'
  BY <1>t, <1>1, FrameKeepsTypes
<1>5. PcOK' /\ pc'[i] = IF n.status = "active" THEN "allowlist" ELSE "delete"
  BY <1>t, <1>1 DEF PcOK
<1>6. TypeOK'
  BY <1>t, <1>1, <1>3, <1>4, <1>5, TypePartsNext
<1>7. Moves(i)
  BY <1>t, <1>1 DEF Moves, PcOK, outside, pulling, working
<1>8. InstanceOK(i)'
  <2>1. batch'[i] = batch[i] /\ full'[i] = full[i] /\ UNCHANGED <<sent, broker, summary, todo>>
    BY <1>1 DEF outside, pulling, working
  <2>2. Current(i)' = n /\ Head(batch'[i]) = n
    BY <1>2, <2>1 DEF Current, n
  <2>3. Proper(Current(i))' /\ (n.status # "active" => Done(Head(batch[i]))')
    BY <1>1, <1>3, <2>1, <2>2 DEF Proper, Done
  <2> QED
    BY <1>i, <1>1, <1>2, <1>3, <1>5, <2>1, <2>2, <2>3 DEF InstanceOK
<1> QED
  BY <1>1, <1>3, <1>5, <1>6, <1>7, <1>8 DEF Steps, outside, working

\* A message is deleted, or fails and stays; the next one is taken up.
LEMMA NextMessageSteps ==
  ASSUME IInv, NEW i \in Instances, DeleteMessage(i) \/ MessageFails(i)
  PROVE  /\ Steps(i) /\ UNCHANGED store /\ pc'[i] # "replace"
         /\ queue' = queue \/ (pc[i] = "delete" /\ queue' = queue \ {Head(batch[i])})
<1>t. TypeOK /\ OutsideOK /\ StoreOK /\ PcOK /\ PullOK /\ WorkOK /\ undisturbed \subseteq Instances
  BY TypeParts DEF IInv
<1>i. InstanceOK(i)
  BY DEF IInv
<1>1. /\ NextMessage(i) /\ batch[i] # <<>>
      /\ UNCHANGED <<broker, sent, store, pulling, full, undisturbed>>
      /\ snapshot' = snapshot \/ snapshot' = [snapshot EXCEPT ![i] = {}]
      /\ queue' = queue \/ (pc[i] = "delete" /\ queue' = queue \ {Head(batch[i])})
  BY <1>i DEF DeleteMessage, MessageFails, outside, InstanceOK
<1>2. Tail(batch[i]) \in Seq(sent) /\ (Len(batch[i]) > 1 <=> Tail(batch[i]) # <<>>)
  BY <1>t, <1>1, MessagesAtHand
<1>3. /\ batch' = [batch EXCEPT ![i] = Tail(batch[i])]
      /\ \/ Tail(batch[i]) # <<>> /\ pc' = [pc EXCEPT ![i] = "ingest"]
         \/ Tail(batch[i]) = <<>> /\ pc' = [pc EXCEPT ![i] = "poll"]
  BY <1>1, <1>2 DEF NextMessage
<1>4. OutsideOK' /\ StoreOK' /\ PullOK' /\ Grows
  <2>1. NewsOfVersions' = NewsOfVersions
    BY <1>1 DEF NewsOfVersions
  <2> QED
    BY <1>t, <1>1, <2>1 DEF OutsideOK, StoreOK, PullOK, Grows, store, pulling
<1>5. PcOK'
  BY <1>t, <1>3 DEF PcOK
<1>6. WorkOK'
  <2>1. snapshot' \in [Instances -> SUBSET [version : Versions, by : Instances]]
    BY <1>t, <1>1 DEF WorkOK
  <2> QED
    BY <1>t, <1>1, <1>2, <1>3, <2>1 DEF WorkOK
<1>7. TypeOK'
  BY <1>t, <1>1, <1>4, <1>5, <1>6, TypePartsNext
<1>8. Moves(i)
  BY <1>t, <1>1, <1>3 DEF Moves, PcOK, WorkOK, pulling
<1>9. batch'[i] = Tail(batch[i])
      /\ pc'[i] = IF Tail(batch[i]) # <<>> THEN "ingest" ELSE "poll"
  BY <1>t, <1>3 DEF PcOK, WorkOK
<1>10. InstanceOK(i)'
  BY <1>i, <1>1, <1>9 DEF InstanceOK, pulling
<1> QED
  BY <1>1, <1>4, <1>7, <1>8, <1>9, <1>10 DEF Steps

\* The transaction of replaceAllowlistEntries begins.
LEMMA BeginReplaceSteps ==
  ASSUME IInv, NEW i \in Instances, BeginReplace(i)
  PROVE  Steps(i) /\ UNCHANGED <<queue, lists, listed, definitions>>
<1>t. TypeOK /\ OutsideOK /\ StoreOK /\ PcOK /\ PullOK /\ WorkOK /\ undisturbed \subseteq Instances
  BY TypeParts DEF IInv
<1>i. InstanceOK(i)
  BY DEF IInv
<1>1. /\ UNCHANGED <<outside, definitions, past, lists, basis, regressed, listed,
                     batch, full, pulling, undisturbed>>
      /\ snapshot' = [snapshot EXCEPT ![i] = lists]
      /\ pc[i] = "allowlist" /\ pc' = [pc EXCEPT ![i] = "replace"]
  BY DEF BeginReplace
<1>2. OutsideOK' /\ PullOK'
  BY <1>t, <1>1, FrameKeepsTypes
<1>3. raced' \in BOOLEAN
  BY <1>t DEF BeginReplace, StoreOK
<1>4. StoreOK' /\ PcOK' /\ WorkOK' /\ Grows
  BY <1>t, <1>1, <1>3 DEF StoreOK, PcOK, WorkOK, Grows, outside
<1>5. TypeOK'
  BY <1>t, <1>1, <1>2, <1>4, TypePartsNext
<1>6. Moves(i)
  BY <1>t, <1>1 DEF Moves, PcOK, WorkOK, outside, pulling
<1>7. InstanceOK(i)'
  <2>1. pc'[i] = "replace" /\ UNCHANGED <<sent, broker, batch, full, definitions, summary, todo>>
    BY <1>t, <1>1 DEF PcOK, outside, pulling
  <2>2. Current(i)' = Current(i)
    BY <2>1 DEF Current
  <2> QED
    BY <1>i, <1>1, <2>1, <2>2 DEF InstanceOK, Proper
<1> QED
  BY <1>1, <1>4, <1>5, <1>6, <1>7 DEF Steps, outside

\* The target of a replacement is the version of the news at hand.
LEMMA TargetIsCurrent ==
  ASSUME NEW i \in Instances, InstanceOK(i), pc[i] \in {"allowlist", "replace"}
  PROVE  Target(i) = Current(i).version /\ Target(i) \in Versions
BY DEF Target, Current, InstanceOK, Proper

\* The transaction is committed.
LEMMA CommitReplaceSteps ==
  ASSUME IInv, NEW i \in Instances, CommitReplace(i)
  PROVE  Steps(i) /\ UNCHANGED <<queue, raced, definitions>> /\ pc'[i] # "replace"
<1>t. TypeOK /\ OutsideOK /\ StoreOK /\ PcOK /\ PullOK /\ WorkOK /\ undisturbed \subseteq Instances
  BY TypeParts DEF IInv
<1>i. InstanceOK(i)
  BY DEF IInv
<1>1. /\ UNCHANGED <<outside, definitions, past, basis, regressed, raced, batch, pulling>>
      /\ lists' = (lists \ snapshot[i]) \cup [version : {Target(i)} \cap WithAllowlist, by : {i}]
      /\ listed' = listed \cup {Target(i)}
      /\ snapshot' = [snapshot EXCEPT ![i] = {}]
      /\ full' = [full EXCEPT ![i] = NoNews(NoVersion)]
      /\ pc[i] = "replace" /\ pc' = [pc EXCEPT ![i] = AfterAllowlist(i)]
      /\ undisturbed' = {}
  BY DEF CommitReplace
<1>2. Target(i) = Current(i).version /\ Target(i) \in Versions
  BY <1>i, <1>1, TargetIsCurrent
<1>3. OutsideOK' /\ PullOK'
  BY <1>t, <1>1, FrameKeepsTypes
<1>4. StoreOK' /\ Grows
  BY <1>t, <1>1, <1>2 DEF StoreOK, Grows, outside
<1>5. PcOK' /\ WorkOK'
  BY <1>t, <1>1 DEF PcOK, WorkOK, AfterAllowlist, outside
<1>6. TypeOK'
  BY <1>1, <1>3, <1>4, <1>5, TypePartsNext
<1>7. Moves(i)
  BY <1>t, <1>1 DEF Moves, PcOK, WorkOK, outside, pulling
<1>8. InstanceOK(i)'
  <2>1. /\ pc'[i] = IF batch[i] = <<>> THEN "poll" ELSE "delete"
        /\ UNCHANGED <<sent, broker, batch, definitions, summary, todo>>
    BY <1>t, <1>1 DEF PcOK, AfterAllowlist, outside, pulling
  <2>2. batch[i] # <<>> => Done(Head(batch[i]))'
    BY <1>i, <1>1, <1>2, <2>1 DEF InstanceOK, Done, Current, Proper
  <2> QED
    BY <1>i, <2>1, <2>2 DEF InstanceOK
<1> QED
  BY <1>1, <1>4, <1>6, <1>7, <1>8, <1>5, <1>t DEF Steps, outside, PcOK, AfterAllowlist

---------------------------------------------------------------------------
(* The invariant is inductive *)

\* What an instance has at hand is not touched by others, and what of it was
\* done stays done.
LEMMA OthersKeep ==
  ASSUME IInv, TypeOK', Grows, NEW j \in Instances,
         UNCHANGED <<pc, working, pulling>> \/ \E i \in Instances \ {j} : Moves(i)
  PROVE  InstanceOK(j)'
<1>t. TypeOK
  BY DEF IInv
<1>i. InstanceOK(j)
  BY DEF IInv
<1>1. /\ pc'[j] = pc[j] /\ batch'[j] = batch[j] /\ full'[j] = full[j]
      /\ summary'[j] = summary[j] /\ todo'[j] = todo[j]
  BY DEF Moves, working, pulling
<1>2. Current(j)' = Current(j)
  BY <1>1 DEF Current
<1>3. todo[j] \subseteq Versions
  BY <1>t DEF TypeOK
<1>5. ASSUME NEW v \in Versions, summary'[j][v] \in sent'
      PROVE  broker'[v] \in sent'
  <2>1. summary[j] \in NewsOfVersions
    BY <1>t DEF TypeOK
  <2>2. summary'[j][v].id > 0
    BY <1>5 DEF TypeOK, News
  <2>3. summary[j][v] \in sent
    BY <1>t, <1>1, <2>1, <2>2, NewsIsSentOrNone
  <2> QED
    BY <1>i, <2>3 DEF InstanceOK, Grows
<1>6. /\ pc'[j] \in {"ingest", "delete"} => batch'[j] # <<>>
      /\ pc'[j] \in {"down", "statuses", "pull", "fetched", "poll"} => batch'[j] = <<>>
      /\ \A v \in todo'[j] : summary'[j][v] \in sent'
      /\ pc'[j] = "fetched" => full'[j] \in sent' /\ Proper(full[j])'
  BY <1>i, <1>1 DEF InstanceOK, Grows, Proper
<1>7. pc'[j] \in {"allowlist", "replace"} =>
       /\ Current(j)' \in sent' /\ Proper(Current(j))' /\ Current(j)'.status = "active"
       /\ batch'[j] # <<>> /\ Current(j)'.version \in WithDefinition =>
            definitions'[Current(j)'.version] # Absent
  BY <1>i, <1>1, <1>2 DEF InstanceOK, Grows, Proper
<1>8. pc'[j] = "delete" => Done(Head(batch[j]))'
  BY <1>i, <1>1 DEF InstanceOK, Grows, Done, Proper
<1> QED
  BY <1>5, <1>6, <1>7, <1>8 DEF InstanceOK

Acts(i) == Pull(i) \/ ReceiveMessages(i) \/ Handle(i) \/ Replace(i) \/ Fault(i)

\* Whatever an instance does, it deletes only the message at hand, and only
\* replacements touch the lists.
LEMMA InstanceSteps ==
  ASSUME IInv, NEW i \in Instances, Acts(i)
  PROVE  /\ Steps(i)
         /\ queue' = queue \/ (pc[i] = "delete" /\ queue' = queue \ {Head(batch[i])})
         /\ \/ UNCHANGED <<lists, raced>> /\ pc'[i] # "replace"
            \/ BeginReplace(i) \/ CommitReplace(i)
<1>1. CASE \E v \in Versions : SkipVersion(i, v) \/ ChangeStatus(i, v) \/ fetchVersion(i, v)
  BY <1>1, ConsiderSteps
<1>2. CASE fetchAllGrants(i) \/ getDefinitionStatuses(i)
  BY <1>2, BeginSteps DEF store
<1>3. CASE IngestFetched(i) \/ VersionFails(i)
  BY <1>3, FetchedSteps
<1>4. CASE fetchLatestActiveVersion(i)
  BY <1>4, LatestSteps DEF store
<1>5. CASE NothingActive(i) \/ NoLatestActive(i) \/ PullFails(i) \/ Stop(i)
  BY <1>5, RestSteps DEF store
<1>6. CASE ReceiveMessages(i)
  BY <1>6, ReceiveSteps DEF store
<1>7. CASE IngestMessage(i)
  BY <1>7, IngestSteps
<1>8. CASE DeleteMessage(i) \/ MessageFails(i)
  BY <1>8, NextMessageSteps DEF store
<1>9. CASE BeginReplace(i)
  BY <1>9, BeginReplaceSteps
<1>10. CASE CommitReplace(i)
  BY <1>10, CommitReplaceSteps
<1> QED
  BY <1>1, <1>2, <1>3, <1>4, <1>5, <1>6, <1>7, <1>8, <1>9, <1>10
     DEF Acts, Pull, Handle, Replace, Fault

\* A message is deleted when it has been acted upon, and what has been done
\* stays done.
LEMMA NothingIsLost ==
  ASSUME IInv, Grows,
         \A n \in sent' \ queue' : n \in sent \ queue \/ Done(n)
  PROVE  NotificationsAreNotLost'
<1>1. \A n \in sent' \ queue' : Done(n)
  BY DEF IInv, NotificationsAreNotLost, Done
<1>2. \A n : Done(n) => Done(n)'
  BY DEF Done, Grows, Proper
<1> QED
  BY <1>1, <1>2 DEF NotificationsAreNotLost, Done

\* Without a race, the transaction that begins is the only one, and deletes
\* all that is stored.
LEMMA TransactionsStay ==
  ASSUME IInv, NEW i \in Instances, Moves(i),
         \/ UNCHANGED <<lists, raced>> /\ pc'[i] # "replace"
         \/ BeginReplace(i) \/ CommitReplace(i)
  PROVE  Transactions'
<1>t. TypeOK /\ Transactions
  BY DEF IInv
<1>1. \A j \in Instances \ {i} : pc'[j] = pc[j] /\ snapshot'[j] = snapshot[j]
  BY DEF Moves
<1>2. CASE UNCHANGED <<lists, raced>> /\ pc'[i] # "replace"
  BY <1>t, <1>1, <1>2 DEF Transactions
<1>3. CASE BeginReplace(i)
  <2> SUFFICES ASSUME ~raced' PROVE Transactions'
    BY DEF Transactions
  <2>1. /\ ~raced /\ (lists = {} => \A j \in Instances : pc[j] # "replace")
        /\ \A j \in Instances \ {i} : pc[j] = "replace" => snapshot[j] \cap lists = {}
        /\ lists' = lists
    BY <1>3 DEF BeginReplace
  <2>2. snapshot'[i] = lists
    BY <1>t, <1>3 DEF BeginReplace, TypeOK
  <2>3. \A j \in Instances \ {i} : pc[j] # "replace"
    BY <1>t, <2>1 DEF Transactions
  <2> QED
    BY <1>t, <1>1, <2>1, <2>2, <2>3 DEF Transactions
<1>4. CASE CommitReplace(i)
  <2> SUFFICES ASSUME ~raced' PROVE Transactions'
    BY DEF Transactions
  <2>1. /\ ~raced /\ pc[i] = "replace"
        /\ lists' = (lists \ snapshot[i]) \cup [version : {Target(i)} \cap WithAllowlist, by : {i}]
    BY <1>4 DEF CommitReplace
  <2>2. /\ snapshot[i] = lists
        /\ \A j \in Instances \ {i} : pc[j] # "replace"
    BY <1>t, <2>1 DEF Transactions
  <2>3. pc'[i] # "replace"
    BY <1>t, <1>4 DEF CommitReplace, AfterAllowlist, TypeOK
  <2>4. \A l, m \in lists' : l.version = m.version
    BY <2>1, <2>2
  <2> QED
    BY <1>1, <2>2, <2>3, <2>4 DEF Transactions
<1> QED
  BY <1>2, <1>3, <1>4

\* Every step keeps the invariant.
LEMMA NextKeeps == IInv /\ [Next]_vars => IInv'
<1> SUFFICES ASSUME IInv, [Next]_vars PROVE IInv'
  OBVIOUS
<1>1. CASE Broker
  <2>1. /\ TypeOK' /\ IsFiniteSet(sent') /\ Grows
        /\ UNCHANGED <<store, pc, pulling, working>>
    BY <1>1, BrokerKeepsTypes
  <2>2. PICK n \in News : sent' = sent \cup {n} /\ queue' = queue \cup {n}
    BY <1>1, BrokerKeepsTypes
  <2>3. \A j \in Instances : InstanceOK(j)'
    BY <2>1, OthersKeep
  <2>4. NotificationsAreNotLost'
    BY <2>1, <2>2, NothingIsLost
  <2>5. Transactions'
    BY <2>1 DEF IInv, Transactions, store, working
  <2> QED
    BY <2>1, <2>3, <2>4, <2>5 DEF IInv
<1>2. ASSUME NEW i \in Instances, Acts(i) PROVE IInv'
  <2>1. /\ TypeOK' /\ Moves(i) /\ InstanceOK(i)' /\ Grows
        /\ queue' = queue \/ (pc[i] = "delete" /\ queue' = queue \ {Head(batch[i])})
        /\ \/ UNCHANGED <<lists, raced>> /\ pc'[i] # "replace"
           \/ BeginReplace(i) \/ CommitReplace(i)
    BY <1>2, InstanceSteps DEF Steps
  <2>2. \A j \in Instances \ {i} : InstanceOK(j)'
    BY <2>1, OthersKeep
  <2>3. NotificationsAreNotLost'
    <3>1. pc[i] = "delete" => Done(Head(batch[i]))
      BY DEF IInv, InstanceOK
    <3>2. \A n \in sent' \ queue' : n \in sent \ queue \/ Done(n)
      BY <2>1, <3>1 DEF Moves
    <3> QED
      BY <2>1, <3>2, NothingIsLost
  <2>4. Transactions'
    BY <2>1, TransactionsStay
  <2>5. IsFiniteSet(sent')
    BY <2>1 DEF IInv, Moves
  <2> QED
    BY <2>1, <2>2, <2>3, <2>4, <2>5 DEF IInv
<1>3. CASE UNCHANGED vars
  <2>1. UNCHANGED <<broker, sent, queue, definitions, past, lists, listed, raced, pc, batch, full,
                    summary, existing, todo, snapshot, basis, regressed, undisturbed>>
    BY <1>3 DEF vars, outside, store, pulling, working
  <2>2. TypeOK' /\ IsFiniteSet(sent')
    BY <2>1 DEF IInv, TypeOK, NewsOfVersions
  <2>3. \A j \in Instances : InstanceOK(j)'
    BY <2>1 DEF IInv, InstanceOK, Current, Done, Proper
  <2>4. NotificationsAreNotLost' /\ Transactions'
    BY <2>1 DEF IInv, NotificationsAreNotLost, Transactions, Proper
  <2> QED
    BY <2>2, <2>3, <2>4 DEF IInv
<1> QED
  BY <1>1, <1>2, <1>3 DEF Next, Acts

\* The invariant holds in every behaviour of the two ways of ingesting.
THEOREM Invariant == Spec => []IInv
BY InitEstablishes, NextKeeps, PTL DEF Spec

\* Every variable keeps its type, in every configuration of the service.
THEOREM TypeCorrect == Spec => []TypeOK
<1>1. IInv => TypeOK
  BY DEF IInv
<1> QED
  BY <1>1, Invariant, PTL

\* A notification leaves the queue only when the store has taken it
\* (sqs-consumer.js: deleted after handleMessage, left when it throws).
THEOREM NothingAnnouncedIsLost == Spec => []NotificationsAreNotLost
<1>1. IInv => NotificationsAreNotLost
  BY DEF IInv
<1> QED
  BY <1>1, Invariant, PTL

\* The stored entries are those of one version, unless two replacements have
\* begun on an empty collection (replaceAllowlistEntries).
THEOREM OneListIsStored == Spec => []OneListUnlessRaced
<1>1. IInv => OneListUnlessRaced
  BY DEF IInv, Transactions, OneListUnlessRaced
<1> QED
  BY <1>1, Invariant, PTL

---------------------------------------------------------------------------
(* The refinement *)

\* The store takes a status of some news.
Adopts ==
  \E n \in sent :
    /\ Proper(n)
    /\ \/ SetStatus(n.version, n.status, n.id)
       \/ SetStatus(n.version, coerceStatus(n.status), n.id)

\* What an instance does to the register: nothing, or it adopts a status, or
\* it replaces the list.
LEMMA RegisterSteps ==
  ASSUME IInv, NEW i \in Instances, Acts(i)
  PROVE  UNCHANGED <<definitions, lists>> \/ Adopts \/ CommitReplace(i)
<1>t. TypeOK /\ InstanceOK(i)
  BY DEF IInv
<1>1. ASSUME NEW v \in Versions, ChangeStatus(i, v)
      PROVE  Adopts
  <2>1. v \in todo[i] /\ summary[i] \in NewsOfVersions
    BY <1>t, <1>1 DEF ChangeStatus, TypeOK
  <2>2. summary[i][v] \in sent /\ Proper(summary[i][v])
    BY <1>t, <2>1, NewsIsSentOrNone DEF InstanceOK, Proper
  <2>3. SetStatus(summary[i][v].version, summary[i][v].status, summary[i][v].id)
    BY <1>1, <2>1, <1>t, NewsIsSentOrNone DEF ChangeStatus, updateDefinitionStatus
  <2> QED
    BY <2>2, <2>3 DEF Adopts
<1>2. ASSUME NEW n \in sent, Proper(n), ingestVersion(n)
      PROVE  Adopts \/ UNCHANGED <<definitions, lists>>
  BY <1>2 DEF ingestVersion, upsertDefinition, Adopts, store
<1>3. CASE IngestFetched(i)
  BY <1>t, <1>2, <1>3 DEF IngestFetched, InstanceOK
<1>4. CASE IngestMessage(i)
  BY <1>t, <1>2, <1>4, MessagesAtHand DEF IngestMessage, InstanceOK
<1>5. ASSUME ~IngestFetched(i), ~IngestMessage(i), ~CommitReplace(i),
             ~\E v \in Versions : ChangeStatus(i, v)
      PROVE  UNCHANGED <<definitions, lists>>
  BY <1>5 DEF Acts, Pull, Handle, Replace, Fault, SkipVersion, fetchVersion, fetchAllGrants,
       getDefinitionStatuses, VersionFails, NothingActive, fetchLatestActiveVersion,
       NoLatestActive, PullFails, ReceiveMessages, DeleteMessage, MessageFails, Stop,
       BeginReplace, store
<1> QED
  BY <1>1, <1>3, <1>4, <1>5

\* The consumer and the pull implement the register: a stored status is one
\* that was announced of that version, and only versions that were announced
\* active bring their lists (ingestVersion, ingestAllowlist).
THEOREM IngestImplementsRegister == Spec => ImplementsRegister
<1> DEFINE entries == {l.version : l \in lists}
<1>1. Init => Register!Init
  BY DEF Init, Register!Init, Announced
<1>2. IInv /\ [Next]_vars => [Register!Next]_(Register!vars)
  <2> SUFFICES ASSUME IInv, [Next]_vars
               PROVE  Register!Next \/ UNCHANGED <<Announced, definitions, entries>>
    BY DEF Register!vars
  <2>t. TypeOK
    BY DEF IInv
  <2>1. ASSUME NEW v \in Versions, NEW s \in Statuses, BrokerChange(v, s)
        PROVE  Register!Next
    <3> DEFINE n == [id |-> Cardinality(sent) + 1, version |-> v, status |-> s]
    <3>1. sent' = sent \cup {n} /\ UNCHANGED <<definitions, lists>>
      BY <2>1 DEF BrokerChange, store
    <3>2. Proper(n) /\ n.version = v /\ n.status = s
      BY DEF Proper
    <3>3. Announced' = Announced \cup {<<v, s>>}
      <4> HIDE DEF n
      <4> QED
        BY <3>1, <3>2 DEF Announced, Proper
    <3>4. Register!Report(v, s)
      BY <3>1, <3>3 DEF Register!Report
    <3> QED
      BY <3>4 DEF Register!Next
  <2>2. CASE MalformedNews
    <3> DEFINE n == [id |-> Cardinality(sent) + 1, version |-> NoVersion, status |-> "active"]
    <3>1. sent' = sent \cup {n} /\ UNCHANGED <<definitions, lists>>
      BY <2>2 DEF MalformedNews, store
    <3>2. ~Proper(n)
      BY DEF Proper
    <3>3. Announced' = Announced
      <4> HIDE DEF n
      <4> QED
        BY <3>1, <3>2 DEF Announced, Proper
    <3> QED
      BY <3>1, <3>3
  <2>3. ASSUME NEW i \in Instances, Acts(i)
        PROVE  Register!Next \/ UNCHANGED <<Announced, definitions, entries>>
    <3>1. Announced' = Announced
      <4>1. sent' = sent
        BY <2>3, InstanceSteps DEF Steps, Moves
      <4> QED
        BY <4>1 DEF Announced, Proper
    <3>2. CASE UNCHANGED <<definitions, lists>>
      BY <3>1, <3>2
    <3>3. CASE Adopts
      <4>1. PICK n \in sent :
              /\ Proper(n)
              /\ \/ SetStatus(n.version, n.status, n.id)
                 \/ SetStatus(n.version, coerceStatus(n.status), n.id)
        BY <3>3 DEF Adopts
      <4>2. /\ n.version \in Versions /\ n.status \in Statuses
            /\ <<n.version, n.status>> \in Announced
        BY <2>t, <4>1 DEF Announced, Proper, TypeOK, News
      <4>3. /\ definitions' \in {[definitions EXCEPT ![n.version] = n.status],
                                 [definitions EXCEPT ![n.version] = coerceStatus(n.status)]}
            /\ lists' = lists
        BY <4>1 DEF SetStatus
      <4>4. Register!Adopt(n.version)
        BY <3>1, <4>2, <4>3 DEF Register!Adopt
      <4> QED
        BY <4>2, <4>4 DEF Register!Next
    <3>4. CASE CommitReplace(i)
      <4>1. /\ pc[i] = "replace" /\ definitions' = definitions
            /\ lists' = (lists \ snapshot[i]) \cup
                        [version : {Target(i)} \cap WithAllowlist, by : {i}]
        BY <3>4 DEF CommitReplace
      <4>2. /\ Target(i) = Current(i).version /\ Target(i) \in Versions
            /\ Current(i) \in sent /\ Proper(Current(i)) /\ Current(i).status = "active"
        BY <4>1, TargetIsCurrent DEF IInv, InstanceOK
      <4> PICK v \in Versions : v = Target(i)
        BY <4>2
      <4>3. <<v, "active">> \in Announced
        BY <4>2 DEF Announced
      <4> DEFINE kept == {l.version : l \in lists \ snapshot[i]}
      <4>4. entries' \in {kept, kept \cup {v}}
        <5>1. CASE v \in WithAllowlist
          <6>1. lists' = (lists \ snapshot[i]) \cup {[version |-> v, by |-> i]}
            BY <4>1, <5>1
          <6> QED
            BY <6>1
        <5>2. CASE v \notin WithAllowlist
          <6>1. lists' = lists \ snapshot[i]
            BY <4>1, <5>2
          <6> QED
            BY <6>1
        <5> QED
          BY <5>1, <5>2
      <4>5. kept \in SUBSET entries
        OBVIOUS
      <4>6. Register!Relist(v)
        <5>1. \E k \in SUBSET entries : entries' \in {k, k \cup {v}}
          <6> HIDE DEF kept, entries
          <6> QED
            BY <4>4, <4>5
        <5>2. UNCHANGED <<Announced, definitions>>
          BY <3>1, <4>1
        <5> QED
          BY <4>3, <5>1, <5>2 DEF Register!Relist
      <4> QED
        BY <4>6 DEF Register!Next
    <3> QED
      BY <2>3, <3>2, <3>3, <3>4, RegisterSteps
  <2>4. CASE UNCHANGED vars
    BY <2>4 DEF vars, outside, store, Announced, Proper
  <2> QED
    BY <2>1, <2>2, <2>3, <2>4 DEF Next, Broker, Acts
<1> QED
  BY Invariant, <1>1, <1>2, PTL DEF Spec, Register!Spec, ImplementsRegister

===========================================================================
