-------------------------- MODULE Allowlist_proof --------------------------
(***************************************************************************)
(* Proofs about Allowlist, for any users, lists, instances and calls, and  *)
(* any bounds on answers, reads and secondaries: an answer is as old as    *)
(* the window at most, fact by fact, although no two of the facts it is    *)
(* put together from need ever have been true together.                    *)
(***************************************************************************)
EXTENDS Allowlist, TLAPS

USE TimeAssumption

---------------------------------------------------------------------------
(* What the reads find *)

\* A list has the entries of a user that allowlist.yaml names, and somebody
\* who is named has a list (buildAllowlistEntries).
LEMMA ReadsFindWhatIsPromised ==
  ASSUME NEW s \in Stores, NEW u \in Users
  PROVE  /\ \A f \in Grounds : Finds(s, u)[f] = Promised(s)[u][f]
         /\ \A f \in Grounds \ {"active"} : Promised(s)[u][f] => Finds(s, u)["listed"]
<1> DEFINE l == s.list
<1> DEFINE entries == buildAllowlistEntries(l)
<1>1. l \in Lists /\ s.active \in BOOLEAN /\ l.allowAll \in BOOLEAN
  BY DEF Stores
<1>2. (<<"crn", u.crn>> \in entries) = (~l.allowAll /\ u.crn \in l.crns)
  BY <1>1 DEF buildAllowlistEntries
<1>3. (<<"sbi", u.sbi>> \in entries) = (~l.allowAll /\ u.sbi \in l.sbis)
  BY <1>1 DEF buildAllowlistEntries
<1>4. (\E e \in entries : e[1] = "allowAll") = l.allowAll
  <2>1. CASE l.allowAll
    <3>1. <<"allowAll", "true">> \in entries /\ <<"allowAll", "true">>[1] = "allowAll"
      BY <2>1 DEF buildAllowlistEntries
    <3> QED
      BY <2>1, <3>1, <1>1
  <2>2. CASE ~l.allowAll
    <3>1. \A e \in entries : e[1] # "allowAll"
      BY <2>2 DEF buildAllowlistEntries
    <3> QED
      BY <2>2, <3>1, <1>1
  <2> QED
    BY <2>1, <2>2
<1>5. \A f \in Facts : Finds(s, u)[f] = (
        \/ f = "active"   /\ s.active
        \/ f = "crn"      /\ <<"crn", u.crn>> \in entries
        \/ f = "sbi"      /\ <<"sbi", u.sbi>> \in entries
        \/ f = "listed"   /\ entries # {}
        \/ f = "allowAll" /\ \E e \in entries : e[1] = "allowAll")
  BY DEF Finds, getAllActiveGrants, findGrantCodesByEntry, HasAllowlist, AllowsAll
<1>6. \A f \in Grounds : Promised(s)[u][f] = (
        \/ f = "active"   /\ s.active
        \/ f = "crn"      /\ ~l.allowAll /\ u.crn \in l.crns
        \/ f = "sbi"      /\ ~l.allowAll /\ u.sbi \in l.sbis
        \/ f = "allowAll" /\ l.allowAll)
  BY DEF Promised
<1>7. \A f \in Grounds : Finds(s, u)[f] = Promised(s)[u][f]
  <2> HIDE DEF entries
  <2> QED
    BY <1>2, <1>3, <1>4, <1>5, <1>6 DEF Grounds, Facts
<1>8. \A f \in Grounds \ {"active"} : Promised(s)[u][f] => entries # {}
  <2> HIDE DEF entries
  <2> QED
    BY <1>2, <1>3, <1>4, <1>6 DEF Grounds, Facts
<1>9. Finds(s, u)["listed"] = (entries # {})
  BY <1>5 DEF Facts
<1> QED
  BY <1>7, <1>8, <1>9

\* A fact is true or false.
LEMMA PromisesAreBoolean ==
  ASSUME NEW s \in Stores, NEW u \in Users, NEW f \in Grounds
  PROVE  Promised(s)[u][f] \in BOOLEAN
BY DEF Promised, Grounds, Facts, Stores

\* Access is given by more facts rather than fewer.
LEMMA EntitledIsMonotone ==
  ASSUME NEW P, NEW Q, \A f \in Grounds : P[f] => Q[f], Entitled(P)
  PROVE  Entitled(Q)
BY DEF Entitled, Grounds, Facts

---------------------------------------------------------------------------
(* Types *)

\* Every step keeps the variables in their types.
LEMMA NextKeepsTypes == TypeOK /\ [Next]_vars => TypeOK'
<1> SUFFICES ASSUME TypeOK, [Next]_vars PROVE TypeOK'
  OBVIOUS
<1> USE DEF TypeOK, data
<1>1. ASSUME NEW s \in Stores, Change(s) PROVE TypeOK'
  BY <1>1 DEF Change, Window
<1>2. ASSUME NEW l \in Lists, Replace(l) PROVE TypeOK'
  <2>1. [store EXCEPT !.list = l] \in Stores
    BY DEF Stores
  <2> QED
    BY <1>1, <1>2, <2>1 DEF Replace
<1>3. CASE Activate
  <2>1. [store EXCEPT !.active = ~store.active] \in Stores
    BY DEF Stores
  <2> QED
    BY <1>1, <1>3, <2>1 DEF Activate
<1>4. CASE Replicate
  BY <1>4 DEF Replicate
<1>5. CASE Tick
  <2>1. behind' \in 0..MaxLag
    BY <1>5 DEF Tick
  <2>2. age' \in [Users -> [Grounds -> 0..Window + 1]]
    BY <1>5 DEF Tick, Older, Window
  <2>3. cache' \in [Instances -> [Users -> [answer : BOOLEAN, age : 0..ttl] \cup {NoAnswer}]]
    <3> SUFFICES ASSUME NEW i \in Instances, NEW u \in Users
                 PROVE  cache'[i][u] \in [answer : BOOLEAN, age : 0..ttl] \cup {NoAnswer}
      BY <1>5 DEF Tick
    <3>1. CASE cache[i][u] = NoAnswer \/ cache[i][u].age = ttl
      BY <1>5, <3>1 DEF Tick
    <3>2. CASE ~(cache[i][u] = NoAnswer \/ cache[i][u].age = ttl)
      <4>1. cache[i][u] \in [answer : BOOLEAN, age : 0..ttl]
        BY <3>2
      <4>2. cache'[i][u] = [cache[i][u] EXCEPT !.age = @ + 1]
        BY <1>5, <3>2 DEF Tick
      <4>3. cache[i][u].age + 1 \in 0..ttl
        <5>1. cache[i][u].age \in 0..ttl /\ cache[i][u].age # ttl
          BY <3>2, <4>1
        <5> HIDE DEF TypeOK
        <5> QED
          BY <5>1
      <4>4. cache'[i][u] \in [answer : BOOLEAN, age : 0..ttl]
        <5> HIDE DEF TypeOK
        <5> QED
          BY <4>1, <4>2, <4>3
      <4> QED
        BY <4>4
    <3> QED
      BY <3>1, <3>2
  <2>4. \A c \in Calls : calls'[c] = IF Reading(c) THEN [calls[c] EXCEPT !.age = @ + 1] ELSE calls[c]
    BY <1>5 DEF Tick
  <2>5. calls' \in [Calls -> {Idle}
          \cup [pc : {"reading"}, instance : Instances, user : Users, age : 0..MaxRead,
                known : [Facts -> BOOLEAN \cup {NoAnswer}]]]
    <3> SUFFICES ASSUME NEW c \in Calls, Reading(c)
                 PROVE  [calls[c] EXCEPT !.age = @ + 1]
                          \in [pc : {"reading"}, instance : Instances, user : Users,
                               age : 0..MaxRead, known : [Facts -> BOOLEAN \cup {NoAnswer}]]
      BY <1>5, <2>4 DEF Tick
    <3>1. calls[c] \in [pc : {"reading"}, instance : Instances, user : Users,
                        age : 0..MaxRead, known : [Facts -> BOOLEAN \cup {NoAnswer}]]
      BY DEF Reading, Idle
    <3>2. calls[c].age + 1 \in 0..MaxRead
      BY <1>5, <3>1 DEF Tick
    <3> HIDE DEF TypeOK
    <3> QED
      BY <3>1, <3>2
  <2> QED
    BY <1>5, <2>1, <2>2, <2>3, <2>5 DEF Tick
<1>6. ASSUME NEW i \in Instances, NEW u \in Users, Evict(i, u) PROVE TypeOK'
  BY <1>6 DEF Evict
<1>7. ASSUME NEW i \in Instances, NEW u \in Users, NEW c \in Calls, StartReading(c, i, u)
      PROVE  TypeOK'
  BY <1>7 DEF StartReading, Nothing
<1>8. ASSUME NEW c \in Calls, NEW r \in Reads, Read(c, r) PROVE TypeOK'
  <2>1. PICK view \in {store, replica} :
          calls' = [calls EXCEPT ![c].known =
            [f \in Facts |-> IF f \in r THEN Finds(view, calls[c].user)[f] ELSE @[f]]]
    BY <1>8 DEF Read
  <2>2. \A f \in Facts : Finds(view, calls[c].user)[f] \in BOOLEAN
    BY DEF Finds
  <2> DEFINE known == [f \in Facts |-> IF f \in r THEN Finds(view, calls[c].user)[f]
                                                  ELSE calls[c].known[f]]
  <2>3. calls[c] \in [pc : {"reading"}, instance : Instances, user : Users, age : 0..MaxRead,
                      known : [Facts -> BOOLEAN \cup {NoAnswer}]]
    BY <1>8 DEF Read, Reading, Idle
  <2>4. known \in [Facts -> BOOLEAN \cup {NoAnswer}]
    BY <2>2, <2>3
  <2>5. calls' = [calls EXCEPT ![c] = [calls[c] EXCEPT !.known = known]]
    BY <2>1
  <2> HIDE DEF known
  <2> QED
    BY <1>8, <2>3, <2>4, <2>5 DEF Read
<1>9. ASSUME NEW c \in Calls, Respond(c) PROVE TypeOK'
  <2>1. /\ calls[c].instance \in Instances
        /\ calls[c].user \in Users
    BY <1>9 DEF Respond, Reading, Idle
  <2>2. Allowed(calls[c].known) \in BOOLEAN
    BY DEF Allowed
  <2> QED
    BY <1>9, <2>1, <2>2 DEF Respond
<1>10. ASSUME NEW c \in Calls, Fail(c) PROVE TypeOK'
  BY <1>10 DEF Fail
<1>11. CASE UNCHANGED vars
  BY <1>11 DEF vars
<1> QED
  BY <1>2, <1>3, <1>4, <1>5, <1>6, <1>7, <1>8, <1>9, <1>10, <1>11
  DEF Next, AnswerFromCache, vars

---------------------------------------------------------------------------
(* The inductive invariant: whoever holds a fact, holds one that was true  *)
(* no longer ago than his bound. The bounds add up, from the secondary to  *)
(* the call that reads it, and from the call to the answer.                *)

\* What may be believed of a user, within the last b, given the facts and
\* how long each has been as it is.
Recent(facts, ages, b) == [f \in Grounds |-> facts[f] \/ ages[f] <= b]
Lasting(facts, ages, b) == [f \in Grounds |-> facts[f] /\ ages[f] > b]

AnswerIsRecent(answer, facts, ages, b) ==
  /\ answer => Entitled(Recent(facts, ages, b))
  /\ Entitled(Lasting(facts, ages, b)) => answer

KnownIsRecent(known, facts, ages, b) ==
  /\ \A f \in Grounds : known[f] # NoAnswer /\ ages[f] > b => known[f] = facts[f]
  /\ \A f \in Grounds \ {"active"} :
       known["listed"] # NoAnswer /\ ages[f] > b /\ facts[f] => known["listed"]

ReplicaIsRecent ==
  \A u \in Users, f \in Grounds :
    age[u][f] > behind => Promised(replica)[u][f] = Promised(store)[u][f]

\* A call knows facts, and that there is a list if there is reason for one.
CallsAreRecent ==
  \A c \in Calls : Reading(c) =>
    LET u == calls[c].user
    IN  KnownIsRecent(calls[c].known, Promised(store)[u], age[u], calls[c].age + MaxLag)

AnswersAreRecent ==
  \A i \in Instances, u \in Users : cache[i][u] # NoAnswer =>
    AnswerIsRecent(cache[i][u].answer, Promised(store)[u], age[u],
                   cache[i][u].age + MaxRead + MaxLag)

IInv == TypeOK /\ ReplicaIsRecent /\ CallsAreRecent /\ AnswersAreRecent

\* A longer bound, another moment or a change leave a recent answer recent.
LEMMA AnswerStaysRecent ==
  ASSUME NEW answer, NEW facts, NEW ages, NEW b \in Nat,
         NEW facts2, NEW ages2, NEW b2 \in Nat,
         \A f \in Grounds : /\ ages[f] > b => ages2[f] <= b2 \/ facts2[f] = facts[f]
                            /\ ages[f] <= b => ages2[f] <= b2,
         \A f \in Grounds : ages[f] \in Nat /\ ages2[f] \in Nat,
         AnswerIsRecent(answer, facts, ages, b)
  PROVE  AnswerIsRecent(answer, facts2, ages2, b2)
<1>1. \A f \in Grounds : \/ ages[f] <= b /\ ages2[f] <= b2 /\ ~(ages2[f] > b2)
                         \/ ages2[f] <= b2 /\ ~(ages2[f] > b2)
                         \/ ages[f] > b /\ ~(ages[f] <= b) /\ facts2[f] = facts[f]
  OBVIOUS
<1>2. \A f \in Grounds : Recent(facts, ages, b)[f] => Recent(facts2, ages2, b2)[f]
  BY <1>1, Zenon DEF Recent
<1>3. \A f \in Grounds : Lasting(facts2, ages2, b2)[f] => Lasting(facts, ages, b)[f]
  BY <1>1, Zenon DEF Lasting
<1>4. Entitled(Recent(facts, ages, b)) => Entitled(Recent(facts2, ages2, b2))
  BY <1>2, EntitledIsMonotone
<1>5. Entitled(Lasting(facts2, ages2, b2)) => Entitled(Lasting(facts, ages, b))
  BY <1>3, EntitledIsMonotone
<1> QED
  BY <1>4, <1>5 DEF AnswerIsRecent

\* The invariant says of the window what the two properties say.
LEMMA InvariantImplies == IInv => RevokedAreRefused /\ AdmittedAreAllowed
<1> SUFFICES ASSUME IInv, NEW i \in Instances, NEW u \in Users, cache[i][u] # NoAnswer
             PROVE  /\ cache[i][u].answer => Entitled(AtBest(u))
                    /\ Entitled(AtWorst(u)) => cache[i][u].answer
  BY DEF RevokedAreRefused, AdmittedAreAllowed
<1>1. cache[i][u].age + MaxRead + MaxLag \in Nat
      /\ cache[i][u].age + MaxRead + MaxLag <= Window /\ Window \in Nat
  BY DEF IInv, TypeOK, Window
<1>2. \A f \in Grounds : age[u][f] \in Nat
  BY DEF IInv, TypeOK, Window
<1>3. AnswerIsRecent(cache[i][u].answer, Promised(store)[u], age[u], Window)
  <2>1. AnswerIsRecent(cache[i][u].answer, Promised(store)[u], age[u],
                       cache[i][u].age + MaxRead + MaxLag)
    BY DEF IInv, AnswersAreRecent
  <2> DEFINE b == cache[i][u].age + MaxRead + MaxLag
  <2>2. \A f \in Grounds : age[u][f] <= b => age[u][f] <= Window
    <3>1. b \in Nat /\ b <= Window /\ Window \in Nat
      BY <1>1
    <3> HIDE DEF b
    <3> QED
      BY <3>1, <1>2
  <2> QED
    BY <1>1, <1>2, <2>1, <2>2, AnswerStaysRecent
<1>4. \A f \in Grounds : (age[u][f] <= Window) = ~Settled(u, f)
  BY <1>1, <1>2 DEF Settled
<1>5. \A f \in Grounds : (age[u][f] > Window) = Settled(u, f)
  BY DEF Settled
<1>6. Recent(Promised(store)[u], age[u], Window) = AtBest(u)
  BY <1>4, Zenon DEF Recent, AtBest
<1>7. Lasting(Promised(store)[u], age[u], Window) = AtWorst(u)
  BY <1>5, Zenon DEF Lasting, AtWorst
<1> QED
  BY <1>3, <1>6, <1>7 DEF AnswerIsRecent

\* Nothing is read, cached or replicated at first.
LEMMA InitEstablishes == Init => IInv
<1> SUFFICES ASSUME Init PROVE IInv
  OBVIOUS
<1>1. TypeOK
  BY DEF Init, TypeOK, Window, Idle
<1>2. ReplicaIsRecent
  BY DEF Init, ReplicaIsRecent
<1>3. CallsAreRecent
  BY DEF Init, CallsAreRecent, Reading, Idle
<1>4. AnswersAreRecent
  BY DEF Init, AnswersAreRecent
<1> QED
  BY <1>1, <1>2, <1>3, <1>4 DEF IInv

\* So does what a call knows.
LEMMA KnownStaysRecent ==
  ASSUME NEW known, NEW facts, NEW ages, NEW b, NEW facts2, NEW ages2, NEW b2,
         \A f \in Grounds : ages2[f] > b2 => ages[f] > b /\ facts2[f] = facts[f],
         KnownIsRecent(known, facts, ages, b)
  PROVE  KnownIsRecent(known, facts2, ages2, b2)
BY Zenon DEF KnownIsRecent

\* The answer to what a call knows is as recent as that is
\* (the filter of resolveAllowedGrants).
LEMMA KnownGivesAnswer ==
  ASSUME NEW known \in [Facts -> BOOLEAN], NEW facts, NEW ages, NEW b \in Nat,
         \A f \in Grounds : ages[f] \in Nat,
         KnownIsRecent(known, facts, ages, b)
  PROVE  AnswerIsRecent(Allowed(known), facts, ages, b)
<1>1. \A f \in Grounds : f \in Facts /\ (ages[f] <= b \/ ages[f] > b)
  BY DEF Grounds
<1>2. \A f \in Facts : known[f] # NoAnswer
  OBVIOUS
<1>3. \A f \in Grounds : known[f] => Recent(facts, ages, b)[f]
  BY <1>1, <1>2, Zenon DEF KnownIsRecent, Recent
<1>4. \A f \in Grounds : Lasting(facts, ages, b)[f] => known[f]
  BY <1>1, <1>2, Zenon DEF KnownIsRecent, Lasting
<1>5. \A f \in Grounds \ {"active"} : Lasting(facts, ages, b)[f] => known["listed"]
  <2>1. "listed" \in Facts
    BY DEF Facts
  <2>2. \A f \in Grounds \ {"active"} : f \in Grounds
    OBVIOUS
  <2> QED
    BY <1>1, <1>2, <2>1, <2>2, Zenon DEF KnownIsRecent, Lasting
<1>6. "active" \in Grounds /\ {"crn", "sbi", "allowAll"} \subseteq Grounds \ {"active"}
  BY DEF Grounds, Facts
<1> QED
  BY <1>3, <1>4, <1>5, <1>6 DEF AnswerIsRecent, Allowed, Entitled

---------------------------------------------------------------------------
(* Steps *)

\* A change makes the facts that it changes young and leaves the rest alone.
LEMMA ChangeIsSeen ==
  ASSUME TypeOK, NEW s \in Stores, Change(s), NEW u \in Users, NEW f \in Grounds
  PROVE  \/ age'[u][f] = 0
         \/ /\ age'[u][f] = age[u][f]
            /\ Promised(store')[u][f] = Promised(store)[u][f]
BY DEF Change, TypeOK

\* With time every fact grows older by one at most.
LEMMA TickIsSeen ==
  ASSUME TypeOK, Tick, NEW u \in Users, NEW f \in Grounds
  PROVE  /\ age[u][f] \in Nat /\ age'[u][f] \in Nat
         /\ age'[u][f] <= age[u][f] + 1
         /\ age'[u][f] > MaxLag => age[u][f] >= MaxLag
         /\ age[u][f] > MaxLag => age'[u][f] > MaxLag
BY DEF Tick, TypeOK, Older, Window

\* A secondary is behind by facts that have changed since it was up to date.
LEMMA NextKeepsReplica == IInv /\ [Next]_vars => ReplicaIsRecent'
<1> SUFFICES ASSUME IInv, [Next]_vars, NEW u \in Users, NEW f \in Grounds,
                    age'[u][f] > behind'
             PROVE  Promised(replica')[u][f] = Promised(store')[u][f]
  BY DEF ReplicaIsRecent
<1>1. TypeOK /\ (age[u][f] > behind => Promised(replica)[u][f] = Promised(store)[u][f])
  BY DEF IInv, ReplicaIsRecent
<1>2. ASSUME NEW s \in Stores, Change(s)
      PROVE  Promised(replica')[u][f] = Promised(store')[u][f]
  <2>1. age'[u][f] = age[u][f] /\ Promised(store')[u][f] = Promised(store)[u][f]
    BY <1>1, <1>2, ChangeIsSeen DEF Change, TypeOK
  <2>2. replica' = replica
    BY <1>2 DEF Change
  <2>3. CASE replica = store
    BY <2>1, <2>2, <2>3
  <2>4. CASE replica # store
    <3>1. behind' = behind
      BY <1>2, <2>4 DEF Change
    <3> QED
      BY <1>1, <2>1, <2>2, <3>1
  <2> QED
    BY <2>3, <2>4
<1>3. ASSUME NEW l \in Lists, Replace(l)
      PROVE  Promised(replica')[u][f] = Promised(store')[u][f]
  <2>1. [store EXCEPT !.list = l] \in Stores
    BY <1>1 DEF Stores, TypeOK
  <2> QED
    BY <1>2, <1>3, <2>1 DEF Replace
<1>4. CASE Activate
  <2>1. [store EXCEPT !.active = ~store.active] \in Stores
    BY <1>1 DEF Stores, TypeOK
  <2> QED
    BY <1>2, <1>4, <2>1 DEF Activate
<1>5. CASE Replicate
  BY <1>5 DEF Replicate
<1>6. CASE Tick
  <2>1. replica' = replica /\ store' = store
    BY <1>6 DEF Tick
  <2>2. CASE replica = store
    BY <2>1, <2>2
  <2>3. CASE replica # store
    <3>1. behind' = behind + 1 /\ behind \in Nat
      BY <1>1, <1>6, <2>3 DEF Tick, TypeOK
    <3>2. age[u][f] > behind
      BY <1>1, <1>6, <3>1, TickIsSeen
    <3> QED
      BY <1>1, <2>1, <3>2
  <2> QED
    BY <2>2, <2>3
<1>7. CASE UNCHANGED data
  BY <1>1, <1>7 DEF data
<1> QED
  BY <1>3, <1>4, <1>5, <1>6, <1>7
  DEF Next, AnswerFromCache, Evict, StartReading, Read, Respond, Fail, vars

\* What is read is as recent as the secondary that it may be read from.
LEMMA NextKeepsCalls == IInv /\ [Next]_vars => CallsAreRecent'
<1> DEFINE Ok(d) == KnownIsRecent(calls'[d].known, Promised(store')[calls'[d].user],
                                  age'[calls'[d].user], calls'[d].age + MaxLag)
<1> SUFFICES ASSUME IInv, [Next]_vars, NEW d \in Calls, Reading(d)'
             PROVE  Ok(d)
  BY DEF CallsAreRecent
<1>t. TypeOK
  BY DEF IInv
<1> DEFINE w == calls[d].user
<1> DEFINE b == calls[d].age + MaxLag
<1>1. Reading(d) => /\ KnownIsRecent(calls[d].known, Promised(store)[w], age[w], b)
                    /\ w \in Users /\ calls[d].age \in 0..MaxRead
                    /\ calls[d].known \in [Facts -> BOOLEAN \cup {NoAnswer}]
  BY <1>t DEF IInv, CallsAreRecent, TypeOK, Reading, Idle
<1>2. ASSUME NEW s \in Stores, Change(s)
      PROVE  Ok(d)
  <2>1. Reading(d) /\ calls' = calls
    BY <1>2 DEF Change, Reading
  <2>2. \A f \in Grounds : age'[w][f] > b =>
          age[w][f] > b /\ Promised(store')[w][f] = Promised(store)[w][f]
    <3> SUFFICES ASSUME NEW f \in Grounds, age'[w][f] > b
                 PROVE  age[w][f] > b /\ Promised(store')[w][f] = Promised(store)[w][f]
      OBVIOUS
    <3>1. b \in Nat
      BY <1>1, <2>1
    <3> QED
      BY <1>t, <1>1, <1>2, <2>1, <3>1, ChangeIsSeen
  <2>3. KnownIsRecent(calls[d].known, Promised(store')[w], age'[w], b)
    BY <1>1, <2>1, <2>2, KnownStaysRecent
  <2> QED
    BY <2>1, <2>3
<1>3. ASSUME NEW l \in Lists, Replace(l)
      PROVE  Ok(d)
  <2>1. [store EXCEPT !.list = l] \in Stores
    BY <1>t DEF Stores, TypeOK
  <2> HIDE DEF Ok
  <2> QED
    BY <1>2, <1>3, <2>1 DEF Replace
<1>4. CASE Activate
  <2>1. [store EXCEPT !.active = ~store.active] \in Stores
    BY <1>t DEF Stores, TypeOK
  <2> HIDE DEF Ok
  <2> QED
    BY <1>2, <1>4, <2>1 DEF Activate
<1>5. CASE Tick
  <2>1. calls'[d] = IF Reading(d) THEN [calls[d] EXCEPT !.age = @ + 1] ELSE calls[d]
    BY <1>5 DEF Tick
  <2>2. Reading(d)
    BY <2>1 DEF Reading
  <2>3. /\ calls'[d].known = calls[d].known /\ calls'[d].user = w
        /\ calls'[d].age = calls[d].age + 1 /\ store' = store
    <3>1. calls[d] \in [pc : {"reading"}, instance : Instances, user : Users, age : 0..MaxRead,
                        known : [Facts -> BOOLEAN \cup {NoAnswer}]]
      BY <1>t, <2>2 DEF TypeOK, Reading, Idle
    <3> QED
      BY <1>5, <2>1, <2>2, <3>1 DEF Tick
  <2>4. \A f \in Grounds : age'[w][f] > b + 1 =>
          age[w][f] > b /\ Promised(store')[w][f] = Promised(store)[w][f]
    <3> SUFFICES ASSUME NEW f \in Grounds, age'[w][f] > b + 1
                 PROVE  age[w][f] > b
      BY <2>3
    <3>1. b \in Nat
      BY <1>1, <2>2
    <3>2. age[w][f] \in Nat /\ age'[w][f] \in Nat /\ age'[w][f] <= age[w][f] + 1
      BY <1>t, <1>1, <1>5, <2>2, TickIsSeen
    <3> HIDE DEF b, w
    <3> QED
      BY <3>1, <3>2
  <2>5. KnownIsRecent(calls[d].known, Promised(store')[w], age'[w], b + 1)
    BY <1>1, <2>2, <2>4, KnownStaysRecent
  <2>6. calls'[d].age + MaxLag = b + 1
    BY <1>1, <2>2, <2>3
  <2> QED
    BY <2>3, <2>5, <2>6
<1>6. ASSUME calls'[d] = calls[d], store' = store, age' = age
      PROVE  Ok(d)
  BY <1>1, <1>6 DEF Reading
<1>7. ASSUME NEW i \in Instances, NEW u \in Users, NEW c \in Calls, StartReading(c, i, u)
      PROVE  Ok(d)
  <2>1. CASE d = c
    <3>1. \A f \in Facts : calls'[d].known[f] = NoAnswer
      BY <1>t, <1>7, <2>1 DEF StartReading, Nothing, TypeOK
    <3> QED
      BY <3>1 DEF KnownIsRecent, Grounds, Facts
  <2>2. CASE d # c
    <3> HIDE DEF Ok
    <3> QED
      BY <1>t, <1>6, <1>7, <2>2 DEF StartReading, TypeOK, data
  <2> QED
    BY <2>1, <2>2
<1>8. ASSUME NEW c \in Calls, NEW r \in Reads, Read(c, r)
      PROVE  Ok(d)
  <2>0. UNCHANGED data
    BY <1>8 DEF Read
  <2>1. CASE d # c
    <3>1. calls'[d] = calls[d]
      BY <1>t, <1>8, <2>1 DEF Read, TypeOK
    <3> HIDE DEF Ok
    <3> QED
      BY <1>6, <2>0, <3>1 DEF data
  <2>2. CASE d = c
    <3>1. PICK view \in {store, replica} :
            calls' = [calls EXCEPT ![c].known =
              [f \in Facts |-> IF f \in r THEN Finds(view, calls[c].user)[f] ELSE @[f]]]
      BY <1>8 DEF Read
    <3>2. Reading(d)
      BY <1>8, <2>2 DEF Read
    <3> DEFINE known == calls'[d].known
    <3>3. calls[d] \in [pc : {"reading"}, instance : Instances, user : Users, age : 0..MaxRead,
                        known : [Facts -> BOOLEAN \cup {NoAnswer}]]
      BY <1>t, <3>2 DEF TypeOK, Reading, Idle
    <3>4. /\ calls'[d].user = w /\ calls'[d].age = calls[d].age
          /\ \A f \in Facts : known[f] = IF f \in r THEN Finds(view, w)[f] ELSE calls[d].known[f]
      BY <1>t, <2>2, <3>1, <3>3 DEF TypeOK
    <3>5. \A f \in Grounds : age[w][f] > b => Promised(view)[w][f] = Promised(store)[w][f]
      <4> SUFFICES ASSUME NEW f \in Grounds, age[w][f] > b
                   PROVE  Promised(replica)[w][f] = Promised(store)[w][f]
        BY <3>1
      <4>1. age[w][f] > behind
        BY <1>t, <3>3 DEF TypeOK
      <4> QED
        BY <3>3, <4>1 DEF IInv, ReplicaIsRecent
    <3>6. view \in Stores /\ w \in Users
      BY <1>t, <3>1, <3>3 DEF TypeOK
    <3>7. \A f \in Grounds : f \in Facts
      BY DEF Grounds
    <3>8. KnownIsRecent(calls[d].known, Promised(store)[w], age[w], b)
      BY <1>1, <3>2
    <3>9. \A f \in Grounds :
            known[f] # NoAnswer /\ age[w][f] > b => known[f] = Promised(store)[w][f]
      <4> SUFFICES ASSUME NEW f \in Grounds, known[f] # NoAnswer, age[w][f] > b
                   PROVE  known[f] = Promised(store)[w][f]
        OBVIOUS
      <4>1. Finds(view, w)[f] = Promised(view)[w][f]
        BY <3>6, ReadsFindWhatIsPromised
      <4>2. known[f] = IF f \in r THEN Finds(view, w)[f] ELSE calls[d].known[f]
        BY <3>4, <3>7
      <4>3. calls[d].known[f] # NoAnswer => calls[d].known[f] = Promised(store)[w][f]
        BY <3>8 DEF KnownIsRecent
      <4> HIDE DEF known, w, b
      <4> QED
        BY <3>5, <4>1, <4>2, <4>3
    <3>10. \A f \in Grounds \ {"active"} :
             known["listed"] # NoAnswer /\ age[w][f] > b /\ Promised(store)[w][f] =>
               known["listed"]
      <4>1. known["listed"] = IF "listed" \in r THEN Finds(view, w)["listed"]
                                                ELSE calls[d].known["listed"]
        BY <3>4 DEF Facts
      <4>2. \A f \in Grounds \ {"active"} : f \in Grounds
        OBVIOUS
      <4>3. \A f \in Grounds \ {"active"} :
              age[w][f] > b /\ Promised(store)[w][f] => Finds(view, w)["listed"]
        <5> HIDE DEF w, b
        <5> QED
          BY <3>5, <3>6, <4>2, ReadsFindWhatIsPromised, Zenon
      <4> HIDE DEF known, w, b
      <4> QED
        BY <3>8, <4>1, <4>3, Zenon DEF KnownIsRecent
    <3>11. KnownIsRecent(known, Promised(store)[w], age[w], b)
      <4> HIDE DEF known, w, b
      <4> QED
        BY <3>9, <3>10, Zenon DEF KnownIsRecent
    <3> QED
      BY <2>0, <3>4, <3>11 DEF data
  <2> QED
    BY <2>1, <2>2
<1>9. ASSUME NEW c \in Calls, UNCHANGED data, calls' = [calls EXCEPT ![c] = Idle]
      PROVE  Ok(d)
  <2>1. d # c
    BY <1>t, <1>9 DEF TypeOK, Reading, Idle
  <2>2. calls'[d] = calls[d]
    BY <1>t, <1>9, <2>1 DEF TypeOK
  <2> HIDE DEF Ok
  <2> QED
    BY <1>6, <1>9, <2>2 DEF data
<1>10. CASE Replicate
  <2> HIDE DEF Ok
  <2> QED
    BY <1>6, <1>10 DEF Replicate
<1>11. CASE UNCHANGED <<data, calls>>
  <2> HIDE DEF Ok
  <2> QED
    BY <1>6, <1>11 DEF data
<1> HIDE DEF Ok
<1> QED
  BY <1>3, <1>4, <1>5, <1>7, <1>8, <1>9, <1>10, <1>11
  DEF Next, AnswerFromCache, Evict, Respond, Fail, vars

\* An answer is as recent as what it was put together from, and grows old
\* no slower than that.
LEMMA NextKeepsAnswers == IInv /\ [Next]_vars => AnswersAreRecent'
<1> DEFINE Ok(j, v) == AnswerIsRecent(cache'[j][v].answer, Promised(store')[v], age'[v],
                                      cache'[j][v].age + MaxRead + MaxLag)
<1> SUFFICES ASSUME IInv, [Next]_vars, NEW j \in Instances, NEW v \in Users,
                    cache'[j][v] # NoAnswer
             PROVE  Ok(j, v)
  BY DEF AnswersAreRecent
<1>t. TypeOK
  BY DEF IInv
<1> DEFINE b == cache[j][v].age + MaxRead + MaxLag
<1>1. cache[j][v] # NoAnswer =>
        /\ AnswerIsRecent(cache[j][v].answer, Promised(store)[v], age[v], b)
        /\ cache[j][v] \in [answer : BOOLEAN, age : 0..ttl]
        /\ b \in Nat
  BY <1>t DEF IInv, AnswersAreRecent, TypeOK
<1>a. \A f \in Grounds : age[v][f] \in Nat
  BY <1>t DEF TypeOK, Window
<1>2. ASSUME cache'[j][v] = cache[j][v], store' = store, age' = age
      PROVE  Ok(j, v)
  BY <1>1, <1>2
<1>3. ASSUME NEW s \in Stores, Change(s)
      PROVE  Ok(j, v)
  <2>1. cache' = cache
    BY <1>3 DEF Change
  <2>2. \A f \in Grounds : /\ age'[v][f] \in Nat
                           /\ age[v][f] > b =>
                                age'[v][f] <= b \/ Promised(store')[v][f] = Promised(store)[v][f]
                           /\ age[v][f] <= b => age'[v][f] <= b
    <3> SUFFICES ASSUME NEW f \in Grounds
                 PROVE  \/ age'[v][f] \in Nat /\ age'[v][f] <= b
                        \/ /\ age'[v][f] = age[v][f]
                           /\ Promised(store')[v][f] = Promised(store)[v][f]
      BY <1>a
    <3>1. b \in Nat
      BY <1>1, <2>1
    <3> QED
      BY <1>t, <1>3, <3>1, ChangeIsSeen
  <2>3. AnswerIsRecent(cache[j][v].answer, Promised(store')[v], age'[v], b)
    BY <1>1, <1>a, <2>1, <2>2, AnswerStaysRecent
  <2> QED
    BY <2>1, <2>3
<1>4. ASSUME NEW l \in Lists, Replace(l)
      PROVE  Ok(j, v)
  <2>1. [store EXCEPT !.list = l] \in Stores
    BY <1>t DEF Stores, TypeOK
  <2> HIDE DEF Ok
  <2> QED
    BY <1>3, <1>4, <2>1 DEF Replace
<1>5. CASE Activate
  <2>1. [store EXCEPT !.active = ~store.active] \in Stores
    BY <1>t DEF Stores, TypeOK
  <2> HIDE DEF Ok
  <2> QED
    BY <1>3, <1>5, <2>1 DEF Activate
<1>6. CASE Tick
  <2>1. /\ cache[j][v] # NoAnswer
        /\ cache'[j][v] = [cache[j][v] EXCEPT !.age = @ + 1]
    BY <1>6 DEF Tick
  <2>2. /\ cache'[j][v].answer = cache[j][v].answer
        /\ cache'[j][v].age = cache[j][v].age + 1
        /\ store' = store
    BY <1>1, <1>6, <2>1 DEF Tick
  <2>3. b \in Nat /\ cache'[j][v].age + MaxRead + MaxLag = b + 1
    BY <1>1, <2>1, <2>2
  <2>4. \A f \in Grounds : age'[v][f] \in Nat /\ (age[v][f] <= b => age'[v][f] <= b + 1)
    <3> SUFFICES ASSUME NEW f \in Grounds
                 PROVE  age'[v][f] \in Nat /\ (age[v][f] <= b => age'[v][f] <= b + 1)
      OBVIOUS
    <3>1. age[v][f] \in Nat /\ age'[v][f] \in Nat /\ age'[v][f] <= age[v][f] + 1
      BY <1>t, <1>6, TickIsSeen
    <3> HIDE DEF b
    <3> QED
      BY <2>3, <3>1
  <2>5. AnswerIsRecent(cache[j][v].answer, Promised(store')[v], age'[v], b + 1)
    <3>1. AnswerIsRecent(cache[j][v].answer, Promised(store)[v], age[v], b)
      BY <1>1, <2>1
    <3>2. b + 1 \in Nat
      BY <2>3
    <3> HIDE DEF b
    <3> QED
      BY <1>a, <2>2, <2>3, <2>4, <3>1, <3>2, AnswerStaysRecent
  <2> QED
    BY <2>2, <2>3, <2>5
<1>7. ASSUME NEW i \in Instances, NEW u \in Users, Evict(i, u)
      PROVE  Ok(j, v)
  <2>1. cache'[j][v] = cache[j][v] /\ UNCHANGED data
    BY <1>t, <1>7 DEF Evict, TypeOK
  <2> HIDE DEF Ok
  <2> QED
    BY <1>2, <2>1 DEF data
<1>8. ASSUME NEW c \in Calls, Respond(c)
      PROVE  Ok(j, v)
  <2>1. calls[c] \in [pc : {"reading"}, instance : Instances, user : Users, age : 0..MaxRead,
                      known : [Facts -> BOOLEAN \cup {NoAnswer}]]
    BY <1>t, <1>8 DEF Respond, TypeOK, Reading, Idle
  <2>2. CASE j = calls[c].instance /\ v = calls[c].user
    <3>1. /\ cache'[j][v] = [answer |-> Allowed(calls[c].known), age |-> 0]
          /\ UNCHANGED data
      BY <1>t, <1>8, <2>1, <2>2 DEF Respond, TypeOK
    <3>2. calls[c].known \in [Facts -> BOOLEAN]
      BY <1>8, <2>1 DEF Respond
    <3> DEFINE read == calls[c].age + MaxLag
    <3> DEFINE limit == 0 + MaxRead + MaxLag
    <3>3. read \in Nat /\ limit \in Nat /\ read <= limit
      BY <2>1
    <3>4. KnownIsRecent(calls[c].known, Promised(store)[v], age[v], read)
      BY <1>8, <2>2 DEF Respond, IInv, CallsAreRecent
    <3> HIDE DEF read, limit
    <3>5. AnswerIsRecent(Allowed(calls[c].known), Promised(store)[v], age[v], read)
      BY <1>a, <3>2, <3>3, <3>4, KnownGivesAnswer
    <3>6. \A f \in Grounds : age[v][f] <= read => age[v][f] <= limit
      BY <1>a, <3>3
    <3>7. AnswerIsRecent(Allowed(calls[c].known), Promised(store)[v], age[v], limit)
      BY <1>a, <3>3, <3>5, <3>6, AnswerStaysRecent
    <3> QED
      BY <3>1, <3>7 DEF limit, data
  <2>3. CASE ~(j = calls[c].instance /\ v = calls[c].user)
    <3>1. cache'[j][v] = cache[j][v] /\ UNCHANGED data
      BY <1>t, <1>8, <2>1, <2>3 DEF Respond, TypeOK
    <3> HIDE DEF Ok
    <3> QED
      BY <1>2, <3>1 DEF data
  <2> QED
    BY <2>2, <2>3
<1>9. ASSUME UNCHANGED cache, UNCHANGED <<store, age>>
      PROVE  Ok(j, v)
  <2> HIDE DEF Ok
  <2> QED
    BY <1>2, <1>9
<1> HIDE DEF Ok
<1> QED
  BY <1>4, <1>5, <1>6, <1>7, <1>8, <1>9
  DEF Next, AnswerFromCache, Replicate, StartReading, Read, Fail, vars, data

---------------------------------------------------------------------------
(* Theorems *)

\* The inductive invariant holds of every state.
THEOREM Invariant == Spec => []IInv
<1>1. IInv /\ [Next]_vars => IInv'
  BY NextKeepsTypes, NextKeepsReplica, NextKeepsCalls, NextKeepsAnswers DEF IInv
<1> QED
  BY <1>1, InitEstablishes, PTL DEF Spec

\* The config database, the cache and the calls of resolveAllowedGrants are
\* of their types.
THEOREM TypeCorrect == Spec => []TypeOK
<1>1. IInv => TypeOK
  BY DEF IInv
<1> QED
  BY <1>1, Invariant, PTL

\* A user from whom a ground has been missing for longer than the window is
\* refused, for any number of instances and calls (resolveAllowedGrants). Grounds
\* that come and go within the window count as there, each by itself.
THEOREM RevocationTakesEffect == Spec => []RevokedAreRefused
BY InvariantImplies, Invariant, PTL

\* A user who has had all grounds of one kind (an open list, or both his numbers
\* named) for longer than the window is let in. Grounds that come and go within the
\* window count as missing, each by itself.
THEOREM AdmissionTakesEffect == Spec => []AdmittedAreAllowed
BY InvariantImplies, Invariant, PTL

===========================================================================
