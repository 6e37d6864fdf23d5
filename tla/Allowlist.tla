----------------------------- MODULE Allowlist -----------------------------
(***************************************************************************)
(* Who may see a grant: GET /allowlist/grants (resolveAllowedGrants).      *)
(* The answer is put together from four reads without a common snapshot,   *)
(* each of which may go to a secondary that is behind, and is then kept by *)
(* the instance for a while, whatever happens to the lists.                *)
(*                                                                         *)
(* One grant. How its list and its active versions come to be what they    *)
(* are is the subject of ConfigIngest: a change here is one step, as its   *)
(* transactions are.                                                       *)
(***************************************************************************)
EXTENDS Naturals

CONSTANTS
  Users,         \* users, by their crn and sbi
  Lists,         \* env blocks of allowlist.yaml
  Instances,     \* instances of the service
  Calls,         \* calls of resolveAllowedGrants
  ttl,           \* how long an instance keeps an answer
  MaxRead,       \* a call's reads are over within this time
  MaxLag,        \* a secondary is behind by no more than this
  NoAnswer       \* nothing cached, or nothing read yet

\* A block has allowAll, crns and sbis; no block is one with none of them.
ASSUME TimeAssumption ==
  /\ ttl \in Nat /\ MaxRead \in Nat /\ MaxLag \in Nat
  /\ NoAnswer \notin BOOLEAN
  /\ \A l \in Lists : l.allowAll \in BOOLEAN

\* Times are ages, counted as far as they matter.
VARIABLES
  store,         \* the config database: is a version active, and which list is stored
  replica,       \* the same as a secondary has it
  behind,        \* the age of the first change that the secondary has not seen
  age,           \* history: how long ago each fact about a user last changed
  cache,         \* allowlistCache of each instance
  calls          \* the calls

data == <<store, replica, behind, age>>
vars == <<data, cache, calls>>

---------------------------------------------------------------------------
(* Lists, entries and the facts that decide *)

\* Mutant: the list for everybody has no entries of its own.
BuildPersonalEntries(l) == ({"crn"} \X l.crns) \cup ({"sbi"} \X l.sbis)

\* One entry document per (type, value). With allowAll the rest is ignored.
buildAllowlistEntries(l) ==
  IF l.allowAll
  THEN {<<"allowAll", "true">>}
  ELSE ({"crn"} \X l.crns) \cup ({"sbi"} \X l.sbis)

\* What the four reads find out about a user in a state of the database.
getAllActiveGrants(s) == s.active
findGrantCodesByEntry(s, type, value) == <<type, value>> \in buildAllowlistEntries(s.list)
HasAllowlist(s) == buildAllowlistEntries(s.list) # {}
AllowsAll(s) == \E e \in buildAllowlistEntries(s.list) : e[1] = "allowAll"

Facts == {"active", "crn", "sbi", "listed", "allowAll"}

Finds(s, u) == [f \in Facts |->
  \/ f = "active"   /\ getAllActiveGrants(s)
  \/ f = "crn"      /\ findGrantCodesByEntry(s, "crn", u.crn)
  \/ f = "sbi"      /\ findGrantCodesByEntry(s, "sbi", u.sbi)
  \/ f = "listed"   /\ HasAllowlist(s)
  \/ f = "allowAll" /\ AllowsAll(s)]

\* One read finds out whether there is a list and whether it allows all.
Reads == {{"active"}, {"crn"}, {"sbi"}, {"listed", "allowAll"}}

\* The filter of resolveAllowedGrants.
Allowed(known) ==
  /\ known["active"]
  /\ known["listed"]
  /\ known["allowAll"] \/ (known["crn"] /\ known["sbi"])

\* The facts as the documentation of allowlist.yaml has them, and its rule:
\* open to everyone, or to who is in both lists.
Grounds == Facts \ {"listed"}
Promised(s) == [u \in Users |->
  [f \in Grounds |->
    \/ f = "active"   /\ s.active
    \/ f = "crn"      /\ ~s.list.allowAll /\ u.crn \in s.list.crns
    \/ f = "sbi"      /\ ~s.list.allowAll /\ u.sbi \in s.list.sbis
    \/ f = "allowAll" /\ s.list.allowAll]]

Entitled(facts) == facts["active"] /\ (facts["allowAll"] \/ (facts["crn"] /\ facts["sbi"]))

---------------------------------------------------------------------------
Stores == [active : BOOLEAN, list : Lists]
Nothing == [f \in Facts |-> NoAnswer]
Idle == [pc |-> "idle"]

\* How long a change may take to show in every answer.
Window == ttl + MaxRead + MaxLag

Reading(c) == calls[c].pc = "reading"

TypeOK ==
  /\ store \in Stores /\ replica \in Stores
  /\ behind \in 0..MaxLag
  /\ age \in [Users -> [Grounds -> 0..Window + 1]]
  /\ cache \in [Instances -> [Users -> [answer : BOOLEAN, age : 0..ttl] \cup {NoAnswer}]]
  /\ calls \in [Calls -> {Idle}
       \cup [pc : {"reading"}, instance : Instances, user : Users, age : 0..MaxRead,
             known : [Facts -> BOOLEAN \cup {NoAnswer}]]]

Init ==
  /\ store \in Stores
  /\ replica = store
  /\ behind = 0
  /\ age = [u \in Users |-> [f \in Grounds |-> 0]]
  /\ cache = [i \in Instances |-> [u \in Users |-> NoAnswer]]
  /\ calls = [c \in Calls |-> Idle]

---------------------------------------------------------------------------
(* The config database *)

\* A transaction of ConfigIngest: another list, or an (in)active version.
Change(s) ==
  /\ store' = s
  /\ behind' = IF replica = store THEN 0 ELSE behind
  /\ age' = [u \in Users |-> [f \in Grounds |->
       IF Promised(s)[u][f] # Promised(store)[u][f] THEN 0 ELSE age[u][f]]]
  /\ UNCHANGED <<replica, cache, calls>>

Replace(l) == l # store.list /\ Change([store EXCEPT !.list = l])

Activate == Change([store EXCEPT !.active = ~store.active])

Replicate ==
  /\ replica # store
  /\ replica' = store
  /\ behind' = 0
  /\ UNCHANGED <<store, age, cache, calls>>

Older(a, limit) == IF a < limit THEN a + 1 ELSE a

\* Time passes, as far as the bounds on reads and on secondaries allow.
\* lru-cache returns nothing that is older than its ttl.
Tick ==
  /\ replica # store => behind < MaxLag
  /\ \A c \in Calls : Reading(c) => calls[c].age < MaxRead
  /\ behind' = IF replica # store THEN behind + 1 ELSE behind
  /\ age' = [u \in Users |-> [f \in Grounds |-> Older(age[u][f], Window + 1)]]
  /\ cache' = [i \in Instances |-> [u \in Users |->
       IF cache[i][u] = NoAnswer \/ cache[i][u].age = ttl THEN NoAnswer
       ELSE [cache[i][u] EXCEPT !.age = @ + 1]]]
  /\ calls' = [c \in Calls |->
       IF Reading(c) THEN [calls[c] EXCEPT !.age = @ + 1] ELSE calls[c]]
  /\ UNCHANGED <<store, replica>>

---------------------------------------------------------------------------
(* resolveAllowedGrants *)

\* Mutant: a hit makes the answer young again (updateAgeOnGet).
AnswerAndRefresh(i, u) ==
  /\ cache[i][u] # NoAnswer
  /\ cache' = [cache EXCEPT ![i][u].age = 0]
  /\ UNCHANGED <<data, calls>>

\* A hit returns what is cached and leaves its age alone. The cached list of
\* grants is never undefined, so one that is empty is a hit as well.
AnswerFromCache(i, u) ==
  /\ cache[i][u] # NoAnswer
  /\ UNCHANGED vars

StartReading(c, i, u) ==
  /\ calls[c] = Idle
  /\ cache[i][u] = NoAnswer
  /\ calls' = [calls EXCEPT ![c] =
       [pc |-> "reading", instance |-> i, user |-> u, age |-> 0, known |-> Nothing]]
  /\ UNCHANGED <<data, cache>>

\* The reads run at the same time and end in any order.
Read(c, r) ==
  /\ Reading(c)
  /\ \A f \in r : calls[c].known[f] = NoAnswer
  /\ \E view \in {store, replica} :
       calls' = [calls EXCEPT ![c].known =
         [f \in Facts |-> IF f \in r THEN Finds(view, calls[c].user)[f] ELSE @[f]]]
  /\ UNCHANGED <<data, cache>>

\* Mutant: the answer is cached before all reads have come back.
RespondEarly(c) ==
  /\ Reading(c)
  /\ cache' = [cache EXCEPT ![calls[c].instance][calls[c].user] =
       [answer |-> calls[c].known["active"], age |-> 0]]
  /\ calls' = [calls EXCEPT ![c] = Idle]
  /\ UNCHANGED data

Respond(c) ==
  /\ Reading(c)
  /\ \A f \in Facts : calls[c].known[f] # NoAnswer
  /\ cache' = [cache EXCEPT ![calls[c].instance][calls[c].user] =
       [answer |-> Allowed(calls[c].known), age |-> 0]]
  /\ calls' = [calls EXCEPT ![c] = Idle]
  /\ UNCHANGED data

\* A read is rejected and the call fails.
Fail(c) ==
  /\ Reading(c)
  /\ calls' = [calls EXCEPT ![c] = Idle]
  /\ UNCHANGED <<data, cache>>

\* The cache is full and drops an answer, or the instance is restarted.
Evict(i, u) ==
  /\ cache[i][u] # NoAnswer
  /\ cache' = [cache EXCEPT ![i][u] = NoAnswer]
  /\ UNCHANGED <<data, calls>>

Next ==
  \/ \E l \in Lists : Replace(l)
  \/ Activate
  \/ Replicate
  \/ Tick
  \/ \E i \in Instances, u \in Users :
       AnswerFromCache(i, u) \/ Evict(i, u) \/ \E c \in Calls : StartReading(c, i, u)
  \/ \E c \in Calls, r \in Reads : Read(c, r)
  \/ \E c \in Calls : Respond(c) \/ Fail(c)

Spec == Init /\ [][Next]_vars

---------------------------------------------------------------------------
(* Properties *)

\* The grounds one by one: TRUE and FALSE for what has changed within the window.
Settled(u, f) == age[u][f] > Window
AtBest(u)  == [f \in Grounds |-> Promised(store)[u][f] \/ ~Settled(u, f)]
AtWorst(u) == [f \in Grounds |-> Promised(store)[u][f] /\ Settled(u, f)]

\* A ground that has been missing for longer than the window admits nobody: a user
\* is refused once the grant has been inactive for as long, or the list has for as
\* long neither been open to everyone nor named his crn, or neither been open nor
\* named his sbi (resolveAllowedGrants). Each ground counts by itself: when
\* the list {crn1, sbi2} is replaced by {crn2, sbi1}, reads that straddle the
\* replacement find both numbers of user (crn1, sbi1), who is in both lists at no
\* time, and admit him; this is not excluded here.
\* Every answer is put into the cache as it is given, or taken from it.
RevokedAreRefused ==
  \A i \in Instances, u \in Users :
    cache[i][u] # NoAnswer /\ cache[i][u].answer => Entitled(AtBest(u))

\* Grounds that have been there for longer than the window do admit: a user is
\* not refused once the grant has been active for as long, and the list has for as
\* long been open to everyone, or for as long named both his numbers; though
\* an answer that allows nothing is cached like any other. Access that passes
\* from one ground to another is not covered: reads that straddle the replacement
\* of an open list by one that names the user may find neither, and refuse him.
AdmittedAreAllowed ==
  \A i \in Instances, u \in Users :
    cache[i][u] # NoAnswer /\ Entitled(AtWorst(u)) => cache[i][u].answer

===========================================================================
