------------------------- MODULE Migrations_proof -------------------------
(***************************************************************************)
(* Proofs about Migrations, for any number of instances and documents and  *)
(* any legacy versions: although the lock does not keep instances apart,   *)
(* and although what is read may come from a secondary that lags behind,   *)
(* the changelog is in order, no document is lost, and an instance serves  *)
(* migrated documents only.                                                *)
(***************************************************************************)
EXTENDS Migrations, GrantVersion_proof

---------------------------------------------------------------------------
(* Names, files and versions *)

LEMMA NamesOfCollections ==
  /\ \A c \in Collections : Old(c) \in Names /\ New(c) \in Names
  /\ \A c \in Collections : Old(c)[1] = c /\ New(c)[1] = c
  /\ \A c, e \in Collections :
       /\ Old(c) # New(e)
       /\ Old(c) = Old(e) => c = e
       /\ New(c) = New(e) => c = e
  /\ \A n \in Names : \E c \in Collections : n = Old(c) \/ n = New(c)
BY DEF Old, New, Names

LEMMA FilesInOrder ==
  /\ DOMAIN Files = 1..4 /\ Len(Files) = 4
  /\ Files[1] = "semver" /\ Files[2] = "indexes" /\ Files[3] = "rename" /\ Files[4] = "report"
BY DEF Files

\* Every migration takes all collections.
LEMMA AllCollections ==
  ASSUME NEW f
  PROVE  /\ \A k \in 1..3 : CollectionsOf(f)[k] \in Collections
         /\ \A c \in Collections : \E k \in 1..3 : CollectionsOf(f)[k] = c
<1>1. CASE f = "indexes"
  BY <1>1 DEF CollectionsOf, Collections
<1>2. CASE f # "indexes"
  BY <1>2 DEF CollectionsOf, Collections
<1> QED
  BY <1>1, <1>2

LEMMA FirstOfRest == ASSUME NEW m \in 1..4 PROVE First(m..4) = m
<1>1. m \in m..4 /\ \A k \in m..4 : m <= k
  OBVIOUS
<1>2. \A k \in m..4 : (\A j \in m..4 : k <= j) => k = m
  BY <1>1
<1> QED
  BY <1>1, <1>2 DEF First

\* The version a document is given is a semver string, and final.
LEMMA ParsedIsFinal ==
  ASSUME NEW raw \in RawVersions
  PROVE  /\ parseSemver(raw).semver \in SemverStrings
         /\ parseSemver(parseSemver(raw).semver).semver = parseSemver(raw).semver
         /\ raw \in SemverStrings => parseSemver(raw).semver = raw
         /\ parseSemver(raw).semver = normaliseGrantVersion(raw).grantVersion
<1>1. parseSemver(raw).semver \in SemverStrings
  BY MigrationAgreesWithRuntime, NormalisedIsSemver
<1>2. \A v \in SemverStrings : parseSemver(v).semver = v
  BY DEF parseSemver, SemverStrings
<1> QED
  BY <1>1, <1>2, MigrationAgreesWithRuntime

---------------------------------------------------------------------------
(* The invariant *)

Migrated(c, d) == version[d] \in SemverStrings /\ (c = "state" => d \in pinned)

\* What a collection and its two names hold, whoever has got how far.
CollectionOK(c) ==
  /\ held[Old(c)] \cup held[New(c)] = DocumentsOf(c)
  /\ held[Old(c)] \cap held[New(c)] = {}
  /\ held[New(c)] # {} => New(c) \in existing
  /\ held[Old(c)] # {} => Old(c) \in existing
  /\ New(c) \in existing => New(c) \in indexed
  /\ \A d \in held[New(c)] : Migrated(c, d)
  /\ Old(c) \in indexed => ~Collide(c, held[Old(c)], version)
  /\ New(c) \in indexed => ~Collide(c, held[New(c)], version)

\* A document has the version it had, or the one the migration makes of it.
DocumentOK(d) ==
  LET final == parseSemver(legacy[d]).semver
  IN  /\ version[d] \in {legacy[d], final}
      /\ d \in pinned => version[d] = final

\* What a migration leaves of a collection, whatever is done to it later.
DoneFor(m, c) ==
  /\ m = 1 => \A d \in held[Old(c)] : Migrated(c, d)
  /\ m = 2 => \/ New(c) \in existing
              \/ Old(c) \in existing \cap indexed
  /\ m = 3 => New(c) \in existing \/ (c \in missed /\ DocumentsOf(c) = {})

LogOK ==
  /\ Len(changelog) \in 0..4
  /\ \A k \in 1..Len(changelog) : changelog[k] = Files[k]
  /\ \A k \in 1..Len(changelog), c \in Collections : DoneFor(k, c)

\* The collections that an instance has already taken.
Taken(i, m) == {CollectionsOf(Files[m])[k] : k \in 1..(at[i] - 1)}

\* An instance applies a migration when those before it are recorded, but
\* others may have come further.
Applies(i, m) ==
  /\ pending[i] = m..4
  /\ m <= Len(changelog) + 1
  /\ \/ pc[i] = Files[m]
     \/ pc[i] = "recording"
     \/ pc[i] = "renaming" /\ m = 3
  /\ \A c \in Collections :
       pc[i] = "recording" \/ c \in Taken(i, m) => DoneFor(m, c)

InstanceOK(i) ==
  /\ pc[i] \in Steps \cup {"recording"} => \E m \in 1..4 : Applies(i, m)
  /\ pc[i] \in {"clearing", "serving"} => Len(changelog) = 4

DatabaseOK == (\A c \in Collections : CollectionOK(c)) /\ (\A d \in Documents : DocumentOK(d))

\* What a secondary shows: a changelog that was, and the names of
\* collections with documents, if not as they are then as they were before
\* the rename.
SecondaryOK ==
  /\ DOMAIN secondary = LaggingReads
  /\ "lock" \in LaggingReads => secondary["lock"] \subseteq Instances
  /\ "changelog" \in LaggingReads =>
       /\ secondary["changelog"] \in Seq({"semver", "indexes", "rename", "report"})
       /\ Len(secondary["changelog"]) <= Len(changelog)
       /\ \A k \in 1..Len(secondary["changelog"]) : secondary["changelog"][k] = Files[k]
  /\ "collections" \in LaggingReads =>
       /\ secondary["collections"] \subseteq Names
       /\ \A c \in Collections :
            \/ DocumentsOf(c) = {} \/ DoneFor(3, c)
            \/ RenameDue(c, secondary["collections"])

IInv ==
  TypeOK /\ DatabaseOK /\ LogOK /\ SecondaryOK /\ \A i \in Instances : InstanceOK(i)

---------------------------------------------------------------------------
(* Types *)

Pcs == {"down", "waiting", "unlocked", "status", "recording",
        "clearing", "serving"} \cup Steps

DatabaseTypes ==
  /\ existing \subseteq Names
  /\ held \in [Names -> SUBSET Documents]
  /\ version \in [Documents -> RawVersions]
  /\ pinned \subseteq Documents
  /\ indexed \subseteq Names
  /\ missed \subseteq Collections

InstanceTypes ==
  /\ pc \in [Instances -> Pcs]
  /\ retries \in [Instances -> 0..MaxRetries]
  /\ pending \in [Instances -> SUBSET (1..4)]
  /\ at \in [Instances -> 1..3]

LogTypes ==
  /\ legacy \in Legacies
  /\ changelog \in Seq({"semver", "indexes", "rename", "report"})
  /\ lockRows \subseteq Instances

LEMMA TypesInParts == TypeOK => DatabaseTypes /\ InstanceTypes /\ LogTypes
BY FilesInOrder DEF TypeOK, DatabaseTypes, InstanceTypes, LogTypes, Pcs

LEMMA LeastOfFour ==
  ASSUME NEW todo \in SUBSET (1..4), todo # {}
  PROVE  First(todo) \in todo /\ \A m \in todo : First(todo) <= m
<1>1. todo \subseteq {1, 2, 3, 4}
  OBVIOUS
<1>2. \E k \in todo : \A m \in todo : k <= m
  <2>1. CASE 1 \in todo
    <3>1. \A m \in todo : 1 <= m
      BY <1>1
    <3> QED
      BY <2>1, <3>1
  <2>2. CASE 1 \notin todo /\ 2 \in todo
    <3>1. \A m \in todo : 2 <= m
      BY <1>1, <2>2
    <3> QED
      BY <2>2, <3>1
  <2>3. CASE 1 \notin todo /\ 2 \notin todo /\ 3 \in todo
    <3>1. \A m \in todo : 3 <= m
      BY <1>1, <2>3
    <3> QED
      BY <2>3, <3>1
  <2>4. CASE 1 \notin todo /\ 2 \notin todo /\ 3 \notin todo
    <3>1. \A m \in todo : m = 4
      BY <1>1, <2>4
    <3>2. 4 \in todo
      BY <3>1
    <3> QED
      BY <3>1, <3>2
  <2> QED
    BY <2>1, <2>2, <2>3, <2>4
<1> QED
  BY <1>2 DEF First

LEMMA FileOfStep ==
  ASSUME NEW m \in 1..4
  PROVE  Files[m] \in {"semver", "indexes", "rename", "report"} /\ Files[m] \in Steps
<1>1. m \in {1, 2, 3, 4}
  OBVIOUS
<1> QED
  BY <1>1, FilesInOrder DEF Steps

LEMMA ProceedKeepsTypes ==
  ASSUME InstanceTypes, NEW i \in Instances, NEW todo \in SUBSET (1..4),
         Proceed(i, todo), UNCHANGED retries
  PROVE  InstanceTypes'
<1>1. (IF todo = {} THEN "clearing" ELSE Files[First(todo)]) \in Pcs
  BY LeastOfFour, FileOfStep DEF Pcs
<1>2. pc' \in [Instances -> Pcs]
  BY <1>1 DEF Proceed, Goto, InstanceTypes
<1>3. pending' \in [Instances -> SUBSET (1..4)] /\ at' \in [Instances -> 1..3]
  BY DEF Proceed, InstanceTypes
<1> QED
  BY <1>2, <1>3 DEF InstanceTypes

LEMMA DownKeepsTypes ==
  ASSUME InstanceTypes, NEW i \in Instances, Down(i)
  PROVE  InstanceTypes'
<1>1. MaxRetries \in Nat
  BY MigrationAssumption
<1> QED
  BY <1>1 DEF Down, Goto, InstanceTypes, Pcs

LEMMA GotoKeepsTypes ==
  ASSUME InstanceTypes, NEW i \in Instances, NEW p \in Pcs, Goto(i, p),
         UNCHANGED <<retries, pending, at>>
  PROVE  InstanceTypes'
BY DEF InstanceTypes, Goto

\* Where an instance is, its next migration and collection are known.
LEMMA PlacesAreKnown ==
  ASSUME InstanceTypes, NEW i \in Instances, NEW m \in 1..4, Applies(i, m)
  PROVE  /\ First(pending[i]) = m /\ Applying(i) = Files[m]
         /\ Current(i) = CollectionsOf(Files[m])[at[i]]
         /\ Current(i) \in Collections
         /\ pc[i] \notin {"renaming", "recording"} => pc[i] = Files[m]
<1>1. First(pending[i]) = m /\ Applying(i) = Files[m]
  BY FirstOfRest DEF Applies, Applying
<1>2. Current(i) = CollectionsOf(Files[m])[at[i]] /\ Current(i) \in Collections
  BY <1>1, AllCollections DEF Current, InstanceTypes
<1> QED
  BY <1>1, <1>2 DEF Applies

LEMMA DoneKeepsTypes ==
  ASSUME InstanceTypes, NEW i \in Instances, NEW m \in 1..4, Applies(i, m), Done(i)
  PROVE  InstanceTypes'
<1>1. Applying(i) \in Pcs
  BY PlacesAreKnown, FileOfStep DEF Pcs
<1>2. (IF at[i] < 3 THEN Applying(i) ELSE "recording") \in Pcs
  BY <1>1 DEF Pcs
<1>3. pc' \in [Instances -> Pcs]
  BY <1>2 DEF Done, Goto, InstanceTypes
<1>4. at' \in [Instances -> 1..3]
  <2>1. at[i] \in 1..3
    BY DEF InstanceTypes
  <2>2. (IF at[i] < 3 THEN at[i] + 1 ELSE 1) \in 1..3
    BY <2>1
  <2> QED
    BY <2>2 DEF Done, InstanceTypes
<1> QED
  BY <1>3, <1>4 DEF Done, InstanceTypes

---------------------------------------------------------------------------
(* Steps of the migrations on the database *)

NormaliseStep(c, d) ==
  /\ d \in Unmigrated(c)
  /\ Acceptable(c, Normalised(d))
  /\ version' = Normalised(d)
  /\ pinned' = IF c = "state" THEN pinned \cup {d} ELSE pinned
  /\ UNCHANGED <<existing, held, indexed, missed, legacy>>

IndexStep(c) ==
  /\ ~Collide(c, held[Old(c)], version)
  /\ existing' = existing \cup {Old(c)}
  /\ indexed' = indexed \cup {Old(c)}
  /\ UNCHANGED <<held, version, pinned, missed, legacy>>

\* A migration that renames comes after the one that makes the indexes.
RenameStep(c) ==
  /\ Old(c) \in existing /\ New(c) \notin existing
  /\ Old(c) \in indexed
  /\ Rename(Old(c), New(c))
  /\ missed' = missed \ {c}
  /\ UNCHANGED <<version, pinned, legacy>>

MissStep(c) ==
  /\ missed' = missed \cup {c}
  /\ UNCHANGED <<existing, held, version, pinned, indexed, legacy>>

\* What is done stays done.
DoneStays == \A m \in 1..4, c \in Collections : DoneFor(m, c) => DoneFor(m, c)'

LEMMA DocumentsOfOne ==
  ASSUME DatabaseOK, NEW c \in Collections, NEW e \in Collections, c # e
  PROVE  \A d \in held[Old(c)] \cup held[New(c)] :
           d \in Documents /\ d \notin held[Old(e)] \cup held[New(e)]
BY DEF DatabaseOK, CollectionOK, DocumentsOf

LEMMA LegacyIsRaw == ASSUME LogTypes PROVE \A d \in Documents : legacy[d] \in RawVersions
BY MigrationAssumption DEF LogTypes

\* What a normalised document has: its final version.
LEMMA NormalisedIsFinal ==
  ASSUME DatabaseTypes, LogTypes, DatabaseOK, NEW c \in Collections,
         NEW d \in Documents, NormaliseStep(c, d)
  PROVE  /\ version' \in [Documents -> RawVersions]
         /\ version'[d] = parseSemver(legacy[d]).semver
         /\ version'[d] \in SemverStrings
         /\ \A e \in Documents : e # d => version'[e] = version[e]
<1>1. legacy[d] \in RawVersions /\ version[d] \in RawVersions
  BY LegacyIsRaw DEF DatabaseTypes
<1>2. version[d] \in {legacy[d], parseSemver(legacy[d]).semver}
  BY DEF DatabaseOK, DocumentOK
<1>3. version'[d] = parseSemver(version[d]).semver
  BY DEF NormaliseStep, Normalised, DatabaseTypes
<1>4. version'[d] = parseSemver(legacy[d]).semver
  BY <1>1, <1>2, <1>3, ParsedIsFinal
<1>5. version'[d] \in SemverStrings
  BY <1>1, <1>4, ParsedIsFinal
<1>6. version' = [version EXCEPT ![d] = version'[d]]
  BY DEF NormaliseStep, Normalised, DatabaseTypes
<1> QED
  BY <1>4, <1>5, <1>6 DEF DatabaseTypes, SemverStrings

LEMMA NormaliseKeepsDatabase ==
  ASSUME DatabaseTypes, LogTypes, DatabaseOK, NEW c \in Collections,
         NEW d \in Documents, NormaliseStep(c, d)
  PROVE  DatabaseTypes' /\ DatabaseOK' /\ DoneStays
<1>1. DatabaseTypes'
  BY NormalisedIsFinal DEF DatabaseTypes, NormaliseStep
<1>2. d \in held[Old(c)] /\ d \notin held[New(c)]
  BY DEF NormaliseStep, Unmigrated, DatabaseOK, CollectionOK
<1>3. ASSUME NEW e \in Documents PROVE DocumentOK(e)'
  <2>1. CASE e = d
    BY <2>1, NormalisedIsFinal DEF DocumentOK, NormaliseStep
  <2>2. CASE e # d
    BY <2>2, NormalisedIsFinal DEF DocumentOK, DatabaseOK, NormaliseStep
  <2> QED
    BY <2>1, <2>2
<1>4. ASSUME NEW b \in Collections, NEW e \in Documents, Migrated(b, e)
      PROVE  Migrated(b, e)'
  <2>1. version'[e] \in SemverStrings
    BY <1>4, NormalisedIsFinal DEF Migrated
  <2>2. pinned \subseteq pinned'
    BY DEF NormaliseStep
  <2> QED
    BY <1>4, <2>1, <2>2 DEF Migrated
<1>5. ASSUME NEW b \in Collections, NEW documents \in SUBSET Documents, d \notin documents,
             ~Collide(b, documents, version)
      PROVE  ~Collide(b, documents, version')
  BY <1>5, NormalisedIsFinal DEF Collide
<1>6. ASSUME NEW b \in Collections PROVE CollectionOK(b)'
  <2> DEFINE old == held[Old(b)]
             new == held[New(b)]
  <2>1. CollectionOK(b) /\ old \subseteq Documents /\ new \subseteq Documents
    BY DEF DatabaseOK, CollectionOK, DocumentsOf
  <2>2. UNCHANGED <<existing, held, indexed>>
    BY DEF NormaliseStep
  <2>3. \A e \in new : Migrated(b, e)'
    BY <1>4, <2>1 DEF CollectionOK
  <2>4. d \notin new
    BY <1>2, DocumentsOfOne
  <2>5. New(b) \in indexed => ~Collide(b, new, version')
    BY <1>5, <2>1, <2>4 DEF CollectionOK
  <2>6. Old(b) \in indexed => ~Collide(b, old, version')
    <3>1. CASE b = c
      BY <3>1 DEF NormaliseStep, Acceptable
    <3>2. CASE b # c
      BY <1>2, <1>5, <2>1, <3>2, DocumentsOfOne DEF CollectionOK
    <3> QED
      BY <3>1, <3>2
  <2>7. /\ old \cup new = DocumentsOf(b) /\ old \cap new = {}
        /\ new # {} => New(b) \in existing
        /\ held[Old(b)] # {} => Old(b) \in existing
        /\ New(b) \in existing => New(b) \in indexed
    BY <2>1 DEF CollectionOK
  <2> QED
    BY <2>2, <2>3, <2>5, <2>6, <2>7 DEF CollectionOK
<1>7. DoneStays
  <2> SUFFICES ASSUME NEW m \in 1..4, NEW b \in Collections, DoneFor(m, b)
               PROVE  DoneFor(m, b)'
    BY DEF DoneStays
  <2>1. UNCHANGED <<existing, held, indexed, missed>>
    BY DEF NormaliseStep
  <2>2. held[Old(b)] \subseteq Documents
    BY DEF DatabaseOK, CollectionOK, DocumentsOf
  <2> QED
    BY <1>4, <2>1, <2>2 DEF DoneFor
<1> QED
  BY <1>1, <1>3, <1>6, <1>7 DEF DatabaseOK

LEMMA IndexKeepsDatabase ==
  ASSUME DatabaseTypes, DatabaseOK, NEW c \in Collections, IndexStep(c)
  PROVE  DatabaseTypes' /\ DatabaseOK' /\ DoneStays
<1>1. UNCHANGED <<held, version, pinned, missed, legacy>> /\ existing \subseteq existing'
  BY DEF IndexStep
<1>2. DatabaseTypes'
  BY <1>1, NamesOfCollections DEF DatabaseTypes, IndexStep
<1>3. \A d \in Documents : DocumentOK(d)'
  BY <1>1 DEF DocumentOK, DatabaseOK
<1>4. ASSUME NEW b \in Collections
      PROVE  /\ New(b) \in existing' <=> New(b) \in existing
             /\ New(b) \in indexed' <=> New(b) \in indexed
             /\ Old(b) \in indexed' => b = c \/ Old(b) \in indexed
  BY NamesOfCollections DEF IndexStep
<1>5. ASSUME NEW b \in Collections PROVE CollectionOK(b)'
  <2>1. CollectionOK(b)
    BY DEF DatabaseOK
  <2>2. Old(b) \in indexed' => ~Collide(b, held[Old(b)], version)
    BY <1>4, <2>1 DEF IndexStep, CollectionOK
  <2>3. \A d \in held[New(b)] : Migrated(b, d)'
    BY <1>1, <2>1 DEF CollectionOK, Migrated
  <2> QED
    BY <1>1, <1>4, <2>1, <2>2, <2>3 DEF CollectionOK
<1>6. DoneStays
  <2>1. existing \subseteq existing' /\ indexed \subseteq indexed'
    BY DEF IndexStep
  <2> QED
    BY <1>1, <2>1 DEF DoneStays, DoneFor, Migrated
<1> QED
  BY <1>2, <1>3, <1>5, <1>6 DEF DatabaseOK

LEMMA RenameKeepsDatabase ==
  ASSUME DatabaseTypes, DatabaseOK, NEW c \in Collections, RenameStep(c),
         \A d \in held[Old(c)] : Migrated(c, d)
  PROVE  DatabaseTypes' /\ DatabaseOK' /\ DoneStays /\ New(c) \in existing'
<1>1. UNCHANGED <<version, pinned, legacy>> /\ missed' = missed \ {c}
  BY DEF RenameStep
<1>2. /\ held' \in [Names -> SUBSET Documents]
      /\ held'[New(c)] = held[Old(c)]
      /\ held'[Old(c)] = {}
      /\ \A n \in Names \ {Old(c), New(c)} : held'[n] = held[n]
  BY NamesOfCollections DEF RenameStep, Rename, DatabaseTypes
<1>3. /\ existing' = (existing \ {Old(c)}) \cup {New(c)}
      /\ New(c) \in indexed' /\ Old(c) \notin indexed'
      /\ \A n \in Names \ {Old(c), New(c)} : n \in indexed' <=> n \in indexed
      /\ indexed' \subseteq Names
  BY NamesOfCollections DEF RenameStep, Rename
<1>4. DatabaseTypes'
  BY <1>1, <1>2, <1>3, NamesOfCollections DEF DatabaseTypes
<1>5. \A d \in Documents : DocumentOK(d)'
  BY <1>1 DEF DocumentOK, DatabaseOK
<1>6. CollectionOK(c)'
  <2>1. CollectionOK(c) /\ held[New(c)] = {}
    BY DEF DatabaseOK, CollectionOK, RenameStep
  <2>2. held'[Old(c)] \cup held'[New(c)] = DocumentsOf(c)
    BY <1>2, <2>1 DEF CollectionOK
  <2>3. \A d \in held'[New(c)] : Migrated(c, d)'
    BY <1>1, <1>2 DEF Migrated
  <2>4. ~Collide(c, held'[New(c)], version)
    BY <1>2, <2>1 DEF CollectionOK, RenameStep
  <2> QED
    BY <1>1, <1>2, <1>3, <2>2, <2>3, <2>4 DEF CollectionOK
<1>7. ASSUME NEW b \in Collections, b # c
      PROVE  /\ held'[Old(b)] = held[Old(b)] /\ held'[New(b)] = held[New(b)]
             /\ Old(b) \in existing' <=> Old(b) \in existing
             /\ New(b) \in existing' <=> New(b) \in existing
             /\ Old(b) \in indexed' <=> Old(b) \in indexed
             /\ New(b) \in indexed' <=> New(b) \in indexed
  BY <1>2, <1>3, <1>7, NamesOfCollections
<1>8. ASSUME NEW b \in Collections PROVE CollectionOK(b)'
  <2>1. CASE b # c
    <3>1. CollectionOK(b)
      BY DEF DatabaseOK
    <3>2. \A d \in held'[New(b)] : Migrated(b, d)'
      BY <1>1, <1>7, <2>1, <3>1 DEF CollectionOK, Migrated
    <3> QED
      BY <1>1, <1>7, <2>1, <3>1, <3>2 DEF CollectionOK
  <2> QED
    BY <1>6, <2>1
<1>9. DoneStays
  <2> SUFFICES ASSUME NEW m \in 1..4, NEW b \in Collections, DoneFor(m, b)
               PROVE  DoneFor(m, b)'
    BY DEF DoneStays
  <2>1. CASE b = c
    BY <1>2, <1>3, <2>1 DEF DoneFor
  <2>2. CASE b # c
    BY <1>1, <1>7, <2>2 DEF DoneFor, Migrated
  <2> QED
    BY <2>1, <2>2
<1> QED
  BY <1>3, <1>4, <1>5, <1>8, <1>9 DEF DatabaseOK

LEMMA MissKeepsDatabase ==
  ASSUME DatabaseTypes, DatabaseOK, NEW c \in Collections, MissStep(c)
  PROVE  DatabaseTypes' /\ DatabaseOK' /\ DoneStays /\ c \in missed'
<1>1. UNCHANGED <<existing, held, version, pinned, indexed, legacy>> /\ missed' = missed \cup {c}
  BY DEF MissStep
<1>2. DatabaseTypes'
  BY <1>1 DEF DatabaseTypes
<1>3. \A d \in Documents : DocumentOK(d)'
  BY <1>1 DEF DocumentOK, DatabaseOK
<1>4. \A b \in Collections : CollectionOK(b)'
  BY <1>1 DEF CollectionOK, DatabaseOK, Migrated
<1>5. DoneStays
  BY <1>1 DEF DoneStays, DoneFor, Migrated
<1> QED
  BY <1>1, <1>2, <1>3, <1>4, <1>5 DEF DatabaseOK

LEMMA UnchangedKeepsDatabase ==
  ASSUME DatabaseTypes, DatabaseOK, UNCHANGED <<database, legacy>>
  PROVE  DatabaseTypes' /\ DatabaseOK' /\ DoneStays
<1>1. UNCHANGED <<existing, held, version, pinned, indexed, missed, legacy>>
  BY DEF database
<1>2. DatabaseTypes'
  BY <1>1 DEF DatabaseTypes
<1>3. \A d \in Documents : DocumentOK(d)'
  BY <1>1 DEF DocumentOK, DatabaseOK
<1>4. \A c \in Collections : CollectionOK(c)'
  BY <1>1 DEF CollectionOK, DatabaseOK, Migrated
<1>5. DoneStays
  BY <1>1 DEF DoneStays, DoneFor, Migrated
<1> QED
  BY <1>2, <1>3, <1>4, <1>5 DEF DatabaseOK

LEMMA UnchangedKeepsLog ==
  ASSUME LogTypes, LogOK, UNCHANGED <<changelog, legacy>>, lockRows' \subseteq Instances, DoneStays
  PROVE  LogTypes' /\ LogOK' /\ Len(changelog') = Len(changelog)
<1>1. LogTypes' /\ Len(changelog') = Len(changelog)
  BY DEF LogTypes
<1>2. \A k \in 1..Len(changelog), c \in Collections : DoneFor(k, c)'
  <2>1. Len(changelog) \in 0..4
    BY DEF LogOK
  <2>2. \A k \in 1..Len(changelog) : k \in 1..4
    BY <2>1
  <2> QED
    BY <2>2 DEF DoneStays, LogOK
<1> QED
  BY <1>1, <1>2 DEF LogOK

---------------------------------------------------------------------------
(* Steps of the instances *)

Same(j) == pc'[j] = pc[j] /\ pending'[j] = pending[j] /\ at'[j] = at[j]

Elsewhere(i) == \A j \in Instances \ {i} : Same(j)

LEMMA InstancesAreApart ==
  ASSUME InstanceTypes, NEW i \in Instances
  PROVE  /\ \A p : Goto(i, p) /\ UNCHANGED <<pending, at>> =>
              Elsewhere(i) /\ pc'[i] = p /\ pending'[i] = pending[i] /\ at'[i] = at[i]
         /\ \A todo : Proceed(i, todo) =>
              Elsewhere(i) /\ pending'[i] = todo /\ at'[i] = 1 /\
              pc'[i] = IF todo = {} THEN "clearing" ELSE Files[First(todo)]
         /\ Down(i) => Elsewhere(i) /\ pc'[i] = "down"
         /\ Done(i) => Elsewhere(i) /\ pending'[i] = pending[i]
<1>1. ASSUME NEW p, Goto(i, p), UNCHANGED <<pending, at>>
      PROVE  Elsewhere(i) /\ pc'[i] = p /\ pending'[i] = pending[i] /\ at'[i] = at[i]
  BY <1>1 DEF Goto, Elsewhere, Same, InstanceTypes
<1>2. ASSUME NEW todo, Proceed(i, todo)
      PROVE  Elsewhere(i) /\ pending'[i] = todo /\ at'[i] = 1 /\
             pc'[i] = IF todo = {} THEN "clearing" ELSE Files[First(todo)]
  BY <1>2 DEF Goto, Proceed, Elsewhere, Same, InstanceTypes
<1>3. Down(i) => Elsewhere(i) /\ pc'[i] = "down"
  BY DEF Down, Goto, Elsewhere, Same, InstanceTypes
<1>4. Done(i) => Elsewhere(i) /\ pending'[i] = pending[i]
  BY DEF Done, Goto, Elsewhere, Same, InstanceTypes
<1> QED
  BY <1>1, <1>2, <1>3, <1>4

\* What an instance counts on is not undone by the others.
LEMMA StillOK ==
  ASSUME InstanceTypes, LogOK, LogOK', DoneStays, Len(changelog) <= Len(changelog'),
         NEW j \in Instances, InstanceOK(j), Same(j)
  PROVE  InstanceOK(j)'
<1>1. Len(changelog) \in 0..4 /\ Len(changelog') \in 0..4
  BY DEF LogOK
<1>2. ASSUME NEW m \in 1..4, Applies(j, m) PROVE Applies(j, m)'
  <2>1. /\ pending[j] = m..4 /\ m <= Len(changelog') + 1
        /\ pc[j] = Files[m] \/ pc[j] = "recording" \/ (pc[j] = "renaming" /\ m = 3)
    BY <1>1, <1>2 DEF Applies
  <2>2. \A c \in Collections : pc[j] = "recording" \/ c \in Taken(j, m) => DoneFor(m, c)'
    BY <1>2 DEF Applies, DoneStays
  <2>3. Taken(j, m)' = Taken(j, m)
    BY DEF Taken, Same
  <2> QED
    BY <2>1, <2>2, <2>3 DEF Applies, Same
<1>3. pc[j] \in Steps \cup {"recording"} => \E m \in 1..4 : Applies(j, m)'
  BY <1>2 DEF InstanceOK
<1>4. pc[j] \in {"clearing", "serving"} => Len(changelog') = 4
  <2> DEFINE n == Len(changelog')
             l == Len(changelog)
  <2>1. l <= n /\ n \in 0..4
    BY <1>1
  <2>2. pc[j] \in {"clearing", "serving"} => l = 4
    BY DEF InstanceOK
  <2> HIDE DEF n, l
  <2>3. l = 4 => n = 4
    BY <2>1
  <2> QED
    BY <2>2, <2>3 DEF n
<1>5. pc'[j] = pc[j]
  BY DEF Same
<1>6. InstanceOK(j)' <=>
        /\ pc'[j] \in Steps \cup {"recording"} => \E m \in 1..4 : Applies(j, m)'
        /\ pc'[j] \in {"clearing", "serving"} => Len(changelog') = 4
  BY DEF InstanceOK
<1> QED
  BY <1>3, <1>4, <1>5, <1>6

\* Nothing is asked of an instance that has yet to read the status.
LEMMA IdleIsOK ==
  ASSUME NEW i \in Instances, pc'[i] \in {"down", "waiting", "unlocked", "status"}
  PROVE  InstanceOK(i)'
BY DEF InstanceOK, Steps

LEMMA ProceedIsOK ==
  ASSUME InstanceTypes, NEW i \in Instances, NEW m \in 1..5, Proceed(i, m..4),
         m <= Len(changelog') + 1, Len(changelog') \in 0..4
  PROVE  InstanceOK(i)'
<1>1. /\ pending'[i] = m..4 /\ at'[i] = 1
      /\ pc'[i] = IF m..4 = {} THEN "clearing" ELSE Files[First(m..4)]
  BY InstancesAreApart
<1>2. CASE m = 5
  <2> DEFINE n == Len(changelog')
  <2>1. m..4 = {} /\ n = 4
    <3> HIDE DEF n
    <3>1. m..4 = {}
      BY <1>2
    <3>2. n \in 0..4 /\ m <= n + 1
      BY DEF n
    <3> QED
      BY <1>2, <3>1, <3>2
  <2>2. pc'[i] = "clearing"
    BY <1>1, <2>1
  <2> QED
    BY <2>1, <2>2 DEF InstanceOK, Steps
<1>3. CASE m \in 1..4
  <2>1. First(m..4) = m
    BY <1>3, FirstOfRest
  <2>2. m \in m..4
    BY <1>3
  <2>3. pc'[i] = Files[m] /\ pc'[i] \in Steps
    BY <1>1, <1>3, <2>1, <2>2, FileOfStep
  <2>4. pc'[i] \notin {"recording", "clearing", "serving"}
    BY <2>3 DEF Steps
  <2>5. Taken(i, m)' = {}
    BY <1>1 DEF Taken
  <2>6. Applies(i, m)'
    BY <1>1, <2>3, <2>4, <2>5 DEF Applies
  <2> QED
    BY <1>3, <2>4, <2>6 DEF InstanceOK
<1> QED
  BY <1>2, <1>3

LEMMA DoneIsOK ==
  ASSUME InstanceTypes, NEW i \in Instances, NEW m \in 1..4, NEW b \in Collections,
         Applies(i, m), b = Current(i), Done(i), DoneStays, DoneFor(m, b)'
  PROVE  InstanceOK(i)'
<1>1. /\ Applying(i) = Files[m] /\ b = CollectionsOf(Files[m])[at[i]]
      /\ Files[m] \in {"semver", "indexes", "rename", "report"}
      /\ pending'[i] = m..4 /\ m <= Len(changelog) + 1 /\ changelog' = changelog
  BY PlacesAreKnown, FileOfStep, InstancesAreApart DEF Applies, Done, migrating
<1>2. at[i] \in 1..3
  BY DEF InstanceTypes
<1>3. /\ at'[i] = IF at[i] < 3 THEN at[i] + 1 ELSE 1
      /\ pc'[i] = IF at[i] < 3 THEN Files[m] ELSE "recording"
  BY <1>1 DEF Done, Goto, InstanceTypes
<1>4. \A c \in Collections : c \in Taken(i, m) \/ c = b => DoneFor(m, c)'
  BY DEF Applies, DoneStays
<1>5. \A c \in Collections : pc'[i] = "recording" \/ c \in Taken(i, m)' => DoneFor(m, c)'
  <2>1. CASE at[i] < 3
    <3>1. Taken(i, m)' = Taken(i, m) \cup {b}
      <4>1. at'[i] - 1 = at[i]
        BY <1>2, <1>3, <2>1
      <4>2. 1..at[i] = (1..(at[i] - 1)) \cup {at[i]}
        BY <1>2
      <4> QED
        BY <1>1, <4>1, <4>2 DEF Taken
    <3> QED
      BY <1>1, <1>3, <1>4, <2>1, <3>1
  <2>2. CASE at[i] = 3
    <3>1. \A c \in Collections : c \in Taken(i, m) \/ c = b
      <4>1. \A c \in Collections : \E k \in 1..3 : CollectionsOf(Files[m])[k] = c
        BY AllCollections
      <4>2. \A k \in 1..3 : k \in 1..(at[i] - 1) \/ k = at[i]
        BY <2>2
      <4> QED
        BY <1>1, <4>1, <4>2 DEF Taken
    <3> QED
      BY <1>4, <3>1
  <2> QED
    BY <1>2, <2>1, <2>2
<1>6. Applies(i, m)'
  BY <1>1, <1>3, <1>5 DEF Applies
<1>7. pc'[i] \notin {"clearing", "serving"}
  BY <1>1, <1>3
<1> QED
  BY <1>6, <1>7 DEF InstanceOK

---------------------------------------------------------------------------
(* Every step keeps the invariant *)

Kept(i) ==
  /\ DatabaseTypes' /\ DatabaseOK' /\ DoneStays
  /\ LogTypes' /\ LogOK' /\ Len(changelog) <= Len(changelog')
  /\ InstanceTypes' /\ InstanceOK(i)' /\ Elsewhere(i)

\* What a secondary shows stays so however the primary goes on.
LEMMA SecondaryStaysOK ==
  ASSUME SecondaryOK, LogOK, LogOK', UNCHANGED secondary, DoneStays,
         Len(changelog) <= Len(changelog')
  PROVE  SecondaryOK'
<1>1. ASSUME "changelog" \in LaggingReads
      PROVE  Len(secondary["changelog"]) <= Len(changelog')
  <2> DEFINE k == Len(secondary["changelog"])
             l == Len(changelog)
             n == Len(changelog')
  <2>1. k <= l /\ l <= n /\ l \in 0..4 /\ n \in 0..4 /\ k \in Nat
    BY <1>1 DEF SecondaryOK, LogOK
  <2> HIDE DEF k, l, n
  <2>2. k <= n
    BY <2>1
  <2> QED
    BY <2>2 DEF k, n
<1>2. \A c \in Collections : DoneFor(3, c) => DoneFor(3, c)'
  BY DEF DoneStays
<1>3. ASSUME "collections" \in LaggingReads, NEW c \in Collections
      PROVE  DocumentsOf(c) = {} \/ DoneFor(3, c)' \/ RenameDue(c, secondary["collections"])
  BY <1>2, <1>3 DEF SecondaryOK
<1> QED
  BY <1>1, <1>3 DEF SecondaryOK

\* The types of what is read, from either.
LEMMA ViewsOK ==
  ASSUME DatabaseTypes, LogTypes, SecondaryOK
  PROVE  /\ DOMAIN secondary = LaggingReads
         /\ \A rows \in Views("lock") : rows \subseteq Instances
         /\ \A log \in Views("changelog") : log \in Seq({"semver", "indexes", "rename", "report"})
         /\ \A names \in Views("collections") : names \subseteq Names
BY DEF Views, primary, SecondaryOK, DatabaseTypes, LogTypes

LEMMA TypesFromParts ==
  DatabaseTypes /\ InstanceTypes /\ LogTypes /\ SecondaryOK => TypeOK
BY ViewsOK, FilesInOrder DEF TypeOK, DatabaseTypes, InstanceTypes, LogTypes, Pcs

LEMMA KeptInvariant ==
  ASSUME IInv, NEW i \in Instances, Kept(i), UNCHANGED secondary
  PROVE  IInv'
<1>1. InstanceTypes /\ LogOK /\ \A j \in Instances : InstanceOK(j)
  BY TypesInParts DEF IInv
<1>2. ASSUME NEW j \in Instances, j # i PROVE InstanceOK(j)'
  <2>1. Same(j)
    BY <1>2 DEF Kept, Elsewhere
  <2> QED
    BY <1>1, <2>1, StillOK DEF Kept
<1>3. SecondaryOK'
  BY SecondaryStaysOK DEF IInv, Kept
<1>4. TypeOK'
  BY <1>3, TypesFromParts, PTL DEF Kept
<1> QED
  BY <1>2, <1>3, <1>4 DEF Kept, IInv

\* Steps that change neither the database nor the changelog.
LEMMA QuietStep ==
  ASSUME IInv, UNCHANGED <<database, legacy, changelog>>, lockRows' \subseteq Instances
  PROVE  /\ DatabaseTypes' /\ DatabaseOK' /\ DoneStays
         /\ LogTypes' /\ LogOK' /\ Len(changelog') = Len(changelog)
         /\ Len(changelog) \in 0..4
<1>1. DatabaseTypes /\ DatabaseOK /\ LogTypes /\ LogOK
  BY TypesInParts DEF IInv
<1>2. UNCHANGED <<database, legacy>> /\ UNCHANGED <<changelog, legacy>>
  OBVIOUS
<1>3. DatabaseTypes' /\ DatabaseOK' /\ DoneStays
  BY <1>1, <1>2, UnchangedKeepsDatabase
<1>4. LogTypes' /\ LogOK' /\ Len(changelog') = Len(changelog)
  BY <1>1, <1>2, <1>3, UnchangedKeepsLog
<1> QED
  BY <1>1, <1>3, <1>4 DEF LogOK

LEMMA WaitKeeps == ASSUME IInv, NEW i \in Instances, Wait(i) PROVE Kept(i)
<1>1. InstanceTypes /\ lockRows \subseteq Instances
  BY TypesInParts DEF IInv, LogTypes
<1>2. UNCHANGED <<database, legacy, changelog, lockRows>>
  BY DEF Wait, Start, FindNoLock, RetryLater, GiveUp, migrating
<1>3. /\ DatabaseTypes' /\ DatabaseOK' /\ DoneStays
      /\ LogTypes' /\ LogOK' /\ Len(changelog') = Len(changelog) /\ Len(changelog) \in 0..4
  BY <1>1, <1>2, QuietStep
<1>4. InstanceTypes' /\ Elsewhere(i) /\ pc'[i] \in {"down", "waiting", "unlocked"}
  <2>1. CASE Start(i)
    <3>1. Goto(i, "waiting") /\ "waiting" \in Pcs /\ UNCHANGED <<retries, pending, at>>
      BY <2>1 DEF Start, Pcs
    <3> QED
      BY <1>1, <3>1, GotoKeepsTypes, InstancesAreApart
  <2>2. CASE FindNoLock(i)
    <3>1. Goto(i, "unlocked") /\ "unlocked" \in Pcs /\ UNCHANGED <<retries, pending, at>>
      BY <2>2 DEF FindNoLock, Pcs
    <3> QED
      BY <1>1, <3>1, GotoKeepsTypes, InstancesAreApart
  <2>3. CASE RetryLater(i)
    <3>1. UNCHANGED <<pc, pending, at>> /\ pc[i] = "waiting"
      BY <2>3 DEF RetryLater
    <3>2. retries' \in [Instances -> 0..MaxRetries]
      <4>1. MaxRetries \in Nat /\ retries[i] \in 0..MaxRetries /\ retries[i] < MaxRetries
        BY <1>1, <2>3, MigrationAssumption DEF RetryLater, InstanceTypes
      <4>2. retries[i] + 1 \in 0..MaxRetries
        BY <4>1
      <4> QED
        BY <1>1, <2>3, <4>2 DEF RetryLater, InstanceTypes
    <3> QED
      BY <1>1, <3>1, <3>2 DEF InstanceTypes, Elsewhere, Same
  <2>4. CASE GiveUp(i)
    <3>1. Down(i)
      BY <2>4 DEF GiveUp
    <3> QED
      BY <1>1, <3>1, DownKeepsTypes, InstancesAreApart
  <2> QED
    BY <2>1, <2>2, <2>3, <2>4 DEF Wait
<1>5. InstanceOK(i)'
  BY <1>4, IdleIsOK
<1> QED
  BY <1>3, <1>4, <1>5 DEF Kept

LEMMA FailKeeps == ASSUME IInv, NEW i \in Instances, Fail(i) PROVE Kept(i)
<1>1. InstanceTypes /\ lockRows \subseteq Instances
  BY TypesInParts DEF IInv, LogTypes
<1>2. UNCHANGED <<database, legacy, changelog>> /\ lockRows' \subseteq Instances
  BY <1>1 DEF Fail
<1>3. Down(i)
  BY DEF Fail
<1>4. InstanceTypes' /\ Elsewhere(i) /\ pc'[i] = "down"
  BY <1>1, <1>3, DownKeepsTypes, InstancesAreApart
<1>5. InstanceOK(i)'
  BY <1>4, IdleIsOK
<1> QED
  BY <1>2, <1>4, <1>5, QuietStep DEF Kept

LEMMA LockKeeps == ASSUME IInv, NEW i \in Instances, ActivateLock(i) \/ ClearLock(i) PROVE Kept(i)
<1>1. InstanceTypes /\ lockRows \subseteq Instances /\ InstanceOK(i)
  BY TypesInParts DEF IInv, LogTypes
<1>2. UNCHANGED <<database, legacy, changelog>> /\ lockRows' \subseteq Instances
  BY <1>1 DEF ActivateLock, ClearLock
<1>3. /\ DatabaseTypes' /\ DatabaseOK' /\ DoneStays
      /\ LogTypes' /\ LogOK' /\ Len(changelog') = Len(changelog) /\ Len(changelog) \in 0..4
  BY <1>2, QuietStep
<1>4. CASE ActivateLock(i)
  <2>1. Goto(i, "status") /\ "status" \in Pcs /\ UNCHANGED <<retries, pending, at>>
    BY <1>4 DEF ActivateLock, Pcs
  <2>2. InstanceTypes' /\ Elsewhere(i) /\ pc'[i] = "status"
    BY <1>1, <2>1, GotoKeepsTypes, InstancesAreApart
  <2> QED
    BY <1>3, <2>2, IdleIsOK DEF Kept
<1>5. CASE ClearLock(i)
  <2>1. /\ Goto(i, "serving") /\ "serving" \in Pcs /\ UNCHANGED <<retries, pending, at>>
        /\ pc[i] = "clearing"
    BY <1>5 DEF ClearLock, Pcs
  <2>2. InstanceTypes' /\ Elsewhere(i) /\ pc'[i] = "serving"
    BY <1>1, <2>1, GotoKeepsTypes, InstancesAreApart
  <2>3. Len(changelog') = 4
    BY <1>1, <1>3, <2>1 DEF InstanceOK
  <2>4. InstanceOK(i)'
    BY <2>2, <2>3 DEF InstanceOK, Steps
  <2> QED
    BY <1>3, <2>2, <2>4 DEF Kept
<1> QED
  BY <1>4, <1>5

LEMMA RecordedInOrder ==
  ASSUME NEW log \in Seq({"semver", "indexes", "rename", "report"}), Len(log) \in 0..4,
         \A j \in 1..Len(log) : log[j] = Files[j], NEW k \in 1..4
  PROVE  RecordedIn(log, Files[k]) <=> k <= Len(log)
<1> DEFINE n == Len(log)
<1>1. DOMAIN log = 1..n /\ n \in 0..4 /\ \A j \in 1..n : log[j] = Files[j]
  OBVIOUS
<1> HIDE DEF n
<1>2. \A j \in 1..n : j \in 1..4
  BY <1>1
<1>3. \A j \in 1..4 : Files[j] = Files[k] => j = k
  <2>1. \A j \in 1..4 : j \in {1, 2, 3, 4}
    OBVIOUS
  <2> QED
    BY <2>1, FilesInOrder
<1>4. RecordedIn(log, Files[k]) <=> \E j \in 1..n : Files[j] = Files[k]
  BY <1>1 DEF RecordedIn
<1>5. RecordedIn(log, Files[k]) <=> k \in 1..n
  BY <1>2, <1>3, <1>4
<1> QED
  BY <1>1, <1>5 DEF n

\* A changelog that a secondary shows may be shorter.
LEMMA ReadStatusKeeps == ASSUME IInv, NEW i \in Instances, ReadStatus(i) PROVE Kept(i)
<1>1. InstanceTypes /\ LogTypes /\ LogOK /\ SecondaryOK
  BY TypesInParts DEF IInv
<1>2. UNCHANGED <<database, legacy, changelog, lockRows, retries>>
  BY DEF ReadStatus, migrating
<1>3. /\ DatabaseTypes' /\ DatabaseOK' /\ DoneStays
      /\ LogTypes' /\ LogOK' /\ Len(changelog') = Len(changelog) /\ Len(changelog) \in 0..4
  BY <1>1, <1>2, QuietStep DEF LogTypes
<1>4. PICK log \in Views("changelog") :
        Proceed(i, {k \in DOMAIN Files : ~RecordedIn(log, Files[k])})
  BY DEF ReadStatus
<1> DEFINE n == Len(log)
           m == n + 1
<1>5. /\ log \in Seq({"semver", "indexes", "rename", "report"})
      /\ n <= Len(changelog) /\ n \in 0..4
      /\ \A k \in 1..n : log[k] = Files[k]
  <2>1. CASE log = changelog
    BY <1>1, <1>3, <2>1 DEF LogTypes, LogOK
  <2>2. CASE "changelog" \in LaggingReads /\ log = secondary["changelog"]
    <3>1. /\ log \in Seq({"semver", "indexes", "rename", "report"})
          /\ n <= Len(changelog)
          /\ \A k \in 1..n : log[k] = Files[k]
      BY <1>1, <2>2 DEF SecondaryOK
    <3>2. n \in Nat
      BY <3>1
    <3> HIDE DEF n
    <3>3. n \in 0..4
      BY <1>3, <3>1, <3>2
    <3> QED
      BY <3>1, <3>3
  <2> QED
    BY <1>4, <2>1, <2>2 DEF Views, primary
<1>6. m \in 1..5
  <2>1. n \in 0..4
    BY <1>5
  <2> HIDE DEF n
  <2> QED
    BY <2>1
<1>7. {k \in DOMAIN Files : ~RecordedIn(log, Files[k])} = m..4
  <2>1. \A k \in 1..4 : RecordedIn(log, Files[k]) <=> k <= n
    BY <1>5, RecordedInOrder
  <2>2. \A k \in 1..4 : ~RecordedIn(log, Files[k]) <=> k >= m
    BY <1>5, <2>1
  <2>3. \A k \in m..4 : k \in 1..4
    BY <1>6
  <2> HIDE DEF m
  <2>4. \A k : k \in m..4 <=> k \in 1..4 /\ k >= m
    BY <1>6, <2>3
  <2> QED
    BY <2>2, <2>4, FilesInOrder
<1>8. Proceed(i, m..4)
  BY <1>4, <1>7
<1>9. m..4 \in SUBSET (1..4)
  BY <1>6
<1>10. InstanceTypes' /\ Elsewhere(i)
  BY <1>1, <1>2, <1>8, <1>9, ProceedKeepsTypes, InstancesAreApart
<1>11. InstanceOK(i)'
  <2>1. m <= Len(changelog') + 1 /\ Len(changelog') \in 0..4
    BY <1>3, <1>5
  <2> HIDE DEF m
  <2> QED
    BY <1>1, <1>6, <1>8, <2>1, ProceedIsOK
<1>12. Len(changelog) <= Len(changelog')
  BY <1>3
<1> QED
  BY <1>3, <1>10, <1>11, <1>12 DEF Kept

LEMMA RecordKeeps == ASSUME IInv, NEW i \in Instances, RecordMigration(i) PROVE Kept(i)
<1>1. DatabaseTypes /\ DatabaseOK /\ InstanceTypes /\ LogTypes /\ LogOK /\ InstanceOK(i)
  BY TypesInParts DEF IInv
<1>2. UNCHANGED <<database, legacy>> /\ UNCHANGED lockRows /\ UNCHANGED retries
  BY DEF RecordMigration
<1>3. DatabaseTypes' /\ DatabaseOK' /\ DoneStays
  BY <1>1, <1>2, UnchangedKeepsDatabase
<1>4. PICK m \in 1..4 : Applies(i, m)
  BY <1>1 DEF RecordMigration, InstanceOK
<1>5. Applying(i) = Files[m] /\ First(pending[i]) = m
  BY <1>1, <1>4, PlacesAreKnown
<1> DEFINE n == Len(changelog)
<1>6. n = m - 1
  <2>1. ~Recorded(Files[m])
    BY <1>5 DEF RecordMigration
  <2>2. n \in 0..4 /\ ~(m <= n) /\ m <= n + 1
    BY <1>1, <1>4, <2>1, RecordedInOrder DEF LogTypes, LogOK, Applies, Recorded
  <2> HIDE DEF n
  <2> QED
    BY <2>2
<1>7. /\ changelog' = Append(changelog, Files[m])
      /\ changelog' \in Seq({"semver", "indexes", "rename", "report"})
      /\ Len(changelog') = m
      /\ \A k \in 1..m : changelog'[k] = IF k = m THEN Files[m] ELSE changelog[k]
  <2>1. changelog' = Append(changelog, Files[m])
    BY <1>5 DEF RecordMigration
  <2>2. Files[m] \in {"semver", "indexes", "rename", "report"}
    BY FileOfStep
  <2> QED
    BY <1>1, <1>6, <2>1, <2>2 DEF LogTypes
<1>8. LogTypes' /\ LogOK'
  <2>1. \A k \in 1..m : k = m \/ k \in 1..n
    BY <1>6
  <2>2. \A k \in 1..m : changelog'[k] = Files[k]
    BY <1>1, <1>7, <2>1 DEF LogOK
  <2>3. \A c \in Collections : DoneFor(m, c)
    BY <1>4 DEF Applies, RecordMigration
  <2>4. \A k \in 1..m, c \in Collections : DoneFor(k, c)
    BY <1>1, <2>1, <2>3 DEF LogOK
  <2>5. \A k \in 1..m, c \in Collections : DoneFor(k, c)'
    BY <1>3, <2>4 DEF DoneStays
  <2> QED
    BY <1>1, <1>2, <1>7, <2>2, <2>5 DEF LogTypes, LogOK
<1>9. Proceed(i, (m + 1)..4)
  <2>1. (m..4) \ {m} = (m + 1)..4
    OBVIOUS
  <2> QED
    BY <1>4, <1>5, <2>1 DEF RecordMigration, Applies
<1>10. InstanceTypes' /\ Elsewhere(i)
  <2>1. (m + 1)..4 \in SUBSET (1..4)
    OBVIOUS
  <2> QED
    BY <1>1, <1>2, <1>9, <2>1, ProceedKeepsTypes, InstancesAreApart
<1>11. InstanceOK(i)'
  <2>1. /\ m + 1 \in 1..5
        /\ m + 1 <= Len(changelog') + 1
        /\ Len(changelog') \in 0..4
    BY <1>7
  <2> QED
    BY <1>1, <1>9, <2>1, ProceedIsOK
<1> QED
  BY <1>3, <1>6, <1>7, <1>8, <1>10, <1>11 DEF Kept

LEMMA PlaceOfStep ==
  ASSUME NEW i \in Instances, NEW m \in 1..4, Applies(i, m)
  PROVE  /\ pc[i] = "semver" => m = 1
         /\ pc[i] = "indexes" => m = 2
         /\ pc[i] \in {"rename", "renaming"} => m = 3
         /\ pc[i] = "report" => m = 4
<1>1. m \in {1, 2, 3, 4}
  OBVIOUS
<1> QED
  BY <1>1, FilesInOrder DEF Applies

\* One collection of a migration is done, or all.
LEMMA DoneKeeps ==
  ASSUME IInv, NEW i \in Instances, Done(i), NEW m \in 1..4, Applies(i, m), pc[i] \in Steps,
         DatabaseTypes', DatabaseOK', DoneStays,
         NEW b \in Collections, b = Current(i), DoneFor(m, b)'
  PROVE  Kept(i)
<1>1. InstanceTypes /\ LogTypes /\ LogOK
  BY TypesInParts DEF IInv
<1>2. UNCHANGED <<changelog, legacy>> /\ lockRows' \subseteq Instances
  BY <1>1 DEF Done, migrating, LogTypes
<1>3. LogTypes' /\ LogOK' /\ Len(changelog') = Len(changelog) /\ Len(changelog) \in 0..4
  BY <1>1, <1>2, UnchangedKeepsLog DEF LogOK
<1>4. Elsewhere(i)
  BY <1>1, InstancesAreApart
<1>5. InstanceTypes'
  BY <1>1, DoneKeepsTypes
<1>6. InstanceOK(i)'
  BY <1>1, DoneIsOK
<1> QED
  BY <1>3, <1>4, <1>5, <1>6 DEF Kept

LEMMA NormaliseKeeps == ASSUME IInv, NEW i \in Instances, NormaliseDocument(i) PROVE Kept(i)
<1>1. DatabaseTypes /\ DatabaseOK /\ InstanceTypes /\ LogTypes /\ LogOK /\ InstanceOK(i)
  BY TypesInParts DEF IInv
<1>2. PICK m \in 1..4 : Applies(i, m)
  BY <1>1 DEF NormaliseDocument, InstanceOK, Steps
<1>3. PICK c \in Collections : c = Current(i)
  BY <1>1, <1>2, PlacesAreKnown
<1>4. PICK d \in Documents : NormaliseStep(c, d)
  <2>1. Unmigrated(c) \subseteq Documents
    BY <1>1 DEF Unmigrated, DatabaseOK, CollectionOK, DocumentsOf
  <2> QED
    BY <1>3, <2>1 DEF NormaliseDocument, NormaliseStep
<1>5. DatabaseTypes' /\ DatabaseOK' /\ DoneStays
  BY <1>1, <1>4, NormaliseKeepsDatabase
<1>6. UNCHANGED <<changelog, legacy, lockRows, pc, retries, pending, at>>
  BY DEF NormaliseDocument, migrating
<1>7. LogTypes' /\ LogOK' /\ Len(changelog') = Len(changelog) /\ Len(changelog) \in 0..4
  BY <1>1, <1>5, <1>6, UnchangedKeepsLog DEF LogTypes, LogOK
<1>8. InstanceTypes' /\ Elsewhere(i) /\ Same(i)
  BY <1>1, <1>6 DEF InstanceTypes, Elsewhere, Same
<1>9. Len(changelog) <= Len(changelog')
  BY <1>7
<1>10. InstanceOK(i)'
  BY <1>1, <1>5, <1>7, <1>8, <1>9, StillOK
<1> QED
  BY <1>5, <1>7, <1>8, <1>9, <1>10 DEF Kept

LEMMA NormalisedKeeps == ASSUME IInv, NEW i \in Instances, CollectionNormalised(i) PROVE Kept(i)
<1>1. DatabaseTypes /\ DatabaseOK /\ InstanceTypes /\ LogTypes /\ InstanceOK(i)
  BY TypesInParts DEF IInv
<1>2. PICK m \in 1..4 : Applies(i, m)
  BY <1>1 DEF CollectionNormalised, InstanceOK, Steps
<1>3. PICK c \in Collections : c = Current(i)
  BY <1>1, <1>2, PlacesAreKnown
<1>4. DatabaseTypes' /\ DatabaseOK' /\ DoneStays
  <2>1. UNCHANGED <<database, legacy>>
    BY DEF CollectionNormalised, Done
  <2> QED
    BY <1>1, <2>1, UnchangedKeepsDatabase
<1>5. m = 1
  BY <1>2, PlaceOfStep DEF CollectionNormalised
<1>6. ASSUME NEW d \in held[Old(c)] PROVE Migrated(c, d)
  <2>1. IF c = "state" THEN d \in pinned ELSE version[d] \in SemverStrings
    BY <1>3 DEF CollectionNormalised, Unmigrated
  <2>2. d \in Documents
    BY <1>1 DEF DatabaseOK, CollectionOK, DocumentsOf
  <2>3. d \in pinned => version[d] \in SemverStrings
    BY <1>1, <2>2, LegacyIsRaw, ParsedIsFinal DEF DatabaseOK, DocumentOK
  <2> QED
    BY <2>1, <2>3 DEF Migrated
<1>7. DoneFor(m, c)'
  BY <1>4, <1>5, <1>6 DEF DoneFor, DoneStays
<1>8. Done(i) /\ pc[i] \in Steps
  BY DEF CollectionNormalised, Steps
<1> QED
  BY <1>2, <1>3, <1>4, <1>7, <1>8, DoneKeeps

LEMMA IndexesKeep == ASSUME IInv, NEW i \in Instances, CreateIndexes(i) PROVE Kept(i)
<1>1. DatabaseTypes /\ DatabaseOK /\ InstanceTypes /\ InstanceOK(i)
  BY TypesInParts DEF IInv
<1>2. PICK m \in 1..4 : Applies(i, m)
  BY <1>1 DEF CreateIndexes, InstanceOK, Steps
<1>3. PICK c \in Collections : c = Current(i)
  BY <1>1, <1>2, PlacesAreKnown
<1>4. IndexStep(c)
  BY <1>3 DEF CreateIndexes, IndexStep, Done
<1>5. DatabaseTypes' /\ DatabaseOK' /\ DoneStays
  BY <1>1, <1>4, IndexKeepsDatabase
<1>6. m = 2
  BY <1>2, PlaceOfStep DEF CreateIndexes
<1>7. DoneFor(m, c)'
  BY <1>4, <1>6 DEF DoneFor, IndexStep
<1>8. Done(i) /\ pc[i] \in Steps
  BY DEF CreateIndexes, Steps
<1> QED
  BY <1>2, <1>3, <1>5, <1>7, <1>8, DoneKeeps

\* What the migrations before have done when the collections are renamed.
LEMMA BeforeRename ==
  ASSUME IInv, NEW i \in Instances, Applies(i, 3), NEW c \in Collections
  PROVE  /\ \A d \in held[Old(c)] : Migrated(c, d)
         /\ New(c) \in existing \/ Old(c) \in existing \cap indexed
<1> DEFINE n == Len(changelog)
<1>1. n \in 0..4 /\ 3 <= n + 1
  BY DEF IInv, LogOK, Applies
<1>2. \A k \in 1..n : DoneFor(k, c)
  BY DEF IInv, LogOK
<1> HIDE DEF n
<1>3. 1 \in 1..n /\ 2 \in 1..n
  BY <1>1
<1> QED
  BY <1>2, <1>3 DEF DoneFor

\* What a listing leaves out that is due is empty.
LEMMA ListedUnlessEmpty ==
  ASSUME IInv, NEW c \in Collections, NEW names \in Views("collections"),
         ~RenameDue(c, names), RenameDue(c, existing)
  PROVE  DocumentsOf(c) = {}
<1>1. "collections" \in LaggingReads /\ names = secondary["collections"]
  BY DEF Views, primary
<1>2. DocumentsOf(c) = {} \/ DoneFor(3, c)
  BY <1>1 DEF IInv, SecondaryOK
<1> QED
  BY <1>2 DEF DoneFor, RenameDue

LEMMA ListKeeps == ASSUME IInv, NEW i \in Instances, ListCollections(i) PROVE Kept(i)
<1>1. DatabaseTypes /\ DatabaseOK /\ InstanceTypes /\ LogTypes /\ LogOK /\ InstanceOK(i)
  BY TypesInParts DEF IInv
<1>2. PICK m \in 1..4 : Applies(i, m)
  BY <1>1 DEF ListCollections, InstanceOK, Steps
<1>3. PICK c \in Collections : c = Current(i)
  BY <1>1, <1>2, PlacesAreKnown
<1>4. m = 3 /\ pc[i] = "rename" /\ pc[i] \in Steps
  BY <1>2, PlaceOfStep DEF ListCollections, Steps
<1>5. PICK names \in Views("collections") :
        \/ /\ RenameDue(c, names)
           /\ Goto(i, "renaming")
           /\ UNCHANGED <<missed, legacy, secondary, migrating, retries, pending, at>>
        \/ /\ ~RenameDue(c, names)
           /\ Done(i)
           /\ missed' = IF RenameDue(c, existing) THEN missed \cup {c} ELSE missed
  BY <1>3 DEF ListCollections
<1>6. CASE RenameDue(c, names)
  <2>1. Goto(i, "renaming") /\ UNCHANGED <<retries, pending, at>>
    BY <1>5, <1>6
  <2>2. UNCHANGED <<database, legacy, changelog, lockRows>>
    BY <1>5, <1>6 DEF ListCollections, database, migrating
  <2>3. "renaming" \in Pcs
    BY DEF Pcs, Steps
  <2>4. /\ InstanceTypes' /\ Elsewhere(i)
        /\ pc'[i] = "renaming" /\ pending'[i] = pending[i] /\ at'[i] = at[i]
    BY <1>1, <2>1, <2>3, GotoKeepsTypes, InstancesAreApart
  <2>5. /\ DatabaseTypes' /\ DatabaseOK' /\ DoneStays
        /\ LogTypes' /\ LogOK' /\ Len(changelog') = Len(changelog) /\ Len(changelog) \in 0..4
    <3>1. lockRows' \subseteq Instances
      BY <1>1, <2>2 DEF LogTypes
    <3> QED
      BY <2>2, <3>1, QuietStep
  <2>6. Applies(i, m)'
    <3>1. \A b \in Collections : b \in Taken(i, m)' => DoneFor(m, b)'
      <4>1. Taken(i, m)' = Taken(i, m)
        BY <2>4 DEF Taken
      <4> QED
        BY <1>2, <2>5, <4>1 DEF Applies, DoneStays
    <3> QED
      BY <1>2, <1>4, <2>2, <2>4, <3>1 DEF Applies
  <2>7. InstanceOK(i)'
    BY <2>4, <2>6 DEF InstanceOK
  <2> QED
    BY <2>4, <2>5, <2>7 DEF Kept
<1>7. CASE ~RenameDue(c, names) /\ RenameDue(c, existing)
  <2>1. MissStep(c) /\ Done(i)
    BY <1>5, <1>7 DEF MissStep, ListCollections, Done
  <2>2. DatabaseTypes' /\ DatabaseOK' /\ DoneStays /\ c \in missed'
    BY <1>1, <2>1, MissKeepsDatabase
  <2>3. DoneFor(m, c)'
    BY <1>4, <1>7, <2>2, ListedUnlessEmpty DEF DoneFor
  <2> QED
    BY <1>2, <1>3, <1>4, <2>1, <2>2, <2>3, DoneKeeps
<1>8. CASE ~RenameDue(c, names) /\ ~RenameDue(c, existing)
  <2>1. UNCHANGED <<database, legacy>> /\ Done(i)
    BY <1>5, <1>8 DEF ListCollections, database, Done
  <2>2. DatabaseTypes' /\ DatabaseOK' /\ DoneStays
    BY <1>1, <2>1, UnchangedKeepsDatabase
  <2>3. New(c) \in existing
    BY <1>2, <1>4, <1>8, BeforeRename DEF RenameDue
  <2>4. DoneFor(m, c)
    BY <1>4, <2>3 DEF DoneFor
  <2>5. DoneFor(m, c)'
    BY <2>2, <2>4 DEF DoneStays
  <2> QED
    BY <1>2, <1>3, <1>4, <2>1, <2>2, <2>5, DoneKeeps
<1> QED
  BY <1>6, <1>7, <1>8

LEMMA RenameKeeps == ASSUME IInv, NEW i \in Instances, RenameCollection(i) PROVE Kept(i)
<1>1. DatabaseTypes /\ DatabaseOK /\ InstanceTypes /\ InstanceOK(i)
  BY TypesInParts DEF IInv
<1>2. PICK m \in 1..4 : Applies(i, m)
  BY <1>1 DEF RenameCollection, InstanceOK, Steps
<1>3. PICK c \in Collections : c = Current(i)
  BY <1>1, <1>2, PlacesAreKnown
<1>4. m = 3 /\ pc[i] \in Steps
  BY <1>2, PlaceOfStep DEF RenameCollection, Steps
<1>5. RenameStep(c) /\ \A d \in held[Old(c)] : Migrated(c, d)
  BY <1>2, <1>3, <1>4, BeforeRename DEF RenameCollection, RenameStep, RenameDue, Done
<1>6. DatabaseTypes' /\ DatabaseOK' /\ DoneStays /\ New(c) \in existing'
  BY <1>1, <1>5, RenameKeepsDatabase
<1>7. DoneFor(m, c)'
  BY <1>4, <1>6 DEF DoneFor
<1>8. Done(i)
  BY DEF RenameCollection
<1> QED
  BY <1>2, <1>3, <1>4, <1>6, <1>7, <1>8, DoneKeeps

LEMMA ReportKeeps == ASSUME IInv, NEW i \in Instances, ReportPence(i) PROVE Kept(i)
<1>1. InstanceTypes /\ lockRows \subseteq Instances /\ InstanceOK(i)
  BY TypesInParts DEF IInv, LogTypes
<1>2. UNCHANGED <<database, legacy, changelog, lockRows>>
  BY DEF ReportPence, migrating
<1>3. /\ DatabaseTypes' /\ DatabaseOK' /\ DoneStays
      /\ LogTypes' /\ LogOK' /\ Len(changelog') = Len(changelog) /\ Len(changelog) \in 0..4
  BY <1>1, <1>2, QuietStep
<1>4. PICK m \in 1..4 : Applies(i, m)
  BY <1>1 DEF ReportPence, InstanceOK, Steps
<1>5. m = 4
  BY <1>4, PlaceOfStep DEF ReportPence
<1>6. Goto(i, "recording") /\ "recording" \in Pcs /\ UNCHANGED <<retries, pending, at>>
  BY DEF ReportPence, Pcs
<1>7. InstanceTypes' /\ Elsewhere(i) /\ pc'[i] = "recording" /\ pending'[i] = pending[i]
  BY <1>1, <1>6, GotoKeepsTypes, InstancesAreApart
<1>8. Applies(i, m)'
  BY <1>2, <1>4, <1>5, <1>7 DEF Applies, DoneFor
<1>9. InstanceOK(i)'
  BY <1>7, <1>8 DEF InstanceOK
<1> QED
  BY <1>3, <1>7, <1>9 DEF Kept

\* Rows of the lock may go, and nothing else change.
LEMMA NothingDoneKeeps ==
  ASSUME IInv, UNCHANGED <<database, legacy, changelog>>, lockRows' \subseteq Instances,
         UNCHANGED <<secondary, pc, retries, pending, at>>
  PROVE  IInv'
<1>1. InstanceTypes /\ LogTypes /\ LogOK /\ \A j \in Instances : InstanceOK(j)
  BY TypesInParts DEF IInv
<1>2. /\ DatabaseTypes' /\ DatabaseOK' /\ DoneStays
      /\ LogTypes' /\ LogOK' /\ Len(changelog') = Len(changelog) /\ Len(changelog) \in 0..4
  BY QuietStep
<1>3. InstanceTypes' /\ \A j \in Instances : Same(j)
  BY <1>1 DEF InstanceTypes, Same
<1>4. Len(changelog) <= Len(changelog')
  BY <1>2
<1>5. \A j \in Instances : InstanceOK(j)'
  BY <1>1, <1>2, <1>3, <1>4, StillOK
<1>6. SecondaryOK'
  BY <1>2, <1>4, SecondaryStaysOK DEF IInv
<1>7. TypeOK'
  BY <1>2, <1>3, <1>6, TypesFromParts, PTL
<1> QED
  BY <1>2, <1>5, <1>6, <1>7 DEF IInv

\* The secondary shows what there is, with every document under a name.
LEMMA UpToDateIsOK ==
  ASSUME DatabaseTypes, DatabaseOK, LogTypes, LogOK, secondary = replicated
  PROVE  SecondaryOK
<1>1. /\ DOMAIN secondary = LaggingReads
      /\ "lock" \in LaggingReads => secondary["lock"] = lockRows
      /\ "changelog" \in LaggingReads => secondary["changelog"] = changelog
      /\ "collections" \in LaggingReads => secondary["collections"] = existing
  BY DEF replicated, primary
<1>2. ASSUME NEW c \in Collections
      PROVE  DocumentsOf(c) = {} \/ DoneFor(3, c) \/ RenameDue(c, existing)
  <2>1. CollectionOK(c)
    BY DEF DatabaseOK
  <2>2. New(c) \in existing \/ held[New(c)] = {}
    BY <2>1 DEF CollectionOK
  <2>3. held[New(c)] = {} => DocumentsOf(c) = {} \/ Old(c) \in existing
    BY <2>1 DEF CollectionOK
  <2> QED
    BY <2>2, <2>3 DEF DoneFor, RenameDue
<1>3. Len(changelog) \in 0..4 /\ \A k \in 1..Len(changelog) : changelog[k] = Files[k]
  BY DEF LogOK
<1> QED
  BY <1>1, <1>2, <1>3 DEF SecondaryOK, DatabaseTypes, LogTypes

LEMMA ReplicateKeeps == IInv /\ Replicate => IInv'
<1> SUFFICES ASSUME IInv, Replicate PROVE IInv'
  OBVIOUS
<1>1. InstanceTypes /\ LogTypes /\ LogOK /\ \A j \in Instances : InstanceOK(j)
  BY TypesInParts DEF IInv
<1>2. /\ UNCHANGED <<database, legacy, changelog, lockRows, pc, retries, pending, at>>
      /\ secondary' = replicated
  BY DEF Replicate, migrating
<1>3. /\ DatabaseTypes' /\ DatabaseOK' /\ DoneStays
      /\ LogTypes' /\ LogOK' /\ Len(changelog') = Len(changelog) /\ Len(changelog) \in 0..4
  BY <1>1, <1>2, QuietStep DEF LogTypes
<1>4. InstanceTypes' /\ \A j \in Instances : Same(j)
  BY <1>1, <1>2 DEF InstanceTypes, Same
<1>5. \A j \in Instances : InstanceOK(j)'
  <2>1. Len(changelog) <= Len(changelog')
    BY <1>3
  <2> QED
    BY <1>1, <1>3, <1>4, <2>1, StillOK
<1>6. (secondary = replicated)'
  BY <1>2 DEF replicated, primary, database
<1>7. SecondaryOK'
  BY <1>3, <1>6, UpToDateIsOK, PTL
<1>8. TypeOK'
  BY <1>3, <1>4, <1>7, TypesFromParts, PTL
<1> QED
  BY <1>3, <1>5, <1>7, <1>8 DEF IInv

LEMMA NextKeepsInvariant == IInv /\ [Next]_vars => IInv'
<1> SUFFICES ASSUME IInv, [Next]_vars PROVE IInv'
  OBVIOUS
<1>1. ASSUME NEW i \in Instances, Wait(i) PROVE IInv'
  <2>1. UNCHANGED secondary
    BY <1>1 DEF Wait, Start, FindNoLock, RetryLater, GiveUp
  <2> QED
    BY <1>1, <2>1, WaitKeeps, KeptInvariant
<1>2. ASSUME NEW i \in Instances, Up(i) PROVE IInv'
  <2>1. UNCHANGED secondary
    BY <1>2 DEF Up, ActivateLock, ReadStatus, RecordMigration, ClearLock
  <2> QED
    BY <1>2, <2>1, LockKeeps, ReadStatusKeeps, RecordKeeps, KeptInvariant DEF Up
<1>3. ASSUME NEW i \in Instances, Migrate(i) PROVE IInv'
  <2>1. UNCHANGED secondary
    BY <1>3 DEF Migrate, NormaliseDocument, CollectionNormalised, CreateIndexes,
                ListCollections, RenameCollection, ReportPence, Done
  <2> QED
    BY <1>3, <2>1, NormaliseKeeps, NormalisedKeeps, IndexesKeep, ListKeeps, RenameKeeps,
       ReportKeeps, KeptInvariant DEF Migrate
<1>4. ASSUME NEW i \in Instances, Fail(i) PROVE IInv'
  <2>1. UNCHANGED secondary
    BY <1>4 DEF Fail
  <2> QED
    BY <1>4, <2>1, FailKeeps, KeptInvariant
<1>5. ASSUME ExpireLock \/ UNCHANGED vars PROVE IInv'
  <2>1. lockRows \subseteq Instances
    BY TypesInParts DEF IInv, LogTypes
  <2>2. /\ UNCHANGED <<database, legacy, changelog>> /\ lockRows' \subseteq Instances
        /\ UNCHANGED <<secondary, pc, retries, pending, at>>
    BY <1>5, <2>1 DEF ExpireLock, vars, migrating
  <2> QED
    BY <2>2, NothingDoneKeeps
<1> QED
  BY <1>1, <1>2, <1>3, <1>4, <1>5, ReplicateKeeps DEF Next

LEMMA InitInvariant == Init => IInv
<1> SUFFICES ASSUME Init PROVE IInv
  OBVIOUS
<1>1. \A d \in Documents : legacy[d] \in RawVersions
  BY MigrationAssumption DEF Init
<1>2. DatabaseTypes
  <2>1. legacy \in [Documents -> RawVersions]
    BY MigrationAssumption DEF Init
  <2>2. held \in [Names -> SUBSET Documents]
    BY DEF Init, DocumentsOf
  <2> QED
    BY <2>1, <2>2 DEF Init, DatabaseTypes
<1>3. InstanceTypes /\ LogTypes
  BY MigrationAssumption DEF Init, InstanceTypes, LogTypes, Pcs
<1>4. ASSUME NEW c \in Collections PROVE CollectionOK(c)
  <2>1. /\ held[Old(c)] = DocumentsOf(c) /\ held[New(c)] = {}
        /\ New(c) \notin existing /\ New(c) \notin indexed
        /\ Old(c) \in indexed => Old(c) \in existing
        /\ held[Old(c)] # {} => Old(c) \in existing
    BY NamesOfCollections DEF Init, Old, New
  <2>2. Old(c) \in existing => ~Collide(c, held[Old(c)], version)
    BY NamesOfCollections DEF Init
  <2> QED
    BY <2>1, <2>2 DEF CollectionOK
<1>5. \A d \in Documents : DocumentOK(d)
  BY DEF Init, DocumentOK
<1>6. LogOK
  BY DEF Init, LogOK
<1>7. \A i \in Instances : InstanceOK(i)
  BY DEF Init, InstanceOK, Steps
<1>8. DatabaseOK
  BY <1>4, <1>5 DEF DatabaseOK
<1>9. SecondaryOK
  BY <1>2, <1>3, <1>6, <1>8, UpToDateIsOK DEF Init
<1> QED
  BY <1>2, <1>3, <1>6, <1>7, <1>8, <1>9, TypesFromParts DEF IInv

LEMMA InvariantHolds == Spec => []IInv
BY InitInvariant, NextKeepsInvariant, PTL DEF Spec

---------------------------------------------------------------------------
(* Theorems *)

\* The variables have their types.
THEOREM MigrationsTypeCorrect == Spec => []TypeOK
<1>1. IInv => TypeOK
  BY DEF IInv
<1> QED
  BY <1>1, InvariantHolds, PTL

\* However many instances migrate at a time, and wherever they stop, the
\* changelog has each migration once, in the order of the files (the unique
\* index of ensureChangelogIndex refuses the second of two).
THEOREM ChangelogStaysInOrder == Spec => []ChangelogInOrder
<1>1. ASSUME IInv PROVE ChangelogInOrder
  <2> DEFINE n == Len(changelog)
  <2>1. /\ changelog \in Seq({"semver", "indexes", "rename", "report"})
        /\ n \in 0..4 /\ \A k \in 1..n : changelog[k] = Files[k]
    BY <1>1 DEF IInv, TypeOK, LogOK
  <2>2. Files \in Seq({"semver", "indexes", "rename", "report"}) /\ Len(Files) = 4
    BY DEF Files
  <2>3. /\ SubSeq(Files, 1, n) \in Seq({"semver", "indexes", "rename", "report"})
        /\ Len(SubSeq(Files, 1, n)) = n
        /\ \A k \in 1..n : SubSeq(Files, 1, n)[k] = Files[k]
    BY <2>1, <2>2
  <2> QED
    BY <2>1, <2>3 DEF ChangelogInOrder
<1> QED
  BY <1>1, InvariantHolds, PTL

\* No document of before is lost, and under its new name it is found with
\* the version its client has kept (parseSemver of the migration and
\* normaliseGrantVersion of the routes agree).
THEOREM LegacyApplicationsStayFound == Spec => []LegacyApplicationsAreFound
<1>1. ASSUME IInv PROVE LegacyApplicationsAreFound
  <2>1. DatabaseOK /\ LogTypes
    BY <1>1, TypesInParts DEF IInv
  <2> SUFFICES ASSUME NEW d \in Documents, NEW c \in Collections, c = CollectionOf[d],
                      d \notin held[Old(c)]
               PROVE  /\ d \in held[New(c)]
                      /\ version[d] = normaliseGrantVersion(legacy[d]).grantVersion
    BY MigrationAssumption DEF LegacyApplicationsAreFound
  <2>2. d \in held[New(c)]
    BY <2>1 DEF DatabaseOK, CollectionOK, DocumentsOf
  <2>3. version[d] \in SemverStrings
    BY <2>1, <2>2 DEF DatabaseOK, CollectionOK, Migrated
  <2>4. version[d] \in {legacy[d], parseSemver(legacy[d]).semver}
    BY <2>1 DEF DatabaseOK, DocumentOK
  <2>5. legacy[d] \in RawVersions
    BY <2>1, LegacyIsRaw
  <2> QED
    BY <2>2, <2>3, <2>4, <2>5, ParsedIsFinal
<1> QED
  BY <1>1, InvariantHolds, PTL

\* An instance serves only a database whose collections have the names, the
\* versions and the indexes that the repositories count on (startServer
\* migrates first, and an error ends the boot), whatever a lagging secondary
\* shows of lock, changelog and collections; except that a collection without
\* documents may be left under its old name when its listing is out of date
\* (renameIfNeeded).
THEOREM OnlyMigratedIsServed == Spec => []ServesMigrated
<1>1. ASSUME IInv PROVE ServesMigrated
  <2> SUFFICES ASSUME NEW i \in Instances, pc[i] = "serving", NEW c \in Collections,
                      ~(c \in missed /\ DocumentsOf(c) = {})
               PROVE  /\ New(c) \in existing \cap indexed
                      /\ ~Collide(c, held[New(c)], version)
                      /\ \A d \in held[New(c)] : version[d] \in SemverStrings
                      /\ c = "state" => held[New(c)] \subseteq pinned
    BY DEF ServesMigrated
  <2>1. Len(changelog) = 4
    BY <1>1 DEF IInv, InstanceOK
  <2>2. New(c) \in existing
    BY <1>1, <2>1 DEF IInv, LogOK, DoneFor
  <2> QED
    BY <1>1, <2>2 DEF IInv, DatabaseOK, CollectionOK, Migrated
<1> QED
  BY <1>1, InvariantHolds, PTL

===========================================================================
