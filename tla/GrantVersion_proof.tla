------------------------ MODULE GrantVersion_proof ------------------------
(* What the coercions of grant versions make of every raw value. *)
EXTENDS GrantVersion, TLAPS

\* Major versions become semver strings.
LEMMA TextIsSemver ==
  ASSUME NEW major \in Nat, NEW minor \in Nat, NEW patch \in Nat
  PROVE  Text(major, minor, patch) \in SemverStrings
BY DEF Text, SemverStrings, RawVersions, Kinds

\* A semver string is left as it is.
LEMMA SemverIsKept ==
  ASSUME NEW raw \in SemverStrings
  PROVE  normaliseGrantVersion(raw) = decompose(raw, raw.major, raw.minor, raw.patch)
BY DEF normaliseGrantVersion, SemverStrings

\* A version as it is stored is a version as it is read: what is written is
\* found again (normaliseGrantVersion, used for writing and for reading).
THEOREM NormalisedIsSemver ==
  ASSUME NEW raw \in RawVersions
  PROVE  /\ normaliseGrantVersion(raw).grantVersion \in SemverStrings
         /\ normaliseGrantVersion(normaliseGrantVersion(raw).grantVersion)
              = normaliseGrantVersion(raw)
<1>1. PICK v \in SemverStrings :
        normaliseGrantVersion(raw) = decompose(v, v.major, v.minor, v.patch)
  <2>1. CASE raw.kind = "semver"
    BY <2>1, SemverIsKept DEF SemverStrings
  <2>2. CASE raw.kind \in {"number", "digits"}
    <3>1. normaliseGrantVersion(raw) = decompose(Text(raw.major, 0, 0), raw.major, 0, 0)
      BY <2>2 DEF normaliseGrantVersion
    <3>2. Text(raw.major, 0, 0) \in SemverStrings
      BY TextIsSemver DEF RawVersions
    <3> QED
      BY <3>1, <3>2 DEF Text
  <2>3. CASE raw.kind = "other"
    <3>1. normaliseGrantVersion(raw) = decompose(Text(1, 0, 0), 1, 0, 0)
      BY <2>3 DEF normaliseGrantVersion
    <3>2. Text(1, 0, 0) \in SemverStrings
      BY TextIsSemver
    <3> QED
      BY <3>1, <3>2 DEF Text
  <2> QED
    BY <2>1, <2>2, <2>3 DEF RawVersions, Kinds
<1>2. normaliseGrantVersion(raw).grantVersion = v
  BY <1>1 DEF decompose
<1> QED
  BY <1>1, <1>2, SemverIsKept

\* The major version a document is pinned to is that of its version
\* (decompose; the queries by pinnedMajor and by grantVersion agree).
THEOREM PinnedMajorIsMajor ==
  ASSUME NEW raw \in RawVersions
  PROVE  LET n == normaliseGrantVersion(raw)
         IN  n.pinnedMajor = n.major /\ n.major = n.grantVersion.major
<1>1. CASE raw.kind = "semver"
  BY <1>1 DEF normaliseGrantVersion, decompose
<1>2. CASE raw.kind \in {"number", "digits"}
  BY <1>2 DEF normaliseGrantVersion, decompose, Text
<1>3. CASE raw.kind = "other"
  BY <1>3 DEF normaliseGrantVersion, decompose, Text
<1> QED
  BY <1>1, <1>2, <1>3 DEF RawVersions, Kinds

\* The migration rewrote every stored version to what the repository makes
\* of the same version today, so that no document was left behind under a
\* key nobody asks for (parseSemver and normaliseGrantVersion).
THEOREM MigrationAgreesWithRuntime ==
  ASSUME NEW raw \in RawVersions
  PROVE  LET p == parseSemver(raw)
             n == normaliseGrantVersion(raw)
         IN  /\ p.semver = n.grantVersion
             /\ p.major = n.pinnedMajor
             /\ p.minor = n.minor /\ p.patch = n.patch
<1>1. CASE raw.kind = "semver"
  BY <1>1 DEF normaliseGrantVersion, decompose, parseSemver
<1>2. CASE raw.kind \in {"number", "digits"}
  BY <1>2 DEF normaliseGrantVersion, decompose, parseSemver
<1>3. CASE raw.kind = "other"
  BY <1>3 DEF normaliseGrantVersion, decompose, parseSemver
<1> QED
  BY <1>1, <1>2, <1>3 DEF RawVersions, Kinds

\* What the schema of a payload accepts it changes to what the repository
\* would have made of it (normalizeGrantVersion and normaliseGrantVersion).
THEOREM SchemaAgreesWithRuntime ==
  ASSUME NEW raw \in RawVersions, normalizeGrantVersion(raw) # Null
  PROVE  normalizeGrantVersion(raw) = normaliseGrantVersion(raw).grantVersion
<1>1. CASE raw.kind = "semver"
  BY <1>1 DEF normaliseGrantVersion, decompose, normalizeGrantVersion
<1>2. CASE raw.kind \in {"number", "digits"}
  BY <1>2 DEF normaliseGrantVersion, decompose, normalizeGrantVersion
<1>3. CASE raw.kind = "other"
  BY <1>3 DEF normalizeGrantVersion
<1> QED
  BY <1>1, <1>2, <1>3 DEF RawVersions, Kinds

===========================================================================
