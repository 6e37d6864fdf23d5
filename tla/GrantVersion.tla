---------------------------- MODULE GrantVersion ----------------------------
(***************************************************************************)
(* Grant versions are semver strings, but tokens, payloads and stored      *)
(* documents from before may have a number, a bare major or anything else. *)
(* Three pieces of code coerce them: normaliseGrantVersion, for the        *)
(* repository; normalizeGrantVersion, for the validation of payloads; and  *)
(* parseSemver, in the migration that rewrote the stored documents.        *)
(*                                                                         *)
(* A raw value is a number (an integer, not negative), a string of digits, *)
(* a string that matches SEMVER_RE, or other. The regular expressions      *)
(* admit leading zeros, so that one version has several spellings; 0 is    *)
(* the one without. Numbers are below 2^53.                                *)
(***************************************************************************)
EXTENDS Naturals

CONSTANT Null          \* what normalizeGrantVersion answers for the rest

Kinds == {"number", "digits", "semver", "other"}

RawVersions ==
  [kind : Kinds, major : Nat, minor : Nat, patch : Nat, spelling : Nat]

SemverStrings == {r \in RawVersions : r.kind = "semver"}

ASSUME NullIsNoVersion == Null \notin RawVersions

\* `${major}.${minor}.${patch}`
Text(major, minor, patch) ==
  [kind |-> "semver", major |-> major, minor |-> minor, patch |-> patch, spelling |-> 0]

---------------------------------------------------------------------------
(* grant-version.js *)

decompose(grantVersion, major, minor, patch) ==
  [grantVersion |-> grantVersion, pinnedMajor |-> major,
   major |-> major, minor |-> minor, patch |-> patch]

normaliseGrantVersion(raw) ==
  CASE raw.kind = "semver" -> decompose(raw, raw.major, raw.minor, raw.patch)
    [] raw.kind \in {"number", "digits"} -> decompose(Text(raw.major, 0, 0), raw.major, 0, 0)
    [] raw.kind = "other" -> decompose(Text(1, 0, 0), 1, 0, 0)

---------------------------------------------------------------------------
(* state.schema.js *)

\* The integer 1 and the string '1', or a semver string.
normalizeGrantVersion(raw) ==
  CASE raw.kind = "semver" -> raw
    [] raw.kind = "number" /\ raw.major = 1 -> Text(1, 0, 0)
    [] raw.kind = "digits" /\ raw.major = 1 /\ raw.spelling = 0 -> Text(1, 0, 0)
    [] OTHER -> Null

---------------------------------------------------------------------------
(* migrations/state/20260603163942-use-semver.js *)

\* Mutant: a bare major is not recognised.
parseFullSemver(raw) ==
  IF raw.kind = "semver"
  THEN [semver |-> raw, major |-> raw.major, minor |-> raw.minor, patch |-> raw.patch]
  ELSE [semver |-> Text(1, 0, 0), major |-> 1, minor |-> 0, patch |-> 0]

parseSemver(raw) ==
  CASE raw.kind = "semver" ->
         [semver |-> raw, major |-> raw.major, minor |-> raw.minor, patch |-> raw.patch]
    [] raw.kind \in {"digits", "number"} ->
         [semver |-> Text(raw.major, 0, 0), major |-> raw.major, minor |-> 0, patch |-> 0]
    [] raw.kind = "other" ->
         [semver |-> Text(1, 0, 0), major |-> 1, minor |-> 0, patch |-> 0]

===========================================================================
