---------------------------- MODULE MCMigrations ----------------------------
(* The instance of Migrations that TLC checks. *)
EXTENDS Migrations, TLC

CONSTANTS d1, d2, d3, app

Raw(kind, major) ==
  [kind |-> kind, major |-> major, minor |-> 0, patch |-> 0, spelling |-> 0]

\* Two state documents of one application, and a lock.
MCCollectionOf == d1 :> "state" @@ d2 :> "state" @@ d3 :> "locks"
MCApplicationOf == [d \in Documents |-> app]

\* In the second, two spellings of one version.
MCLegacies ==
  {d1 :> Raw("other", 0)  @@ d2 :> Raw("semver", 2) @@ d3 :> Raw("digits", 3),
   d1 :> Raw("number", 1) @@ d2 :> Raw("semver", 1) @@ d3 :> Raw("semver", 1)}
=============================================================================
