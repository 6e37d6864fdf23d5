-------------------------- MODULE ConfigRegister --------------------------
(***************************************************************************)
(* What the config module promises the rest of the service about one       *)
(* grant: a register of versions whose status is always one the broker     *)
(* has reported of that version, and an allowlist made of the lists of     *)
(* versions that were reported active. It promises no order: an older      *)
(* report may replace a newer one.                                         *)
(*                                                                         *)
(* ConfigIngest (the SQS consumer and the startup pull) is shown to        *)
(* implement it, and ApplicationState relies on it: its Publish and        *)
(* Withdraw are an Adopt that changes what is active.                      *)
(***************************************************************************)

CONSTANTS
  Versions,      \* versions of the grant
  Statuses,      \* what the broker may say of a version
  Absent,        \* the status of a version that is not stored
  Coerce(_)      \* what the service makes of a status it may not know

VARIABLES
  reported,      \* <<version, status>> pairs the broker has announced
  status,        \* the stored status of each version
  entries        \* versions whose allowlist entries are stored

vars == <<reported, status, entries>>

Init ==
  /\ reported = {}
  /\ status = [v \in Versions |-> Absent]
  /\ entries = {}

Report(v, s) ==
  /\ reported' = reported \cup {<<v, s>>}
  /\ UNCHANGED <<status, entries>>

\* A version takes a status that was reported of it, coerced or as it is.
Adopt(v) ==
  /\ \E s \in Statuses :
       /\ <<v, s>> \in reported
       /\ status' \in {[status EXCEPT ![v] = s], [status EXCEPT ![v] = Coerce(s)]}
  /\ UNCHANGED <<reported, entries>>

\* Some of the entries go, and those of an active version may come.
Relist(v) ==
  /\ <<v, "active">> \in reported
  /\ \E kept \in SUBSET entries : entries' \in {kept, kept \cup {v}}
  /\ UNCHANGED <<reported, status>>

Next ==
  \/ \E v \in Versions, s \in Statuses : Report(v, s)
  \/ \E v \in Versions : Adopt(v)
  \/ \E v \in Versions : Relist(v)

Spec == Init /\ [][Next]_vars

===========================================================================
