------------------------- MODULE ApplicationLease -------------------------
(***************************************************************************)
(* What the application lock promises its callers, without clocks,         *)
(* documents or indexes: each application is held by at most one owner,    *)
(* and it passes from one owner to another only by being given up first,   *)
(* or after the lease of the first has lapsed.                             *)
(*                                                                         *)
(* ApplicationLock (the MongoDB lock collection) and ApplicationState (the *)
(* request handlers that take and drop locks) are both shown to implement  *)
(* this specification.                                                     *)
(***************************************************************************)

CONSTANTS
  Owners,   \* users, as named by the sub claim of the lock token
  Keys,     \* applications: (grantCode, grantVersion, sbi)
  Nobody    \* the holder of an application that is not locked

VARIABLES
  holder,   \* who holds each application
  lapsed    \* the held applications whose lease has run out

vars == <<holder, lapsed>>

TypeOK ==
  /\ holder \in [Keys -> Owners \cup {Nobody}]
  /\ lapsed \in SUBSET Keys

Init ==
  /\ holder = [k \in Keys |-> Nobody]
  /\ lapsed = {}

\* A free application, the caller's own, or one whose lease has lapsed. A call
\* that was delayed for longer than the lease may be granted one that is
\* already over.
Grant(k, o) ==
  /\ holder[k] \in {Nobody, o} \/ k \in lapsed
  /\ holder' = [holder EXCEPT ![k] = o]
  /\ lapsed' \in {lapsed \ {k}, lapsed \cup {k}}

\* Applications are given up: by release, by sign-out, or by the reaper.
Free(S) ==
  /\ holder' = [k \in Keys |-> IF k \in S THEN Nobody ELSE holder[k]]
  /\ lapsed' = lapsed \ S

\* Time passes and some leases run out.
Lapse(S) ==
  /\ lapsed' = lapsed \cup S
  /\ UNCHANGED holder

Next ==
  \/ \E k \in Keys, o \in Owners : Grant(k, o)
  \/ \E S \in SUBSET Keys : Free(S)
  \/ \E S \in SUBSET Keys : Lapse(S)

Spec == Init /\ [][Next]_vars

===========================================================================
