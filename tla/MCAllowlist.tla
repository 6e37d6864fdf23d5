---------------------------- MODULE MCAllowlist ----------------------------
(* The instance of Allowlist that TLC checks. *)
EXTENDS Allowlist

MCUser == [crn |-> "crn1", sbi |-> "sbi1"]
MCUsers == {MCUser}

\* Everybody, the user, and the user by one of his numbers only.
MCLists ==
  {[allowAll |-> TRUE, crns |-> {}, sbis |-> {}],
   [allowAll |-> FALSE, crns |-> {"crn1"}, sbis |-> {"sbi1"}],
   [allowAll |-> FALSE, crns |-> {"crn1"}, sbis |-> {"sbi2"}],
   [allowAll |-> FALSE, crns |-> {"crn2"}, sbis |-> {"sbi1"}]}
===========================================================================
