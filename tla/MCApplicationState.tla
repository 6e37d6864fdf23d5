------------------------ MODULE MCApplicationState ------------------------
(* Instances of ApplicationState for TLC. *)
EXTENDS ApplicationState, TLC

\* Version 4 starts a new major; 1, 2 and 3 are releases of the same one.
MajorOf == [v \in Versions |-> 1 + v \div 4]

StateSymmetry ==
  Permutations(Owners) \cup Permutations(Requests) \cup Permutations(Ids)
    \cup Permutations(Purgers) \cup Permutations(References)

===========================================================================
