-------------------------------- MODULE MCBase --------------------------------
(* Instances of BaseStore for TLC. *)
EXTENDS BaseProperties, TLC

\* No order or identity of these sets is ever looked at.
Symmetric ==
  Permutations(Procs) \cup Permutations(Packages) \cup Permutations(Evidence)
    \cup Permutations(Stagings)

=============================================================================
