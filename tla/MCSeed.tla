-------------------------------- MODULE MCSeed --------------------------------
(* Instances of MaterializationSeed for TLC. *)
EXTENDS SeedProperties, TLC

\* No order or identity of these sets is ever looked at.
Symmetric == Permutations(Procs) \cup Permutations(Versions)

=============================================================================
