-------------------------------- MODULE MCSdkm --------------------------------
(* Instances of SdkmAcquisition for TLC. *)
EXTENDS SdkmProperties, TLC

\* No order or identity of these sets is ever looked at.
Symmetric ==
  Permutations(Procs) \cup Permutations(Versions) \cup Permutations(Kinds)
    \cup Permutations(Stales)

=============================================================================
