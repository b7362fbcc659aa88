---------------------------- MODULE MCInstallation ----------------------------
(* An instance of BaseInstallation for TLC. *)
EXTENDS InstallationProperties, FiniteSets, TLC

\* Bounds of the trees to begin with: at most one thing is out of the ordinary,
\* the packages found have one version, and a policy names one package at most.
Odd ==
  {path \in Paths : original[path] # IF path = "resolv" THEN "file" ELSE "none"}
    \cup {x \in {"disabled", "construction"} : sources[x]}
    \cup {x \in {"official"} : sources[x] # "tree"}
    \cup {x \in {"other"} : sources[x] # "clean"}

Few ==
  /\ Cardinality(Odd) <= 1
  /\ \E v \in Versions : \A k \in Packages : found[k] \in {None, v}
  /\ policy = None \/ Cardinality(policy) <= 1

\* No order or identity of these sets is ever looked at.
Symmetric == Permutations(Packages) \cup Permutations(Versions)

MCInit == Init /\ Few
MCSpec == MCInit /\ [][Next]_vars

=============================================================================
