----------------------------- MODULE MCWorkspace -----------------------------
(* Instances of WorkspaceLifecycle for TLC. *)
EXTENDS WorkspaceInvariant, TLC

\* Processes, ids, names and directories are interchangeable; operation ids are
\* not, recovery sorts them.
Symmetric ==
  Permutations(Procs) \cup Permutations(Ids) \cup Permutations(Names)
    \cup Permutations(Dirs)

=============================================================================
