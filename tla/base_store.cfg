\* Builds, cleanups, deletions and creations, with failures and kills.
SPECIFICATION Spec
CONSTANTS
  Procs = {p1, p2, p3}
  Packages = {k1}
  Evidence = {e1}
  Stagings = {s1, s2}
  Enabled = {"ensure", "create", "remove", "delete", "cleanup", "kill", "fault", "busy"}
  None = None
SYMMETRY Symmetric
INVARIANTS Inductive LiveStagingKept HostDevSpared BrokenOnlyByDeletion WorkspaceTreeWhole WorkspaceBaseKept
PROPERTY ImplementsPublishedBases
