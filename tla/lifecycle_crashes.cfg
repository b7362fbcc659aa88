\* Commands that are killed at any step, children that outlive them, failing
\* extractions, removals and receipt writes, and recovery.
SPECIFICATION Spec
CONSTANTS
  Procs = {p1, p2}
  Ids = {i1, i2}
  Names = {n1}
  Targets = {t1}
  Dirs = {d1, d2, d3}
  OpIds = {1, 2}
  MaxGen = 2
  None = None
  Enabled = {"create", "reset", "remove", "run", "build", "recover", "crash", "fault"}
SYMMETRY Symmetric
INVARIANTS Inductive UniqueNames SessionSeesItsGeneration PublishedTreesWhole LiveStagingKept OwnReceiptsTrue RecoveryKeepsUp
PROPERTY ImplementsRegistry
