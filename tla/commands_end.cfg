\* Every command ends, and bases are deleted under nobody, with failures but without kills.
SPECIFICATION FairSpec
CONSTANTS
  Procs = {p1, p2}
  Ids = {i1}
  Names = {n1}
  Targets = {t1}
  Dirs = {d1, d2}
  OpIds = {1, 2}
  MaxGen = 1
  None = None
  Enabled = {"create", "reset", "remove", "run", "delete", "ensure", "recover", "fault"}
INVARIANT LiveDeletionUnreferenced
PROPERTY CommandsEnd
