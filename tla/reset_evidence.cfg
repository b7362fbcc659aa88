\* A reset and commands in the workspace, none of them failing.
SPECIFICATION Spec
CONSTANTS
  Procs = {p1, p2}
  Ids = {i1}
  Names = {n1}
  Targets = {t1}
  Dirs = {d1, d2}
  OpIds = {1, 2}
  MaxGen = 2
  None = None
  Enabled = {"create", "reset", "run", "recover"}
INVARIANT ResetEvidenceConsistent
