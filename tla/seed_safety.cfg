\* Creations of one seed at the same time, with failures, kills and rebuilds.
SPECIFICATION Spec
CONSTANTS
  Procs = {p1, p2, p3}
  Versions = {v1, v2}
  Enabled = {"kill", "fault", "rebuild"}
  None = None
SYMMETRY Symmetric
INVARIANTS Inductive UnpackedWhole
