\* Downloads, adoptions and cache deletions, with failures and kills.
SPECIFICATION Spec
CONSTANTS
  Procs = {p1, p2}
  Targets = {t1}
  Versions = {v1, v2}
  Kinds = {bsp, rootfs}
  Stales = {s1}
  Enabled = {"ensure", "adopt", "delete", "crash", "fault"}
  None = None
SYMMETRY Symmetric
INVARIANTS Inductive VerifiedStaysTrue
