\* Builds that look for the toolchain, acquire it, fail and are killed.
SPECIFICATION RepeatedBuild
CONSTANTS
  Procs = {p1, p2, p3}
  Stagings = {s1, s2}
  Enabled = {"kill", "fault"}
  None = None
INVARIANTS Inductive BuildsUseToolchain OneAcquisition
PROPERTY BuildsSucceed
