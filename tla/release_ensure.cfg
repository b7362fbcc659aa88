\* Releases ensured again and again, from all sorts of evidence.
SPECIFICATION MCSpec
CONSTANTS
  Kinds = {bsp, rootfs}
  Hashes = {h, g}
  Official = h
  Targets = {t, u}
  Required = t
  MaxBase = 2
  Enabled = {"fault", "delete"}
  None = None
INVARIANTS AcquisitionSuffices RepeatIsFree
PROPERTIES PlansCachedTruly SearchesAgree
