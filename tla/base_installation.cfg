\* One construction, with failures anywhere, SIGINT and umounts that fail.
SPECIFICATION MCSpec
CONSTANTS
  Enabled = {"fault", "interrupt", "busy"}
  Packages = {a, b, c}
  Versions = {v1, v2}
  None = None
SYMMETRY Symmetric
CHECK_DEADLOCK FALSE
INVARIANTS Inductive FilesRestored MountsUndone NothingLost BuiltAsRecorded NothingRemovedWithoutPolicy ConstructionUndone
