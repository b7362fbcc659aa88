\* Two processes: acquisitions and cache deletions, killed or failing now and then;
\* SDK Managers may outlive their process.
SPECIFICATION RepeatedEnsure
CONSTANTS
  Procs = {p1, p2}
  Targets = {t1}
  Versions = {v1, v2}
  Kinds = {bsp}
  Stales = {s1}
  Enabled = {"ensure", "delete", "crash", "fault", "orphan"}
  None = None
INVARIANTS LiveReceiptStagingKept StagingBounded
PROPERTY EnsureSucceeds
