\* Builds come to a base again after failed and killed builds, removals and
\* cleanups, and busy umounts.
SPECIFICATION RepeatedEnsure
CONSTANTS
  Procs = {p1, p2}
  Packages = {k1}
  Evidence = {e1}
  Stagings = {s1, s2}
  Enabled = {"ensure", "delete", "cleanup", "kill", "fault", "busy"}
  None = None
PROPERTY EnsureSucceeds
