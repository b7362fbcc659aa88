\* An adoption that may be killed, and the acquisitions after it.  Once the
\* target is acquired there may be nothing left to ask for.
SPECIFICATION RepeatedEnsure
CONSTANTS
  Procs = {p1}
  Targets = {t1}
  Versions = {v1}
  Kinds = {bsp}
  Stales = {s1}
  Enabled = {"ensure", "adopt", "crash"}
  None = None
CHECK_DEADLOCK FALSE
PROPERTY EnsureSucceeds
