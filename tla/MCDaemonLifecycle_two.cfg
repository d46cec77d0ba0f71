CONSTANTS
  Supervisors = {s1, s2}
  Daemons = {d1, d2}
  NoFile = NoFile
  Slow = {}
  Deaths = FALSE
  Failures = {}
  Exits = FALSE
SPECIFICATION Spec
INVARIANT OneDaemon
