CONSTANTS
  Supervisors = {s1, s2, s3}
  Daemons = {d1, d2, d3, d4}
  NoFile = NoFile
  Slow = {d2}
  Deaths = TRUE
  Failures = {"serve", "pid file"}
  Exits = TRUE
SPECIFICATION Spec
INVARIANT OneDaemonWhileCalm
INVARIANT ListenerIsFound
INVARIANT StopStops
CHECK_DEADLOCK FALSE
CONSTRAINT UntilTrouble
