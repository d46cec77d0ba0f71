CONSTANTS
  Supervisors = {s1, s2, s3}
  Daemons = {d1}
  NoFile = NoFile
  Slow = {d1}
  Deaths = TRUE
  Failures = {"serve", "pid file"}
  Exits = TRUE
SPECIFICATION LeftSpec
INVARIANT TypeOK
 
PROPERTY LockIsReleased
PROPERTY LockOfGoneIsBroken
CHECK_DEADLOCK FALSE
