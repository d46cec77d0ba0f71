CONSTANTS
  Files = {1, 2}
  Contents = {a, bad}
  Unreadable = {bad}
  Absent = Absent
  Sessions = {s1}
  Manual = Manual
  Bootstrap = Bootstrap
  Worker = Worker
  Checks = {}
  Rebuilds = {rebuild1}
  Capacity = 1
  MaxEdits = 2
  Crashes = TRUE
SPECIFICATION FairSpec
INVARIANT StaleHasCause
PROPERTY EventuallyFresh
