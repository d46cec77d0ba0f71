CONSTANTS
  Files = {1}
  Contents = {a, b}
  Unreadable = {}
  Absent = Absent
  Sessions = {s1}
  Manual = Manual
  Bootstrap = Bootstrap
  Worker = Worker
  Checks = {check1}
  Rebuilds = {}
  Capacity = 1
  MaxEdits = 3
  Crashes = FALSE
SPECIFICATION Spec
INVARIANT TypeOK
INVARIANT StaleHasCause
INVARIANT CheckIsFreshUnlessRaced
