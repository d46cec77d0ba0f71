CONSTANTS
  Files = {1}
  Contents = {a, b}
  Unreadable = {}
  Absent = Absent
  Sessions = {s1}
  Manual = Manual
  Bootstrap = Bootstrap
  Worker = Worker
  Checks = {}
  Rebuilds = {rebuild1}
  Capacity = 1
  MaxEdits = 1
  Crashes = TRUE
SPECIFICATION Spec
INVARIANT IndexedFileHasDetail
