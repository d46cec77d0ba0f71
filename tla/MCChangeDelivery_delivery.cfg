CONSTANTS
  Calls = {c1, c2, peer}
  peer = peer
  Flushes = {c1, c2}
  NoId = NoId
  BadFrame = BadFrame
  BadJson = BadJson
  Capacity = 1
  Sessions = {s1}
  Files = {f1}
  Inputs <- MCInputs
  Mistakes <- MCMistakes
  MaxChanges = 2
SPECIFICATION FairSpec
INVARIANT TypeOK
INVARIANT OutcomeIsTruthful
INVARIANT ChangesAreAnnounced
PROPERTY EverythingSettles
CHECK_DEADLOCK FALSE
