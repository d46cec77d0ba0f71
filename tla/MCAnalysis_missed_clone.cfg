SPECIFICATION AnalysisSpec
CONSTANTS
  NFiles = 4
  Projects <- MCProjects
  Entrypoints = {1}
  Package <- MCPackage
  NoPackage = 0
  SimhashBits = 12
  Bands = 4
  SimhashHammingRadius = 6
  MinCloneTokens = 4
  MinCloneStatements = 3
  TypeShapeMinMembers = 3
  SymbolsPerFile = 10
  Conflicts <- MCConflicts
  MaxFindings = 2
  MaxFiles = 3
  Depth = 2
  Asked <- MCAsked
  Quotes = {"'"}
  Letter = "a"
  MaxText = 6
  Builtins = {2, 3}
  UserTypes = {11, 12}
  MaxNames = 3
INVARIANT DuplicatesAcrossFilesAreFound
CHECK_DEADLOCK FALSE
