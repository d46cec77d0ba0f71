CONSTANTS
  c1 = c1
  c2 = c2
  c3 = c3
  c4 = c4
  Calls <- MCCalls
  Pid <- MCPid
  Ttl = 2
  MaxTime = 5
  NoLease = NoLease
  Nobody = Nobody
SPECIFICATION Spec
INVARIANT TypeOK
INVARIANT InForceExcludes
INVARIANT LiveHoldsRow
PROPERTY IsLock
