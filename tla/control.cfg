SPECIFICATION FairSpec
CONSTANTS
  a1 = a1
  a2 = a2
  b = b
  A = A
  B = B
  None = None
  Servers <- MCServers
  Pids <- MCPids
  Pid <- MCPid
  Keep = {a1}
  Owners = {a1, a2}
  Calls <- MCCalls
  Attaches <- MCAttaches
  Caller <- MCCaller
  Meant <- MCMeant
  MaxReloads = 1
INVARIANTS
  ServingIsReachable
  ReachesTheAttached
  AnswersTellTheTruth
PROPERTIES
  DrainEnds
CHECK_DEADLOCK FALSE
