CONSTANTS
  Proc <- Processes
  Clients <- Assignments
  Space <- Spaces
  Leader = "leader"
  TTL = 5
  Delay = 1
  MaxFaults = 1
  None = None
SPECIFICATION CFairSpec
INVARIANTS CTypeOK Held
PROPERTIES  Succession
