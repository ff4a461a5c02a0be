CONSTANTS
  Addr = {1, 2}
  Settings <- Configurations
  MaxBackends = 1
  BadConnRetries = 2
  MaxRules = 1
SPECIFICATION FairSpec
INVARIANTS WTypeOK Sound FirstAnswered TableTracked ReportApplied
PROPERTIES Follows
