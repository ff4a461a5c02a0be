CONSTANTS
  Inst = {1, 2}
  Listener = {1, 2}
  Unix = {2}
  Free = Free
  Left = Left
  MaxSignals = 2
  MaxCrashes = 1
  Modes <- AllModes
  NoFile = NoFile
  Empty = Empty
  NoSignal = NoSignal
SPECIFICATION DFairSpec
CHECK_DEADLOCK FALSE
INVARIANTS DTypeOK Guarded
PROPERTIES NothingLost Restarted Ends
