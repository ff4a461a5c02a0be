CONSTANTS
  Inst = {1}
  Listener = {1}
  Unix = {1}
  Free = Free
  Left = Left
  MaxSignals = 1
  MaxCrashes = 0
  Modes <- AnyMode
  NoFile = NoFile
  Empty = Empty
  NoSignal = NoSignal
SPECIFICATION DSpec
CHECK_DEADLOCK FALSE
INVARIANTS SocketRemoved
