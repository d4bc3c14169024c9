SPECIFICATION FairSpec
CONSTANTS
  Rows <- MCRows
  Repeats = {"left"}
  KbdBuf = 2
  Watched = "onoff"
  OnOff = "onoff"
  EvtQueue = 2
  Levels = 2
INVARIANTS
  KeyEvents
  AwakeRestored
  ClocksRight
PROPERTIES
  WakeLasts
  SleepServes
