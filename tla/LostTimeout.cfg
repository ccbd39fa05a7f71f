SPECIFICATION FairSpec
CONSTANTS
  Idle = Idle
  NoProc = NoProc
  None = None
  Procs <- SleepProcs
  Chans = {}
  Intrs = {}
  NrGuards <- SleepNrGuards
  Guards <- SleepGuards
  AltPri = {}
  Program <- SleepProgram
  MainStarts <- SleepStarts
  Pri <- SleepPri
  EarlyIntr = FALSE
  Tick = 100
  MaxReturning = 2
  MaxTime = 2
  MaxCount = 0
  MsgMod = 3
PROPERTIES
  TimeoutServed
CHECK_DEADLOCK FALSE
