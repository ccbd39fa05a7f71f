SPECIFICATION Spec
CONSTANTS
  Idle = Idle
  NoProc = NoProc
  None = None
  Procs <- TimersProcs
  Chans = {}
  Intrs <- TimersIntrs
  NrGuards <- TimersNrGuards
  Guards <- TimersGuards
  AltPri = {}
  Program <- TimersProgram
  MainStarts <- TimersStarts
  Pri <- TimersPri
  EarlyIntr = FALSE
  Tick = 2
  MaxReturning = 2
  MaxTime = 2
  MaxCount = 1
  MsgMod = 3
INVARIANTS
  NoLostWakeup
  StackInv
  ActivationsBounded
  TimerQueueExact
  CurrentIsRunning
  
