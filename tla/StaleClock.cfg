SPECIFICATION Spec
CONSTANTS
  Idle = Idle
  NoProc = NoProc
  None = None
  Procs <- TimersProcs
  Chans = {}
  Intrs <- TimersIntrs
  NrGuards <- TimersNrGuards
  Guards <- TimersGuards
  AltPri = {}
  Program <- TimersProgram
  MainStarts <- TimersStarts
  Pri <- TimersPri
  EarlyIntr = FALSE
  Tick = 2
  MaxReturning = 1
  MaxTime = 2
  MaxCount = 1
  MsgMod = 3
INVARIANTS
  SelectsReady
