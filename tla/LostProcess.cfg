SPECIFICATION Spec
CONSTANTS
  Idle = Idle
  NoProc = NoProc
  None = None
  Procs <- DoubleProcs
  Chans = {}
  Intrs <- DoubleIntrs
  NrGuards <- DoubleNrGuards
  Guards <- DoubleGuards
  AltPri = {}
  Program <- DoubleProgram
  MainStarts <- DoubleStarts
  Pri <- DoublePri
  EarlyIntr = FALSE
  Tick = 1
  MaxReturning = 2
  MaxTime = 0
  MaxCount = 2
  MsgMod = 3
INVARIANTS
  NoLostProcess
