SPECIFICATION FairSpec
CONSTANTS
  Idle = Idle
  NoProc = NoProc
  None = None
  Procs <- PollProcs
  Chans <- PollChans
  Intrs <- PollIntrs
  NrGuards <- PollNrGuards
  Guards <- PollGuards
  AltPri <- PollAltPri
  Program <- PollProgram
  MainStarts <- PollStarts
  Pri <- PollPri
  EarlyIntr = FALSE
  Tick = 1
  MaxReturning = 1
  MaxTime = 0
  MaxCount = 2
  MsgMod = 2
INVARIANTS
  StackPriority
  HeadToTake
  SelectsReady
  NoInversion
  NoLostInterrupt
PROPERTIES
  InterruptServed
