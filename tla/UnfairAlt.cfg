SPECIFICATION FairSpec
CONSTANTS
  Idle = Idle
  NoProc = NoProc
  None = None
  Procs <- MuxProcs
  Chans <- MuxChans
  Intrs = {}
  NrGuards <- MuxNrGuards
  Guards <- MuxGuards
  AltPri = {}
  Program <- MuxProgram
  MainStarts <- MuxStarts
  Pri <- MuxPri
  EarlyIntr = FALSE
  Tick = 1
  MaxReturning = 2
  MaxTime = 0
  MaxCount = 0
  MsgMod = 3
PROPERTIES
  OfferTaken
