SPECIFICATION FairSpec
CONSTANTS
  Idle = Idle
  NoProc = NoProc
  None = None
  Procs <- ProconProcs
  Chans <- ProconChans
  Intrs = {}
  NrGuards <- ProconNrGuards
  Guards <- ProconGuards
  AltPri = {}
  Program <- SpawnProgram
  MainStarts <- SpawnStarts
  Pri <- ProconPri
  EarlyIntr = FALSE
  Tick = 1
  MaxReturning = 1
  MaxTime = 0
  MaxCount = 0
  MsgMod = 3
INVARIANTS
  TypeOK
  NoLostProcess
  AppendsProperly
  PartnerIsWriter
  ReleasedOffQueue
PROPERTIES
  ImplementsRendezvous
  OfferTaken
