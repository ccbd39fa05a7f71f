SPECIFICATION Spec
CONSTANTS
  Idle = Idle
  NoProc = NoProc
  None = None
  Procs <- MixedProcs
  Chans <- MixedChans
  Intrs <- MixedIntrs
  NrGuards <- MixedNrGuards
  Guards <- MixedGuards
  AltPri = {}
  Program <- MixedProgram
  MainStarts <- MixedStarts
  Pri <- MixedPri
  EarlyIntr = FALSE
  Tick = 1
  MaxReturning = 2
  MaxTime = 0
  MaxCount = 1
  MsgMod = 3
INVARIANTS
  PartnerIsWriter
