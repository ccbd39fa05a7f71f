SPECIFICATION ClockSpec
CONSTANTS
  NINTR_SOURCES = 3
  MaxDepth = 3
  Tick = 2
  MaxTime = 5
INVARIANTS
  ClockTypeOK
  HandlersCounted
  OutermostSchedules
  BlockedOfInnermost
  TicksAccounted
  NowExact
  NowBehind
PROPERTIES
  ImplementsInterrupts
