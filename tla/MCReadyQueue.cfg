SPECIFICATION Spec
CONSTANTS
  p1 = p1
  p2 = p2
  p3 = p3
  p4 = p4
  Idle = Idle
  NoProc = NoProc
  Procs <- MCProcs
  Pri <- MCPri
INVARIANT QueueInv
PROPERTY ImplementsFifo
