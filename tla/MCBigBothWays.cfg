SPECIFICATION Spec
CONSTANTS
  m = m
  a = a
  b = b
  NoVM = NoVM
  Root = m
  VM = {m, a}
  HeapSize = 3
  Required = 2
  AllocCalls <- NoCalls
  BareCalls <- NoCalls
  BigCalls = {}
  SendCalls <- BigBothWays
  ForkCalls <- OneChild
  MayStop = {}
  MaxCalls <- Calls21
  MaxCollections = 12
INVARIANTS NoLockCycle CopiedWhole
