SPECIFICATION Spec
CONSTANTS
  m = m
  a = a
  b = b
  NoVM = NoVM
  Root = m
  VM = {m, a, b}
  HeapSize = 3
  Required = 2
  AllocCalls <- NoCalls
  BareCalls <- NoCalls
  BigCalls = {}
  SendCalls <- NoCalls
  ForkCalls <- TwoChildren
  MayStop = {a}
  MaxCalls <- Calls21
  MaxCollections = 12
INVARIANT ProcessesCounted
