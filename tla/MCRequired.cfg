SPECIFICATION Spec
CONSTANTS
  m = m
  a = a
  b = b
  NoVM = NoVM
  Root = m
  VM = {m, a}
  HeapSize = 3
  Required = 2
  AllocCalls <- Cells
  BareCalls <- NoCalls
  BigCalls = {m}
  SendCalls <- NoCalls
  ForkCalls <- OneChild
  MayStop = {a}
  MaxCalls <- Calls22
  MaxCollections = 12
INVARIANTS RequireKeepsRoom LockGivenBack
