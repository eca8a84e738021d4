SPECIFICATION Spec
CONSTANTS
  m = m
  a = a
  b = b
  NoVM = NoVM
  Root = m
  VM = {m, a, b}
  HeapSize = 3
  Required = 2
  AllocCalls <- Cells
  BareCalls <- NoCalls
  BigCalls = {}
  SendCalls <- GrandchildToMain
  ForkCalls <- Chain
  MayStop = {a}
  MaxCalls <- Calls22
  MaxCollections = 12
INVARIANT NextInHeap
