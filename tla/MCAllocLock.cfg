SPECIFICATION Spec
CONSTANTS
  m = m
  a = a
  b = b
  NoVM = NoVM
  Root = m
  VM = {m, a, b}
  HeapSize = 3
  Required = 2
  AllocCalls <- Cells
  BareCalls <- BareOnB
  BigCalls = {}
  SendCalls <- ToMain
  ForkCalls <- TwoChildren
  MayStop = {}
  MaxCalls <- Calls21
  MaxCollections = 12
INVARIANTS TypeOK HeapExclusive NextInHeap CopyNoticed
