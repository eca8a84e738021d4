SPECIFICATION FairSpec
CONSTANTS
  m = m
  a = a
  b = b
  NoVM = NoVM
  Root = m
  VM = {m, a}
  HeapSize = 3
  Required = 2
  AllocCalls <- LargeCells
  BareCalls <- NoCalls
  BigCalls = {a}
  SendCalls <- MainToChild
  ForkCalls <- OneChild
  MayStop = {a}
  MaxCalls <- Calls21
  MaxCollections = 12
INVARIANT LockGivenBack
PROPERTIES GrowMakesRoom CallsReturn
