SPECIFICATION Spec
CONSTANTS
  a = a
  b = b
  r = r
  NoProc = NoProc
  NoMsg = NoMsg
  Proc = {a, b}
  InboxSize = 4
  SendCalls <- BothWays
  RecvCalls <- Mutual
  CheckCalls <- Polling
  MayStop = {}
  Junk = {0}
  MaxSends = 2
PROPERTY WaitsOnlyWhenEmpty
