SPECIFICATION PolledSpec
CONSTANTS
  a = a
  b = b
  r = r
  NoProc = NoProc
  NoMsg = NoMsg
  Proc = {a, b}
  InboxSize = 3
  SendCalls <- OnChannel
  RecvCalls <- FromChannel
  CheckCalls <- Polling
  MayStop = {b}
  Junk = {0}
  MaxSends = 2
INVARIANT CheckedMessageIsThere
PROPERTIES CallsReturn MatchedReceiveReturns
