SPECIFICATION TimedSpec
CONSTANTS
  a = a
  b = b
  r = r
  NoProc = NoProc
  NoMsg = NoMsg
  Proc = {a, r}
  InboxSize = 4
  SendCalls <- Request
  RecvCalls <- Answer
  CheckCalls <- NoCalls
  MayStop = {r}
  Junk = {0}
  MaxSends = 2
PROPERTY ReceiveNoticesStop
