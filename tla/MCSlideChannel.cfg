SPECIFICATION Spec
CONSTANTS
  a = a
  b = b
  r = r
  NoProc = NoProc
  NoMsg = NoMsg
  Proc = {a, b, r}
  InboxSize = 4
  SendCalls <- ToServer
  RecvCalls <- AnyChannel
  CheckCalls <- NoCalls
  MayStop = {}
  Junk = {0}
  MaxSends = 2
INVARIANT ChannelKept
