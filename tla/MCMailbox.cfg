SPECIFICATION Spec
CONSTANTS
  a = a
  b = b
  r = r
  NoProc = NoProc
  NoMsg = NoMsg
  Proc = {a, b, r}
  InboxSize = 2
  SendCalls <- ToServer
  RecvCalls <- AnyChannel
  CheckCalls <- NoCalls
  MayStop = {}
  Junk = {0}
  MaxSends = 2
INVARIANTS TypeOK NothingLostOrDoubled SenderKept PerSenderOrder NoLostWakeup
PROPERTY ImplementsMailbox
