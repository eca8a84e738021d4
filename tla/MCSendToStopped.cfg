SPECIFICATION Spec
CONSTANTS
  a = a
  b = b
  r = r
  NoProc = NoProc
  NoMsg = NoMsg
  Proc = {a, b}
  InboxSize = 4
  SendCalls <- BothWays
  RecvCalls <- Mutual
  CheckCalls <- Polling
  MayStop = {b}
  Junk = {0}
  MaxSends = 2
INVARIANT StoppedInboxUntouched
