------------------------ MODULE MessagePassingProofs ------------------------
(* The safety properties of MessagePassing, for every set of processes and   *)
(* calls, every inbox size and every bound, and, in the second part, that    *)
(* it implements the mailboxes of module Mailbox.                            *)
EXTENDS MessagePassing, SequenceTheorems, FiniteSetTheorems, TLAPS

USE DEF Running, At, Goto, Acquire, Release

LEMMA PCNames ==
  /\ SendSteps \cup RecvSteps \cup CheckSteps \cup {"idle", "return", "stopping", "stopped"}
       = PC
  /\ {"sendLock", "sendBlock", "sendSignal", "sendUnlock"} \cup Writing = SendSteps
  BY DEF PC, SendSteps, Writing

\* A thread that goes to a step of PC keeps pc well typed.
LEMMA PCStep ==
  ASSUME pc \in [Proc -> PC], NEW p \in Proc, NEW to \in PC,
         pc' = pc \/ pc' = [pc EXCEPT ![p] = to]
  PROVE  pc' \in [Proc -> PC]
  OBVIOUS

LEMMA EmptySlotType == EmptySlot \in Msg
  BY DEF EmptySlot, Msg

LEMMA FieldTypes ==
  ASSUME NEW slot \in Msg, NEW next \in Msg, NEW m \in Payload \cup {NoMsg}, NEW p \in Proc,
         NEW n \in Nat
  PROVE  /\ [slot EXCEPT !.msg = m] \in Msg
         /\ [slot EXCEPT !.sender = p] \in Msg
         /\ [slot EXCEPT !.channel = n] \in Msg
         /\ Moved(slot, next) \in Msg
         /\ Cleared(slot) \in Msg
  <1>1. [slot EXCEPT !.msg = m] \in Msg
    BY DEF Msg
  <1>2. [slot EXCEPT !.sender = p] \in Msg
    BY DEF Msg
  <1>3. [slot EXCEPT !.channel = n] \in Msg
    BY DEF Msg
  <1>4. Moved(slot, next) \in Msg
    <2>1. next.msg \in Payload \cup {NoMsg} /\ next.sender \in Proc \cup {NoProc}
      BY DEF Msg
    <2> QED BY <2>1 DEF Msg, Moved
  <1>5. Cleared(slot) \in Msg
    BY DEF Msg, Cleared
  <1> QED
    BY <1>1, <1>2, <1>3, <1>4, <1>5

-----------------------------------------------------------------------------
(* Types *)

LEMMA InitType == Init => TypeOK
  <1>1. InboxSize \in Nat /\ 1 <= InboxSize
    BY SizeAssumption
  <1> QED
    BY <1>1, EmptySlotType, PCNames DEF Init, TypeOK

LEMMA SendStartType ==
  ASSUME TypeOK, NEW p \in Proc, NEW q \in Proc, NEW c \in Nat, SendStart(p, q, c)
  PROVE  TypeOK'
  <1>1. pc' \in [Proc -> PC]
    BY PCNames DEF SendStart, TypeOK, SendSteps
  <1>2. peer' = IF active[q] THEN [peer EXCEPT ![p] = q] ELSE peer
    BY DEF SendStart
  <1>3. chan' = IF active[q] THEN [chan EXCEPT ![p] = c] ELSE chan
    BY DEF SendStart
  <1>4. seq' \in [Proc -> Nat]
    <2>1. seq \in [Proc -> Nat] /\ seq' = [seq EXCEPT ![p] = @ + 1]
      BY DEF SendStart, TypeOK
    <2> QED BY <2>1
  <1> QED
    BY <1>1, <1>2, <1>3, <1>4 DEF SendStart, TypeOK, vmVars, boxVars, lockVars, history

LEMMA SendLockType ==
  ASSUME TypeOK, NobodySendsToItself, NEW p \in Proc, SendLock(p)
  PROVE  TypeOK'
  <1>1. peer[p] \in Proc
    BY DEF SendLock, NobodySendsToItself, SendSteps
  <1>2. pc' \in [Proc -> PC]
    BY PCNames DEF SendLock, TypeOK, SendSteps
  <1> QED
    BY <1>1, <1>2 DEF TypeOK, SendLock, callVars, vmVars, boxVars, history

\* The stores of a send change one field of one slot.
LEMMA SendStoreType ==
  ASSUME TypeOK, NobodySendsToItself, PointersInRange, NEW p \in Proc,
         SendMsg(p) \/ SendChannel(p) \/ SendSender(p)
  PROVE  TypeOK'
  <1>1. peer[p] \in Proc /\ inboxWrite[peer[p]] \in 1 .. InboxSize
    BY DEF SendMsg, SendChannel, SendSender, NobodySendsToItself, SendSteps, PointersInRange,
       Writing, TypeOK
  <1>2. pc' \in [Proc -> PC]
    <2>1. pc \in [Proc -> PC] /\ {"sendChannel", "sendSender", "sendPublish"} \subseteq PC
      BY PCNames DEF TypeOK, SendSteps
    <2>2. \E to \in {"sendChannel", "sendSender", "sendPublish"} : pc' = [pc EXCEPT ![p] = to]
      BY DEF SendMsg, SendChannel, SendSender
    <2> QED BY <2>1, <2>2, PCStep
  <1> DEFINE slot == inbox[peer[p]][inboxWrite[peer[p]]]
  <1>3. slot \in Msg
    <2>1. inbox[peer[p]] \in [1 .. InboxSize -> Msg]
      BY <1>1 DEF TypeOK
    <2> QED BY <1>1, <2>1
  <1>4. CASE SendMsg(p)
    <2>1. [slot EXCEPT !.msg = <<p, seq[p]>>] \in Msg
      BY <1>3, FieldTypes DEF Payload, TypeOK
    <2>2. inbox' \in [Proc -> [1 .. InboxSize -> Msg]]
      BY <1>1, <1>4, <2>1 DEF SendMsg, TypeOK
    <2> QED
      BY <1>2, <1>4, <2>2 DEF SendMsg, TypeOK, callVars, vmVars, lockVars, history
  <1>5. CASE SendChannel(p)
    <2>1. nextId' \in [Proc -> Nat] /\ chan' \in [Proc -> Nat]
      <3>0. nextId[peer[p]] \in Nat /\ chan[p] \in Nat
        BY <1>1 DEF TypeOK
      <3>1. OpeningId(nextId[peer[p]]) \in Nat /\ PlainId(chan[p]) \in Nat
             /\ nextId[peer[p]] + 1 \in Nat
        BY <3>0 DEF OpeningId, PlainId
      <3>2. CASE chan[p] = 0
        <4>1. /\ chan' = [chan EXCEPT ![p] = OpeningId(nextId[peer[p]])]
              /\ nextId' = [nextId EXCEPT ![peer[p]] = @ + 1]
          BY <1>5, <3>2 DEF SendChannel
        <4>2. chan \in [Proc -> Nat] /\ nextId \in [Proc -> Nat]
          BY DEF TypeOK
        <4> QED BY <1>1, <3>1, <4>1, <4>2
      <3>3. CASE chan[p] # 0
        <4>1. chan' = [chan EXCEPT ![p] = PlainId(@)] /\ nextId' = nextId
          BY <1>5, <3>3 DEF SendChannel
        <4>2. chan \in [Proc -> Nat] /\ nextId \in [Proc -> Nat]
          BY DEF TypeOK
        <4> QED BY <3>1, <4>1, <4>2
      <3> QED BY <3>2, <3>3
    <2>2. [slot EXCEPT !.channel = chan'[p]] \in Msg
      BY <1>3, <2>1, FieldTypes
    <2>3. inbox' \in [Proc -> [1 .. InboxSize -> Msg]]
      BY <1>1, <1>5, <2>2 DEF SendChannel, TypeOK
    <2> QED
      BY <1>2, <1>5, <2>1, <2>3 DEF SendChannel, TypeOK, vmVars, lockVars, history
  <1>6. CASE SendSender(p)
    <2>1. [slot EXCEPT !.sender = p] \in Msg
      BY <1>3, FieldTypes
    <2>2. inbox' \in [Proc -> [1 .. InboxSize -> Msg]]
      BY <1>1, <1>6, <2>1 DEF SendSender, TypeOK
    <2> QED
      BY <1>2, <1>6, <2>2 DEF SendSender, TypeOK, callVars, vmVars, lockVars, history
  <1> QED BY <1>4, <1>5, <1>6

LEMMA SendPublishType ==
  ASSUME TypeOK, NobodySendsToItself, PointersInRange, NEW p \in Proc, SendPublish(p)
  PROVE  TypeOK'
  <1>1. peer[p] \in Proc /\ inboxWrite[peer[p]] \in 1 .. InboxSize
    BY DEF SendPublish, NobodySendsToItself, SendSteps, PointersInRange, Writing, TypeOK
  <1>2. pc' \in [Proc -> PC]
    BY PCNames DEF SendPublish, TypeOK, SendSteps
  <1>3. inboxWrite' \in [Proc -> 1 .. InboxSize + 1]
    <2>1. inboxWrite[peer[p]] + 1 \in 1 .. InboxSize + 1
      BY <1>1, SizeAssumption
    <2> QED BY <1>1, <2>1 DEF SendPublish, TypeOK
  <1>4. [sender |-> p, channel |-> chan[p], msg |-> <<p, seq[p]>>] \in Msg
    BY DEF Msg, Payload, TypeOK
  <1>5. sent' \in [Proc -> Seq(Msg)]
    BY <1>1, <1>4 DEF SendPublish, TypeOK
  <1> QED
    BY <1>2, <1>3, <1>5 DEF SendPublish, TypeOK, callVars, vmVars, lockVars

LEMMA SendEndType ==
  ASSUME TypeOK, NobodySendsToItself, NEW p \in Proc,
         SendBlock(p) \/ SendSignal(p) \/ SendUnlock(p) \/ SendDangling(p)
  PROVE  TypeOK'
  <1>1. peer[p] \in Proc
    BY DEF SendBlock, SendSignal, SendUnlock, SendDangling, NobodySendsToItself, SendSteps,
       Return
  <1>2. pc' \in [Proc -> PC]
    <2>1. pc \in [Proc -> PC] /\ {"sendSignal", "sendUnlock", "idle"} \subseteq PC
      BY PCNames DEF TypeOK, SendSteps
    <2>2. \/ pc' = pc
          \/ \E to \in {"sendSignal", "sendUnlock", "idle"} : pc' = [pc EXCEPT ![p] = to]
      BY DEF SendBlock, SendSignal, SendUnlock, SendDangling, Return
    <2> QED BY <2>1, <2>2, PCStep
  <1>3. CASE SendBlock(p)
    BY <1>1, <1>2, <1>3 DEF SendBlock, TypeOK, callVars, vmVars, boxVars, history
  <1>4. CASE SendSignal(p)
    BY <1>1, <1>2, <1>4 DEF SendSignal, Signal, TypeOK, callVars, vmVars, boxVars, history
  <1>5. CASE SendUnlock(p)
    <2>1. inboxLock' \in [Proc -> Proc \cup {NoProc}]
      BY <1>1, <1>5 DEF SendUnlock, TypeOK
    <2>2. Return(p, "sendUnlock") /\ UNCHANGED <<vmVars, boxVars, inboxBlock, sleeping, fate, history>>
      BY <1>5 DEF SendUnlock
    <2>3. /\ peer' \in [Proc -> Proc \cup {NoProc}] /\ chan' \in [Proc -> Nat]
          /\ cur' \in [Proc -> 1 .. InboxSize] /\ ret' \in [Proc -> Msg] /\ seq' = seq
      <3>1. 1 \in 1 .. InboxSize
        BY SizeAssumption
      <3> QED BY <2>2, <3>1, EmptySlotType DEF Return, TypeOK
    <2> QED
      BY <1>2, <2>1, <2>2, <2>3 DEF TypeOK, vmVars, boxVars, history
  <1>6. CASE SendDangling(p)
    BY <1>2, <1>6 DEF SendDangling, TypeOK, callVars, vmVars, boxVars, lockVars, history
  <1> QED BY <1>3, <1>4, <1>5, <1>6

LEMMA RecvStartType ==
  ASSUME TypeOK, NEW p \in Proc, NEW s \in Proc \cup {NoProc}, NEW c \in Nat,
         RecvStart(p, s, c)
  PROVE  TypeOK'
  <1>1. pc' \in [Proc -> PC]
    BY PCNames DEF RecvStart, TypeOK, RecvSteps
  <1> QED
    BY <1>1 DEF RecvStart, TypeOK, vmVars, boxVars, lockVars, history

LEMMA RecvScanType ==
  ASSUME TypeOK, NEW p \in Proc, RecvScan(p)
  PROVE  TypeOK'
  <1>1. pc' \in [Proc -> PC]
    BY PCNames DEF RecvScan, TypeOK, RecvSteps
  <1>2. cur' \in [Proc -> 1 .. InboxSize]
    <2>1. \A i \in Filled(p) : i \in 1 .. InboxSize
      <3>1. inboxWrite[p] \in 1 .. InboxSize + 1
        BY DEF TypeOK
      <3> QED BY <3>1, SizeAssumption DEF Filled
    <2> QED BY <2>1 DEF RecvScan, TypeOK, MatchesIn
  <1>3. inboxBlock' \in [Proc -> Proc \cup {NoProc}]
    BY DEF RecvScan, TypeOK
  <1> QED
    BY <1>1, <1>2, <1>3 DEF RecvScan, TypeOK, vmVars, boxVars, history

LEMMA LockStepType ==
  ASSUME TypeOK, NEW p \in Proc,
         \/ RecvLock(p) \/ Sleep(p) \/ TimeOut(p) \/ Wake(p) \/ RecvSlideLock(p)
         \/ TimedLock(p) \/ TimedUnlock(p)
  PROVE  TypeOK'
  <1>1. pc' \in [Proc -> PC]
    BY PCNames DEF RecvLock, Sleep, TimeOut, Wake, RecvSlideLock, TimedLock, TimedUnlock,
       TypeOK, RecvSteps, CheckSteps
  <1>2. /\ inboxLock' \in [Proc -> Proc \cup {NoProc}]
        /\ inboxBlock' \in [Proc -> Proc \cup {NoProc}]
        /\ sleeping' \in SUBSET Proc
    <2>1. inboxLock' = inboxLock \/ inboxLock' = [inboxLock EXCEPT ![p] = p]
      BY DEF RecvLock, Sleep, TimeOut, Wake, RecvSlideLock, TimedLock, TimedUnlock
    <2>2. \/ inboxBlock' = inboxBlock
          \/ inboxBlock' = [inboxBlock EXCEPT ![p] = p]
          \/ inboxBlock' = [inboxBlock EXCEPT ![p] = NoProc]
      BY DEF RecvLock, Sleep, TimeOut, Wake, RecvSlideLock, TimedLock, TimedUnlock
    <2>3. sleeping' \in {sleeping, sleeping \cup {p}, sleeping \ {p}}
      BY DEF RecvLock, Sleep, TimeOut, Wake, RecvSlideLock, TimedLock, TimedUnlock
    <2>4. inboxLock' \in [Proc -> Proc \cup {NoProc}]
      BY <2>1 DEF TypeOK
    <2>5. inboxBlock' \in [Proc -> Proc \cup {NoProc}]
      BY <2>2 DEF TypeOK
    <2>6. sleeping' \in SUBSET Proc
      BY <2>3 DEF TypeOK
    <2> QED BY <2>4, <2>5, <2>6
  <1>3. UNCHANGED <<callVars, vmVars, boxVars, fate, history>>
    BY DEF RecvLock, Sleep, TimeOut, Wake, RecvSlideLock, TimedLock, TimedUnlock
  <1> QED
    BY <1>1, <1>2, <1>3 DEF TypeOK, callVars, vmVars, boxVars, history

LEMMA RecvTakeType ==
  ASSUME TypeOK, NEW p \in Proc, RecvTake(p)
  PROVE  TypeOK'
  <1>1. pc' \in [Proc -> PC]
    BY PCNames DEF RecvTake, TypeOK, RecvSteps
  <1>2. ret' \in [Proc -> Msg]
    <2>1. inbox[p][cur[p]] \in Msg
      <3>1. inbox[p] \in [1 .. InboxSize -> Msg] /\ cur[p] \in 1 .. InboxSize
        BY DEF TypeOK
      <3> QED BY <3>1
    <2>2. PICK junk \in Junk :
            ret' = [ret EXCEPT ![p] = [inbox[p][cur[p]] EXCEPT !.channel = junk]]
      BY DEF RecvTake
    <2>3. [inbox[p][cur[p]] EXCEPT !.channel = junk] \in Msg
      BY <2>1, FieldTypes, JunkAssumption
    <2> QED BY <2>2, <2>3 DEF TypeOK
  <1> QED
    BY <1>1, <1>2 DEF RecvTake, TypeOK, vmVars, boxVars, lockVars, history

LEMMA RecvSlideType ==
  ASSUME TypeOK, PointersInRange, NEW p \in Proc, RecvSlide(p)
  PROVE  TypeOK'
  <1>1. pc' \in [Proc -> PC]
    BY PCNames DEF RecvSlide, TypeOK, RecvSteps
  <1>2. inboxWrite' \in [Proc -> 1 .. InboxSize + 1]
    <2>1. inboxWrite[p] \in 1 .. InboxSize + 1 /\ cur[p] \in 1 .. InboxSize
      BY DEF TypeOK
    <2>2. cur[p] < inboxWrite[p]
      BY DEF RecvSlide, PointersInRange, Found
    <2>3. inboxWrite[p] - 1 \in 1 .. InboxSize + 1
      BY <2>1, <2>2, SizeAssumption
    <2> QED BY <2>3 DEF RecvSlide, TypeOK
  <1>3. inbox' \in [Proc -> [1 .. InboxSize -> Msg]]
    <2>1. \A i \in 1 .. InboxSize : inbox[p][i] \in Msg
      BY DEF TypeOK
    <2>2. ASSUME NEW i \in 1 .. InboxSize
          PROVE  /\ Cleared(inbox[p][i]) \in Msg
                 /\ Slides(p, i) => Moved(inbox[p][i], inbox[p][i + 1]) \in Msg
      <3>1. Slides(p, i) => i + 1 \in 1 .. InboxSize
        BY SizeAssumption DEF Slides
      <3> QED BY <2>1, <3>1, FieldTypes
    <2>3. \A i \in 1 .. InboxSize :
            (CASE i = inboxWrite[p] -> Cleared(inbox[p][i])
               [] Slides(p, i)      -> Moved(inbox[p][i], inbox[p][i + 1])
               [] OTHER             -> inbox[p][i]) \in Msg
      BY <2>1, <2>2
    <2> QED BY <2>3 DEF RecvSlide, TypeOK
  <1>4. got' \in [Proc -> Seq(Msg)]
    BY DEF RecvSlide, TypeOK
  <1> QED
    BY <1>1, <1>2, <1>3, <1>4 DEF RecvSlide, TypeOK, callVars, vmVars, lockVars

LEMMA ReturnType ==
  ASSUME TypeOK, NEW p \in Proc, RecvUnlock(p) \/ CallReturn(p)
  PROVE  TypeOK'
  <1>1. pc' \in [Proc -> PC]
    <2>1. pc \in [Proc -> PC] /\ "idle" \in PC
      BY PCNames DEF TypeOK
    <2>2. pc' = [pc EXCEPT ![p] = "idle"]
      BY DEF RecvUnlock, CallReturn, Return
    <2> QED BY <2>1, <2>2, PCStep
  <1>2. inboxLock' \in [Proc -> Proc \cup {NoProc}]
    BY DEF RecvUnlock, CallReturn, TypeOK, lockVars
  <1>3. 1 \in 1 .. InboxSize
    BY SizeAssumption
  <1>4. /\ peer' \in [Proc -> Proc \cup {NoProc}]
        /\ chan' \in [Proc -> Nat]
        /\ cur' \in [Proc -> 1 .. InboxSize]
        /\ ret' \in [Proc -> Msg]
        /\ seq' = seq
    <2>1. Return(p, "recvUnlock") \/ Return(p, "return")
      BY DEF RecvUnlock, CallReturn
    <2>2. /\ peer' = [peer EXCEPT ![p] = NoProc]
          /\ chan' = [chan EXCEPT ![p] = 0]
          /\ cur' = [cur EXCEPT ![p] = 1]
          /\ ret' = [ret EXCEPT ![p] = EmptySlot]
          /\ seq' = seq
      BY <2>1 DEF Return
    <2> QED BY <1>3, <2>2, EmptySlotType DEF TypeOK
  <1>5. UNCHANGED <<vmVars, boxVars, inboxBlock, sleeping, fate, history>>
    BY DEF RecvUnlock, CallReturn, lockVars
  <1> QED
    BY <1>1, <1>2, <1>4, <1>5 DEF TypeOK, vmVars, boxVars, history

LEMMA CheckedType ==
  ASSUME TypeOK, NEW p \in Proc, NEW slots \in SUBSET (1 .. InboxSize), Checked(p, slots)
  PROVE  ret' \in [Proc -> Msg]
  <1>1. \A i \in slots : inbox[p][i] \in Msg
    BY DEF TypeOK
  <1> QED BY <1>1, EmptySlotType DEF Checked, TypeOK

LEMMA CheckType ==
  ASSUME TypeOK, NEW p \in Proc,
         \/ \E s \in Proc \cup {NoProc}, c \in Nat : CheckMessages(p, s, c)
         \/ CheckInitMessages(p) \/ TimedStart(p) \/ TimedScan(p)
  PROVE  TypeOK'
  <1>1. pc' \in [Proc -> PC]
    BY PCNames DEF CheckMessages, CheckInitMessages, TimedStart, TimedScan, TypeOK, CheckSteps
  <1>2. PICK slots \in SUBSET (1 .. InboxSize) : Checked(p, slots)
    BY DEF CheckMessages, CheckInitMessages, TimedStart, TimedScan, MatchesIn, OpeningIn, Seen
  <1>3. ret' \in [Proc -> Msg]
    BY <1>2, CheckedType
  <1>4. UNCHANGED <<peer, chan, cur, seq, vmVars, boxVars, lockVars, fate, history>>
    BY DEF CheckMessages, CheckInitMessages, TimedStart, TimedScan
  <1> QED
    BY <1>1, <1>3, <1>4 DEF TypeOK, vmVars, boxVars, lockVars, history

LEMMA StopType ==
  ASSUME TypeOK, NEW p \in Proc, StopFree(p) \/ StopInactive(p)
  PROVE  TypeOK'
  <1>1. pc' \in [Proc -> PC]
    BY PCNames DEF StopFree, StopInactive, TypeOK
  <1> QED
    BY <1>1 DEF StopFree, StopInactive, TypeOK, callVars, boxVars, lockVars, history

-----------------------------------------------------------------------------
(* Locks and pointers.  They rest on the shape of a few variables only; the  *)
(* leaves below cite that shape and not the whole of TypeOK.                 *)

Shape ==
  /\ pc \in [Proc -> PC] /\ peer \in [Proc -> Proc \cup {NoProc}]
  /\ cur \in [Proc -> 1 .. InboxSize] /\ inboxWrite \in [Proc -> 1 .. InboxSize + 1]
  /\ inboxLock \in [Proc -> Proc \cup {NoProc}]
  /\ inboxBlock \in [Proc -> Proc \cup {NoProc}]
  /\ sleeping \subseteq Proc /\ InboxSize \in Nat /\ NoProc \notin Proc

Control == NobodySendsToItself /\ LocksHeld /\ SleepersWait /\ PointersInRange

\* The steps at which a thread holds a lock or a pointer into an inbox.
Holding == SendSteps \cup Removing \cup Searching \cup Found

LEMMA TypeOKShape == TypeOK => Shape
  BY ProcAssumption, SizeAssumption DEF TypeOK, Shape

\* A step between two calls, or the first or the last one of a call, that
\* takes no lock.
LEMMA QuietControl ==
  ASSUME Shape, Control, NEW p \in Proc, NEW to \in PC \ Holding,
         pc[p] \notin Holding \cup {"recvAsleep", "timedAsleep"},
         pc' = [pc EXCEPT ![p] = to], fate = "run",
         \A r \in Proc \ {p} : peer'[r] = peer[r] /\ cur'[r] = cur[r],
         UNCHANGED <<inboxWrite, lockVars>>
  PROVE  Control'
  <1>1. \A r \in Proc \ {p} : pc'[r] = pc[r]
    BY DEF Shape
  <1>2. pc'[p] = to
    BY DEF Shape
  <1>3. NobodySendsToItself'
    BY <1>1, <1>2 DEF Control, NobodySendsToItself, Holding
  <1>4. LocksHeld'
    BY <1>1, <1>2, PCNames DEF Control, LocksHeld, Holding, lockVars, Appending
  <1>5. SleepersWait'
    BY <1>1 DEF Control, SleepersWait, lockVars, Shape
  <1>6. PointersInRange'
    BY <1>1, <1>2, PCNames DEF Control, PointersInRange, Holding, Filled
  <1> QED BY <1>3, <1>4, <1>5, <1>6 DEF Control

LEMMA QuietActions ==
  ASSUME Shape, Control, NEW p \in Proc, NEW q \in Proc, NEW s \in Proc \cup {NoProc}, NEW c \in Nat,
         \/ RecvStart(p, s, c) \/ CheckMessages(p, s, c) \/ CheckInitMessages(p)
         \/ TimedStart(p) \/ TimedScan(p) \/ CallReturn(p) \/ StopFree(p) \/ StopInactive(p)
  PROVE  Control'
  <1> DEFINE Ends == {"idle", "return", "recvLock", "timedLock", "timedScan", "stopping", "stopped"}
  <1>1. PICK to \in Ends : pc' = [pc EXCEPT ![p] = to]
    BY DEF RecvStart, CheckMessages, CheckInitMessages, TimedStart, TimedScan, CallReturn,
       StopFree, StopInactive, Return
  <1>2. pc[p] \in Ends /\ fate = "run"
    BY DEF RecvStart, CheckMessages, CheckInitMessages, TimedStart, TimedScan, CallReturn,
       StopFree, StopInactive, Return
  <1>3. \A r \in Proc \ {p} : peer'[r] = peer[r] /\ cur'[r] = cur[r]
    BY DEF RecvStart, CheckMessages, CheckInitMessages, TimedStart, TimedScan, CallReturn,
       StopFree, StopInactive, Return, callVars, Shape
  <1>4. UNCHANGED <<inboxWrite, lockVars>>
    BY DEF RecvStart, CheckMessages, CheckInitMessages, TimedStart, TimedScan, CallReturn,
       StopFree, StopInactive, boxVars, lockVars
  <1>5. Ends \subseteq PC \ Holding /\ {"recvAsleep", "timedAsleep"} \cap Ends = {}
    BY DEF PC, Holding, SendSteps, Removing, Searching, Found, RecvSteps, CheckSteps
  <1> QED
    BY <1>1, <1>2, <1>3, <1>4, <1>5, QuietControl

\* Sends.
LEMMA SendStartControl ==
  ASSUME Shape, Control, NEW p \in Proc, NEW q \in Proc, NEW c \in Nat, SendStart(p, q, c)
  PROVE  Control'
  <1>1. /\ pc[p] = "idle" /\ q # p
        /\ \/ pc' = [pc EXCEPT ![p] = "sendLock"] /\ peer' = [peer EXCEPT ![p] = q]
           \/ pc' = pc /\ peer' = peer
        /\ cur' = cur /\ inboxWrite' = inboxWrite /\ inboxLock' = inboxLock
        /\ inboxBlock' = inboxBlock /\ sleeping' = sleeping /\ fate' = fate
    BY SendCallsAssumption DEF SendStart, boxVars, lockVars
  <1>2. NobodySendsToItself'
    BY <1>1 DEF Control, NobodySendsToItself, SendSteps, Shape
  <1>3. LocksHeld'
    BY <1>1 DEF Control, LocksHeld, Appending, Removing, Searching, Writing, Shape
  <1>4. SleepersWait'
    BY <1>1 DEF Control, SleepersWait, Shape
  <1>5. PointersInRange'
    BY <1>1 DEF Control, PointersInRange, Writing, Found, Shape
  <1> QED BY <1>2, <1>3, <1>4, <1>5 DEF Control

LEMMA SendLockControl ==
  ASSUME Shape, Control, NEW p \in Proc, SendLock(p)
  PROVE  Control'
  <1>1. /\ pc[p] = "sendLock" /\ pc' = [pc EXCEPT ![p] = "sendMsg"]
        /\ inboxLock[peer[p]] = NoProc /\ inboxLock' = [inboxLock EXCEPT ![peer[p]] = p]
        /\ peer' = peer /\ cur' = cur /\ inboxWrite' = inboxWrite
        /\ inboxBlock' = inboxBlock /\ sleeping' = sleeping
    BY DEF SendLock, callVars, boxVars
  <1>2. fate = "run" /\ (fate' = "run" => inboxWrite[peer[p]] <= InboxSize)
    <2>1. peer[p] \in Proc
      BY <1>1 DEF Control, NobodySendsToItself, SendSteps
    <2> QED BY <2>1 DEF SendLock, InboxFull, Shape
  <1>3. NobodySendsToItself'
    BY <1>1 DEF Control, NobodySendsToItself, SendSteps, Shape
  <1>4. LocksHeld'
    BY <1>1 DEF Control, LocksHeld, NobodySendsToItself, Appending, Removing, Searching,
       Writing, SendSteps, Shape
  <1>5. SleepersWait'
    BY <1>1 DEF Control, SleepersWait, Shape
  <1>6. PointersInRange'
    BY <1>1, <1>2 DEF Control, PointersInRange, Writing, Found, Shape
  <1> QED BY <1>3, <1>4, <1>5, <1>6 DEF Control

LEMMA SendStoreControl ==
  ASSUME Shape, Control, NEW p \in Proc, SendMsg(p) \/ SendChannel(p) \/ SendSender(p)
  PROVE  Control'
  <1>1. /\ pc[p] \in Writing /\ (\E to \in Writing : pc' = [pc EXCEPT ![p] = to])
        /\ peer' = peer /\ cur' = cur /\ inboxWrite' = inboxWrite /\ inboxLock' = inboxLock
        /\ inboxBlock' = inboxBlock /\ sleeping' = sleeping /\ fate' = fate
    BY DEF SendMsg, SendChannel, SendSender, callVars, lockVars, Writing
  <1>2. NobodySendsToItself'
    BY <1>1, PCNames DEF Control, NobodySendsToItself, Shape
  <1>3. LocksHeld'
    BY <1>1 DEF Control, LocksHeld, Appending, Removing, Searching, Writing, Shape
  <1>4. SleepersWait'
    BY <1>1 DEF Control, SleepersWait, Writing, Shape
  <1>5. PointersInRange'
    BY <1>1 DEF Control, PointersInRange, Writing, Found, Shape
  <1> QED BY <1>2, <1>3, <1>4, <1>5 DEF Control

LEMMA SendPublishControl ==
  ASSUME Shape, Control, NEW p \in Proc, SendPublish(p)
  PROVE  Control'
  <1>1. /\ pc[p] = "sendPublish" /\ pc' = [pc EXCEPT ![p] = "sendBlock"]
        /\ inboxWrite' = [inboxWrite EXCEPT ![peer[p]] = @ + 1]
        /\ peer' = peer /\ cur' = cur /\ inboxLock' = inboxLock
        /\ inboxBlock' = inboxBlock /\ sleeping' = sleeping /\ fate = "run"
    BY DEF SendPublish, callVars, lockVars
  <1>2. NobodySendsToItself'
    BY <1>1 DEF Control, NobodySendsToItself, SendSteps, Shape
  <1>3. LocksHeld'
    BY <1>1 DEF Control, LocksHeld, Appending, Removing, Searching, Writing, Shape
  <1>4. SleepersWait'
    BY <1>1 DEF Control, SleepersWait, Shape
  <1>5. PointersInRange'
    <2>1. peer[p] \in Proc /\ inboxLock[peer[p]] = p
      BY <1>1 DEF Control, NobodySendsToItself, SendSteps, LocksHeld, Appending, Writing
    <2>2. ASSUME NEW r \in Proc, pc'[r] \in Writing
          PROVE  inboxWrite'[peer'[r]] <= InboxSize
      <3>1. r # p /\ pc[r] = pc'[r]
        BY <2>2, <1>1 DEF Writing, Shape
      <3>2. inboxLock[peer[r]] = r /\ peer[r] \in Proc
        BY <3>1, <2>2, PCNames DEF Control, LocksHeld, Appending, NobodySendsToItself
      <3>3. peer[r] # peer[p]
        BY <3>1, <3>2, <2>1
      <3> QED BY <1>1, <3>1, <3>2, <3>3, <2>2 DEF Control, PointersInRange, Shape
    <2>3. ASSUME NEW r \in Proc, pc'[r] \in Found
          PROVE  cur'[r] < inboxWrite'[r]
      <3>1. r # p /\ pc[r] = pc'[r]
        BY <2>3, <1>1 DEF Found, Shape
      <3>2. cur[r] < inboxWrite[r]
        BY <1>1, <3>1, <2>3 DEF Control, PointersInRange
      <3> QED BY <1>1, <3>2 DEF Shape
    <2> QED BY <2>2, <2>3 DEF PointersInRange
  <1> QED BY <1>2, <1>3, <1>4, <1>5 DEF Control

LEMMA SendEndControl ==
  ASSUME Shape, Control, NEW p \in Proc, SendBlock(p) \/ SendSignal(p)
  PROVE  Control'
  <1>1. /\ \/ /\ pc[p] = "sendBlock" /\ pc' = [pc EXCEPT ![p] = "sendSignal"]
              /\ inboxBlock[peer[p]] = NoProc /\ inboxBlock' = [inboxBlock EXCEPT ![peer[p]] = p]
           \/ /\ pc[p] = "sendSignal" /\ pc' = [pc EXCEPT ![p] = "sendUnlock"]
              /\ inboxBlock' = [inboxBlock EXCEPT ![peer[p]] = NoProc]
        /\ peer' = peer /\ cur' = cur /\ inboxWrite' = inboxWrite /\ inboxLock' = inboxLock
        /\ sleeping' \subseteq sleeping /\ fate' = fate
    BY DEF SendBlock, SendSignal, Signal, callVars, boxVars
  <1>2. NobodySendsToItself'
    BY <1>1 DEF Control, NobodySendsToItself, SendSteps, Shape
  <1>3. LocksHeld'
    BY <1>1 DEF Control, LocksHeld, NobodySendsToItself, Appending, Removing, Searching,
       Writing, SendSteps, Shape
  <1>4. SleepersWait'
    BY <1>1 DEF Control, SleepersWait, Shape
  <1>5. PointersInRange'
    BY <1>1 DEF Control, PointersInRange, Writing, Found, Shape
  <1> QED BY <1>2, <1>3, <1>4, <1>5 DEF Control

\* The two calls that give inbox_lock back.
LEMMA UnlockControl ==
  ASSUME Shape, Control, NEW p \in Proc, SendUnlock(p) \/ RecvUnlock(p)
  PROVE  Control'
  <1>1. PICK q \in Proc :
          /\ pc' = [pc EXCEPT ![p] = "idle"] /\ inboxLock[q] = p
          /\ inboxLock' = [inboxLock EXCEPT ![q] = NoProc]
    BY DEF SendUnlock, RecvUnlock, Return, Control, LocksHeld, NobodySendsToItself,
       Appending, Removing, SendSteps
  <1>2. /\ pc[p] \in {"sendUnlock", "recvUnlock"}
        /\ (\A r \in Proc \ {p} : peer'[r] = peer[r] /\ cur'[r] = cur[r])
        /\ inboxWrite' = inboxWrite /\ inboxBlock' = inboxBlock
        /\ sleeping' = sleeping /\ fate' = fate
    BY DEF SendUnlock, RecvUnlock, Return, boxVars, Shape
  <1>3. NobodySendsToItself'
    BY <1>1, <1>2 DEF Control, NobodySendsToItself, SendSteps, Shape
  <1>4. LocksHeld'
    BY <1>1, <1>2 DEF Control, LocksHeld, NobodySendsToItself, Appending, Removing, Searching,
       Writing, SendSteps, Shape
  <1>5. SleepersWait'
    BY <1>1, <1>2 DEF Control, SleepersWait, Shape
  <1>6. PointersInRange'
    BY <1>1, <1>2 DEF Control, PointersInRange, Writing, Found, Shape
  <1> QED BY <1>3, <1>4, <1>5, <1>6 DEF Control

\* Receives and waits: the owner takes and gives back inbox_block and inbox_lock.
LEMMA OwnerLockControl ==
  ASSUME Shape, Control, NEW p \in Proc,
         \/ RecvLock(p) \/ Sleep(p) \/ Wake(p) \/ RecvSlideLock(p) \/ TimedLock(p) \/ TimedUnlock(p)
  PROVE  Control'
  <1>1. /\ \/ /\ pc[p] \in {"recvLock", "recvAsleep", "timedLock", "timedAsleep"}
              /\ (\E to \in Searching : pc' = [pc EXCEPT ![p] = to])
              /\ inboxBlock[p] = NoProc /\ inboxBlock' = [inboxBlock EXCEPT ![p] = p]
              /\ inboxLock' = inboxLock /\ sleeping' = sleeping
              /\ pc[p] \in {"recvAsleep", "timedAsleep"} => p \notin sleeping
           \/ /\ pc[p] \in Searching
              /\ \/ pc' = [pc EXCEPT ![p] = "timedScan"] /\ sleeping' = sleeping
                 \/ /\ (\E to \in {"recvAsleep", "timedAsleep"} : pc' = [pc EXCEPT ![p] = to])
                    /\ sleeping' = sleeping \cup {p}
              /\ inboxBlock' = [inboxBlock EXCEPT ![p] = NoProc]
              /\ inboxLock' = inboxLock
           \/ /\ pc[p] = "recvSlideLock" /\ pc' = [pc EXCEPT ![p] = "recvSlide"]
              /\ inboxLock[p] = NoProc /\ inboxLock' = [inboxLock EXCEPT ![p] = p]
              /\ inboxBlock' = inboxBlock /\ sleeping' = sleeping
        /\ peer' = peer /\ cur' = cur /\ inboxWrite' = inboxWrite /\ fate' = fate
    BY DEF RecvLock, Sleep, Wake, RecvSlideLock, TimedLock, TimedUnlock, callVars, boxVars,
       Searching
  <1>2. NobodySendsToItself'
    BY <1>1 DEF Control, NobodySendsToItself, SendSteps, Searching, Shape
  <1>3. LocksHeld'
    BY <1>1 DEF Control, LocksHeld, NobodySendsToItself, Appending, Removing, Searching,
       Writing, SendSteps, Shape
  <1>4. SleepersWait'
    BY <1>1 DEF Control, SleepersWait, Searching, Shape
  <1>5. PointersInRange'
    BY <1>1 DEF Control, PointersInRange, Searching, Writing, Found, Shape
  <1> QED BY <1>2, <1>3, <1>4, <1>5 DEF Control

LEMMA RecvScanControl ==
  ASSUME Shape, Control, NEW p \in Proc, RecvScan(p)
  PROVE  Control'
  <1>1. /\ pc[p] = "recvScan"
        /\ \/ /\ pc' = [pc EXCEPT ![p] = "recvSleep"]
              /\ cur' = cur /\ inboxBlock' = inboxBlock
           \/ /\ pc' = [pc EXCEPT ![p] = "recvTake"]
              /\ (\E i \in Filled(p) : cur' = [cur EXCEPT ![p] = i])
              /\ inboxBlock' = [inboxBlock EXCEPT ![p] = NoProc]
        /\ peer' = peer /\ inboxWrite' = inboxWrite /\ inboxLock' = inboxLock
        /\ sleeping' = sleeping /\ fate' = fate
    BY DEF RecvScan, MatchesIn, boxVars
  <1>2. NobodySendsToItself'
    BY <1>1 DEF Control, NobodySendsToItself, SendSteps, Shape
  <1>3. LocksHeld'
    BY <1>1 DEF Control, LocksHeld, NobodySendsToItself, Appending, Removing, Searching,
       Writing, SendSteps, Shape
  <1>4. SleepersWait'
    BY <1>1 DEF Control, SleepersWait, Shape
  <1>5. PointersInRange'
    BY <1>1 DEF Control, PointersInRange, Writing, Found, Filled, Shape
  <1> QED BY <1>2, <1>3, <1>4, <1>5 DEF Control

LEMMA RecvTakeControl ==
  ASSUME Shape, Control, NEW p \in Proc, RecvTake(p)
  PROVE  Control'
  <1>1. /\ pc[p] = "recvTake" /\ pc' = [pc EXCEPT ![p] = "recvSlideLock"]
        /\ peer' = peer /\ cur' = cur /\ inboxWrite' = inboxWrite /\ inboxLock' = inboxLock
        /\ inboxBlock' = inboxBlock /\ sleeping' = sleeping /\ fate' = fate
    BY DEF RecvTake, boxVars, lockVars
  <1>2. NobodySendsToItself'
    BY <1>1 DEF Control, NobodySendsToItself, SendSteps, Shape
  <1>3. LocksHeld'
    BY <1>1 DEF Control, LocksHeld, Appending, Removing, Searching, Writing, Shape
  <1>4. SleepersWait'
    BY <1>1 DEF Control, SleepersWait, Shape
  <1>5. PointersInRange'
    BY <1>1 DEF Control, PointersInRange, Writing, Found, Shape
  <1> QED BY <1>2, <1>3, <1>4, <1>5 DEF Control

\* The slide moves inbox_write down: nobody fills a slot there meanwhile, because
\* the owner holds inbox_lock.
LEMMA RecvSlideControl ==
  ASSUME Shape, Control, NEW p \in Proc, RecvSlide(p)
  PROVE  Control'
  <1>1. /\ pc[p] = "recvSlide" /\ pc' = [pc EXCEPT ![p] = "recvUnlock"]
        /\ inboxWrite' = [inboxWrite EXCEPT ![p] = @ - 1]
        /\ peer' = peer /\ cur' = cur /\ inboxLock' = inboxLock
        /\ inboxBlock' = inboxBlock /\ sleeping' = sleeping /\ fate' = fate
    BY DEF RecvSlide, callVars, lockVars
  <1>2. NobodySendsToItself'
    BY <1>1 DEF Control, NobodySendsToItself, SendSteps, Shape
  <1>3. LocksHeld'
    BY <1>1 DEF Control, LocksHeld, Appending, Removing, Searching, Writing, Shape
  <1>4. SleepersWait'
    BY <1>1 DEF Control, SleepersWait, Shape
  <1>5. PointersInRange'
    BY <1>1 DEF Control, PointersInRange, NobodySendsToItself, SendSteps, Writing, Found, Shape
  <1> QED BY <1>2, <1>3, <1>4, <1>5 DEF Control

LEMMA TimeOutControl ==
  ASSUME Shape, Control, NEW p \in Proc, TimeOut(p)
  PROVE  Control'
  BY DEF TimeOut, Control, NobodySendsToItself, LocksHeld, SleepersWait, PointersInRange,
     callVars, boxVars, Shape

LEMMA DanglingControl ==
  ASSUME Shape, Control, NEW p \in Proc, SendDangling(p)
  PROVE  Control'
  BY DEF SendDangling, Control, NobodySendsToItself, LocksHeld, SleepersWait, PointersInRange,
     callVars, boxVars, lockVars, Shape

-----------------------------------------------------------------------------
(* The theorem on types *)

TypeInv == TypeOK /\ Control

LEMMA InitTypeInv == Init => TypeInv
  BY InitType, ProcAssumption DEF Init, TypeInv, Control, NobodySendsToItself, LocksHeld, SleepersWait,
     PointersInRange, SendSteps, Appending, Removing, Searching, Writing, Found

LEMMA NextTypeInv ==
  ASSUME TypeInv, Next
  PROVE  TypeInv'
  <1> USE TypeOKShape DEF TypeInv
  <1>0. NobodySendsToItself /\ PointersInRange /\ Shape
    BY DEF Control
  <1>1. PICK p \in Proc : Start(p) \/ Step(p) \/ TimeOut(p)
    BY DEF Next
  <1>2. CASE Start(p)
    <2>1. ASSUME NEW q \in Proc, NEW c \in Nat, SendStart(p, q, c) PROVE TypeInv'
      BY <2>1, SendStartType, SendStartControl
    <2>2. ASSUME NEW s \in Proc \cup {NoProc}, NEW c \in Nat,
                 RecvStart(p, s, c) \/ CheckMessages(p, s, c)
          PROVE  TypeInv'
      BY <2>2, RecvStartType, CheckType, QuietActions
    <2>3. CASE CheckInitMessages(p) \/ TimedStart(p) \/ StopFree(p)
      BY <2>3, CheckType, StopType, QuietActions
    <2>4. \A call \in SendCalls \cup RecvCalls : call[3] \in Nat
      BY SendCallsAssumption, RecvCallsAssumption
    <2> QED
      BY <1>2, <2>1, <2>2, <2>3, <2>4 DEF Start
  <1>3. CASE SendStep(p)
    <2>1. CASE SendLock(p)
      BY <1>0, <2>1, SendLockType, SendLockControl
    <2>2. CASE SendMsg(p) \/ SendChannel(p) \/ SendSender(p)
      BY <1>0, <2>2, SendStoreType, SendStoreControl
    <2>3. CASE SendPublish(p)
      BY <1>0, <2>3, SendPublishType, SendPublishControl
    <2>4. CASE SendBlock(p) \/ SendSignal(p)
      BY <1>0, <2>4, SendEndType, SendEndControl
    <2>5. CASE SendUnlock(p)
      BY <1>0, <2>5, SendEndType, UnlockControl
    <2>6. CASE SendDangling(p)
      BY <1>0, <2>6, SendEndType, DanglingControl
    <2> QED
      BY <1>3, <2>1, <2>2, <2>3, <2>4, <2>5, <2>6 DEF SendStep
  <1>4. CASE RecvStep(p)
    <2>1. CASE RecvLock(p) \/ Sleep(p) \/ Wake(p) \/ RecvSlideLock(p)
      BY <1>0, <2>1, LockStepType, OwnerLockControl
    <2>2. CASE RecvScan(p)
      BY <1>0, <2>2, RecvScanType, RecvScanControl
    <2>3. CASE RecvTake(p)
      BY <1>0, <2>3, RecvTakeType, RecvTakeControl
    <2>4. CASE RecvSlide(p)
      BY <1>0, <2>4, RecvSlideType, RecvSlideControl
    <2>5. CASE RecvUnlock(p)
      BY <1>0, <2>5, ReturnType, UnlockControl
    <2> QED
      BY <1>4, <2>1, <2>2, <2>3, <2>4, <2>5 DEF RecvStep
  <1>5. CASE CheckStep(p) \/ StopInactive(p)
    <2>1. CASE TimedLock(p) \/ TimedUnlock(p)
      BY <1>0, <2>1, LockStepType, OwnerLockControl
    <2>2. CASE TimedScan(p)
      BY <1>0, <2>2, CheckType, QuietActions
    <2>3. CASE CallReturn(p)
      BY <1>0, <2>3, ReturnType, QuietActions
    <2>4. CASE StopInactive(p)
      BY <1>0, <2>4, StopType, QuietActions
    <2> QED
      BY <1>5, <2>1, <2>2, <2>3, <2>4 DEF CheckStep
  <1>6. CASE TimeOut(p)
    BY <1>0, <1>6, LockStepType, TimeOutControl
  <1> QED
    BY <1>1, <1>2, <1>3, <1>4, <1>5, <1>6 DEF Step

LEMMA StutterTypeInv ==
  ASSUME TypeInv, UNCHANGED vars
  PROVE  TypeInv'
  BY DEF TypeInv, TypeOK, Control, NobodySendsToItself, LocksHeld, SleepersWait, PointersInRange,
     Filled, vars, callVars, vmVars, boxVars, lockVars, history

\* Every variable keeps its type, in particular inbox_write never leaves the
\* inbox by more than one slot, whatever the calls and the interleaving; every
\* thread that is in a critical section holds its lock.
THEOREM TypeCorrect == Spec => []TypeInv
  <1>1. TypeInv /\ [Next \/ Finished]_vars => TypeInv'
    BY NextTypeInv, StutterTypeInv DEF Finished
  <1> QED
    BY InitTypeInv, <1>1, PTL DEF Spec

\* TypeOK alone, as the runs check it: a VM never writes outside its inbox.
THEOREM TypeSafety == Spec => []TypeOK
  BY TypeCorrect, PTL DEF TypeInv

-----------------------------------------------------------------------------
(* No lost wakeup.  The invariant is inductive relative to TypeInv: the signal *)
(* is sent under inbox_block, which a receiver holds from the search that     *)
(* found nothing until it sleeps.                                             *)

\* What a step of p leaves of the others: where they are, what they wait for,
\* and the messages in their inboxes.
OthersKept(p) == \A q \in Proc \ {p} :
  /\ pc'[q] = pc[q] /\ peer'[q] = peer[q] /\ chan'[q] = chan[q]
  /\ q \in sleeping' => q \in sleeping

InboxKept(q) ==
  /\ inboxWrite'[q] = inboxWrite[q]
  /\ \A i \in Filled(q) : inbox'[q][i] = inbox[q][i]

LEMMA WantedKept ==
  ASSUME NEW q \in Proc, InboxKept(q), peer'[q] = peer[q], chan'[q] = chan[q]
  PROVE  Wanted(q)' => Wanted(q)
  <1>1. Filled(q)' = Filled(q)
    BY DEF InboxKept, Filled
  <1>2. \A i \in Filled(q) : Matches(inbox'[q][i], peer'[q], chan'[q]) <=> Matches(inbox[q][i], peer[q], chan[q])
    BY DEF InboxKept
  <1> QED
    BY <1>1, <1>2 DEF Wanted, MatchesIn, Matches

LEMMA WakeupKept ==
  ASSUME NoLostWakeup, NEW p \in Proc, OthersKept(p),
         \A q \in Proc \ {p} : InboxKept(q),
         Waits(p)' /\ Wanted(p)' => Waits(p) /\ Wanted(p),
         \A q \in Proc : Wakes(p, q) => Wakes(p, q)' \/ ~Waits(q)'
  PROVE  NoLostWakeup'
  <1> SUFFICES ASSUME NEW q \in Proc, Waits(q)', Wanted(q)'
               PROVE  \E r \in Proc : Wakes(r, q)'
    BY DEF NoLostWakeup
  <1>1. Waits(q) /\ Wanted(q)
    <2>1. CASE q = p
      BY <2>1
    <2>2. CASE q # p
      BY <2>2, WantedKept DEF OthersKept, Waits
    <2> QED BY <2>1, <2>2
  <1>2. PICK r \in Proc : Wakes(r, q)
    BY <1>1 DEF NoLostWakeup
  <1>3. Wakes(r, q)'
    BY <1>2 DEF OthersKept, Wakes
  <1> QED BY <1>3

\* A step that touches no inbox, and after which p does not wait.
LEMMA QuietWakeup ==
  ASSUME NoLostWakeup, NEW p \in Proc, OthersKept(p), inbox' = inbox, inboxWrite' = inboxWrite,
         ~Waits(p)', pc[p] \notin {"sendBlock", "sendSignal"}
  PROVE  NoLostWakeup'
  BY WakeupKept DEF InboxKept, Wakes

LEMMA StartWakeup ==
  ASSUME Shape, SleepersWait, NoLostWakeup, chan \in [Proc -> Nat], NEW p \in Proc,
         \/ \E q \in Proc, c \in Nat : SendStart(p, q, c)
         \/ \E s \in Proc \cup {NoProc}, c \in Nat : RecvStart(p, s, c) \/ CheckMessages(p, s, c)
         \/ CheckInitMessages(p) \/ TimedStart(p) \/ StopFree(p)
  PROVE  NoLostWakeup'
  <1>1. /\ pc[p] = "idle" /\ inbox' = inbox /\ inboxWrite' = inboxWrite /\ sleeping' = sleeping
        /\ \E to \in {"idle", "sendLock", "recvLock", "return", "timedLock", "stopping"} :
             pc' = [pc EXCEPT ![p] = to]
        /\ \A q \in Proc \ {p} : peer'[q] = peer[q] /\ chan'[q] = chan[q]
    <2>1. CASE \E q \in Proc, c \in Nat : SendStart(p, q, c)
      BY <2>1 DEF SendStart, boxVars, lockVars, Shape
    <2>2. CASE \E s \in Proc \cup {NoProc}, c \in Nat : RecvStart(p, s, c) \/ CheckMessages(p, s, c)
      BY <2>2 DEF RecvStart, CheckMessages, boxVars, lockVars, Shape
    <2>3. CASE CheckInitMessages(p) \/ TimedStart(p) \/ StopFree(p)
      BY <2>3 DEF CheckInitMessages, TimedStart, StopFree, callVars, boxVars, lockVars, Shape
    <2> QED BY <2>1, <2>2, <2>3
  <1>2. OthersKept(p)
    BY <1>1 DEF OthersKept, Shape
  <1>3. ~Waits(p)'
    BY <1>1 DEF Waits, Shape
  <1> QED BY <1>1, <1>2, <1>3, QuietWakeup

\* The steps of a thread inside a call that only move it on, take or give back locks.
LEMMA MoveWakeup ==
  ASSUME Shape, SleepersWait, NoLostWakeup, chan \in [Proc -> Nat], NEW p \in Proc,
         \/ SendLock(p) \/ SendUnlock(p) \/ RecvLock(p) \/ Wake(p) \/ RecvTake(p)
         \/ RecvSlideLock(p) \/ RecvUnlock(p) \/ TimedLock(p) \/ TimedUnlock(p) \/ TimedScan(p)
         \/ CallReturn(p) \/ StopInactive(p)
  PROVE  NoLostWakeup'
  <1>1. /\ pc[p] \notin {"sendBlock", "sendSignal"}
        /\ inbox' = inbox /\ inboxWrite' = inboxWrite /\ sleeping' = sleeping
        /\ \E to \in PC \ {"recvSleep", "recvAsleep"} : pc' = [pc EXCEPT ![p] = to]
        /\ \A q \in Proc \ {p} : peer'[q] = peer[q] /\ chan'[q] = chan[q]
    <2>1. PC \ {"recvSleep", "recvAsleep"} =
            {"idle", "return", "stopping", "stopped"} \cup SendSteps \cup CheckSteps
              \cup {"recvLock", "recvScan", "recvTake", "recvSlideLock", "recvSlide", "recvUnlock"}
      BY DEF PC, SendSteps, RecvSteps, CheckSteps
    <2>2. /\ pc[p] \notin {"sendBlock", "sendSignal"}
          /\ inbox' = inbox /\ inboxWrite' = inboxWrite /\ sleeping' = sleeping
          /\ \E to \in {"sendMsg", "idle", "recvScan", "timedUnlock", "recvSlideLock", "recvSlide",
                        "timedSleep", "timedScan", "return", "stopped"} : pc' = [pc EXCEPT ![p] = to]
          /\ \A q \in Proc \ {p} : peer'[q] = peer[q] /\ chan'[q] = chan[q]
      BY DEF SendLock, SendUnlock, RecvLock, Wake, RecvTake, RecvSlideLock, RecvUnlock, TimedLock,
         TimedUnlock, TimedScan, CallReturn, StopInactive, Return, callVars, boxVars, lockVars, Shape
    <2> QED BY <2>1, <2>2 DEF SendSteps, CheckSteps
  <1>2. OthersKept(p)
    BY <1>1 DEF OthersKept, Shape
  <1>3. ~Waits(p)'
    BY <1>1 DEF Waits, Shape
  <1> QED BY <1>1, <1>2, <1>3, QuietWakeup

\* The slot a send fills is behind the messages a receiver searches.
LEMMA StoreWakeup ==
  ASSUME TypeOK, Shape, Control, NoLostWakeup, NEW p \in Proc,
         SendMsg(p) \/ SendChannel(p) \/ SendSender(p)
  PROVE  NoLostWakeup'
  <1>1. /\ pc[p] \in {"sendMsg", "sendChannel", "sendSender"}
        /\ \E to \in {"sendChannel", "sendSender", "sendPublish"} : pc' = [pc EXCEPT ![p] = to]
        /\ \E slot : inbox' = [inbox EXCEPT ![peer[p]][inboxWrite[peer[p]]] = slot]
        /\ peer' = peer /\ inboxWrite' = inboxWrite /\ sleeping' = sleeping
        /\ \A q \in Proc \ {p} : chan'[q] = chan[q]
    <2>1. chan \in [Proc -> Nat]
      BY DEF TypeOK
    <2> QED
      BY <2>1 DEF SendMsg, SendChannel, SendSender, callVars, lockVars
  <1>2. OthersKept(p)
    BY <1>1 DEF OthersKept, Shape
  <1>3. ~Waits(p)'
    BY <1>1 DEF Waits, Shape
  <1>4. ASSUME NEW q \in Proc PROVE InboxKept(q)
    <2>1. \A i \in Filled(q) : i # inboxWrite[q]
      BY DEF Filled, Shape
    <2>2. inbox \in [Proc -> [1 .. InboxSize -> Msg]]
      BY DEF TypeOK
    <2> QED BY <1>1, <2>1, <2>2 DEF InboxKept
  <1> QED BY <1>1, <1>2, <1>3, <1>4, WakeupKept DEF Wakes

\* The message becomes visible in the step after which the send still has to
\* take inbox_block and to signal.
LEMMA PublishWakeup ==
  ASSUME Shape, Control, NoLostWakeup, NEW p \in Proc, SendPublish(p)
  PROVE  NoLostWakeup'
  <1>1. /\ pc[p] = "sendPublish" /\ pc' = [pc EXCEPT ![p] = "sendBlock"]
        /\ inboxWrite' = [inboxWrite EXCEPT ![peer[p]] = @ + 1]
        /\ peer' = peer /\ chan' = chan /\ inbox' = inbox /\ sleeping' = sleeping
    BY DEF SendPublish, callVars, lockVars
  <1> SUFFICES ASSUME NEW q \in Proc, Waits(q)', Wanted(q)'
               PROVE  \E r \in Proc : Wakes(r, q)'
    BY DEF NoLostWakeup
  <1>2. CASE q = peer[p]
    BY <1>1, <1>2 DEF Wakes, Shape
  <1>3. CASE q # peer[p]
    <2>1. q # p /\ Waits(q)
      BY <1>1 DEF Waits, Shape
    <2>2. Wanted(q)
      BY <1>1, <1>3, WantedKept DEF InboxKept, Shape
    <2>3. PICK r \in Proc : Wakes(r, q)
      BY <2>1, <2>2 DEF NoLostWakeup
    <2> QED BY <1>1, <2>3 DEF Wakes, Shape
  <1> QED BY <1>2, <1>3

\* The signal finds the receiver asleep or not waiting at all: it cannot be
\* about to sleep, for it would hold inbox_block.
LEMMA SignalWakeup ==
  ASSUME Shape, Control, NoLostWakeup, NEW p \in Proc,
         SendBlock(p) \/ SendSignal(p) \/ SendDangling(p) \/ TimeOut(p)
  PROVE  NoLostWakeup'
  <1>1. /\ inbox' = inbox /\ inboxWrite' = inboxWrite /\ peer' = peer /\ chan' = chan
        /\ sleeping' \subseteq sleeping
        /\ \/ pc[p] = "sendBlock" /\ pc' = [pc EXCEPT ![p] = "sendSignal"]
           \/ /\ pc[p] = "sendSignal" /\ pc' = [pc EXCEPT ![p] = "sendUnlock"]
              /\ sleeping' = sleeping \ {peer[p]}
           \/ pc' = pc
    BY DEF SendBlock, SendSignal, SendDangling, TimeOut, Signal, callVars, boxVars, lockVars
  <1>2. OthersKept(p)
    BY <1>1 DEF OthersKept, Shape
  <1>3. Waits(p)' => Waits(p)
    BY <1>1 DEF Waits, Shape
  <1>4. \A q \in Proc : InboxKept(q)
    BY <1>1 DEF InboxKept
  <1>5. Wanted(p)' => Wanted(p)
    BY <1>1, <1>4, WantedKept
  <1>6. \A q \in Proc : Wakes(p, q) => Wakes(p, q)' \/ ~Waits(q)'
    <2>1. CASE pc[p] = "sendSignal" /\ sleeping' = sleeping \ {peer[p]}
               /\ pc' = [pc EXCEPT ![p] = "sendUnlock"]
      <3>1. peer[p] \in Proc \ {p} /\ inboxBlock[peer[p]] = p
        BY <2>1 DEF Control, NobodySendsToItself, LocksHeld, SendSteps
      <3>2. pc[peer[p]] # "recvSleep"
        BY <3>1 DEF Control, LocksHeld, Searching
      <3> QED BY <2>1, <3>1, <3>2 DEF Waits, Wakes, Shape
    <2> QED BY <1>1, <2>1 DEF Wakes, Shape
  <1> QED BY <1>2, <1>3, <1>4, <1>5, <1>6, WakeupKept

\* A receiver goes to sleep only with inbox_block in its hands since the search.
LEMMA WaitWakeup ==
  ASSUME Shape, Control, NoLostWakeup, chan \in [Proc -> Nat], NEW p \in Proc,
         RecvScan(p) \/ Sleep(p)
  PROVE  NoLostWakeup'
  <1>1. /\ inbox' = inbox /\ inboxWrite' = inboxWrite /\ peer' = peer /\ chan' = chan
        /\ \/ pc[p] = "recvScan" /\ pc' = [pc EXCEPT ![p] = "recvSleep"] /\ ~Wanted(p)
           \/ pc' = [pc EXCEPT ![p] = "recvTake"] /\ pc[p] = "recvScan"
           \/ pc[p] = "recvSleep" /\ pc' = [pc EXCEPT ![p] = "recvAsleep"]
           \/ pc[p] = "timedSleep" /\ pc' = [pc EXCEPT ![p] = "timedAsleep"]
        /\ \A q \in Proc \ {p} : q \in sleeping' => q \in sleeping
    BY DEF RecvScan, Sleep, callVars, boxVars, Wanted
  <1>2. OthersKept(p)
    BY <1>1 DEF OthersKept, Shape
  <1>3. \A q \in Proc : InboxKept(q)
    BY <1>1 DEF InboxKept
  <1>4. Wanted(p)' => Wanted(p)
    BY <1>1, <1>3, WantedKept
  <1>5. Waits(p)' => Waits(p) \/ ~Wanted(p)
    BY <1>1 DEF Waits, Shape
  <1>6. pc[p] \notin {"sendBlock", "sendSignal"}
    BY <1>1
  <1> QED BY <1>2, <1>3, <1>4, <1>5, <1>6, WakeupKept DEF Wakes

LEMMA SlideWakeup ==
  ASSUME Shape, Control, NoLostWakeup, inbox \in [Proc -> [1 .. InboxSize -> Msg]],
         NEW p \in Proc, RecvSlide(p)
  PROVE  NoLostWakeup'
  <1>1. /\ pc[p] = "recvSlide" /\ pc' = [pc EXCEPT ![p] = "recvUnlock"]
        /\ \E slots : inbox' = [inbox EXCEPT ![p] = slots]
        /\ inboxWrite' = [inboxWrite EXCEPT ![p] = @ - 1]
        /\ peer' = peer /\ chan' = chan /\ sleeping' = sleeping
    BY DEF RecvSlide, callVars, lockVars
  <1>2. OthersKept(p)
    BY <1>1 DEF OthersKept, Shape
  <1>3. \A q \in Proc \ {p} : InboxKept(q)
    BY <1>1 DEF InboxKept, Shape
  <1>4. ~Waits(p)'
    BY <1>1 DEF Waits, Shape
  <1> QED BY <1>1, <1>2, <1>3, <1>4, WakeupKept DEF Wakes

LEMMA NextWakeup ==
  ASSUME TypeInv, NoLostWakeup, Next
  PROVE  NoLostWakeup'
  <1>0. TypeOK /\ Shape /\ Control /\ SleepersWait
        /\ chan \in [Proc -> Nat] /\ inbox \in [Proc -> [1 .. InboxSize -> Msg]]
    BY TypeOKShape DEF TypeInv, TypeOK, Control
  <1>1. PICK p \in Proc : Start(p) \/ Step(p) \/ TimeOut(p)
    BY DEF Next
  <1>2. CASE Start(p)
    <2>1. \A call \in SendCalls \cup RecvCalls : call[3] \in Nat
      BY SendCallsAssumption, RecvCallsAssumption
    <2> QED BY <1>0, <1>2, <2>1, StartWakeup DEF Start
  <1>3. CASE SendStep(p)
    BY <1>0, <1>3, MoveWakeup, StoreWakeup, PublishWakeup, SignalWakeup DEF SendStep
  <1>4. CASE RecvStep(p)
    BY <1>0, <1>4, MoveWakeup, WaitWakeup, SlideWakeup DEF RecvStep
  <1>5. CASE CheckStep(p) \/ StopInactive(p)
    BY <1>0, <1>5, MoveWakeup DEF CheckStep
  <1>6. CASE TimeOut(p)
    BY <1>0, <1>6, SignalWakeup
  <1> QED BY <1>1, <1>2, <1>3, <1>4, <1>5, <1>6 DEF Step

LEMMA StutterWakeup ==
  ASSUME NoLostWakeup, UNCHANGED vars
  PROVE  NoLostWakeup'
  BY DEF NoLostWakeup, Waits, Wanted, Wakes, MatchesIn, Matches, Filled,
     vars, callVars, boxVars, lockVars

\* idris_sendMessage and idris_recvMessageFrom never lose a wakeup, however many
\* senders race: no receiver sleeps on a message it asked for unless the
\* send that put it there is about to signal.
THEOREM WakeupSafety == Spec => []NoLostWakeup
  <1>1. Init => NoLostWakeup
    BY DEF Init, NoLostWakeup, Waits
  <1>2. TypeInv /\ NoLostWakeup /\ [Next \/ Finished]_vars => NoLostWakeup'
    BY NextWakeup, StutterWakeup DEF Finished
  <1> QED
    BY <1>1, <1>2, TypeCorrect, PTL DEF Spec

-----------------------------------------------------------------------------
(* Nothing is lost or doubled, and senders are kept.  Data is inductive       *)
(* relative to TypeInv: it adds what the slot of a send and the Msg of a      *)
(* receive hold halfway, and that payloads are new.                           *)

Data == SlotsInUse /\ PayloadsFresh /\ NothingLostOrDoubled /\ SenderKept

Contents ==
  /\ inbox \in [Proc -> [1 .. InboxSize -> Msg]] /\ ret \in [Proc -> Msg]
  /\ seq \in [Proc -> Nat] /\ sent \in [Proc -> Seq(Msg)] /\ got \in [Proc -> Seq(Msg)]

LEMMA TypeOKContents == TypeOK => Contents
  BY DEF TypeOK, Contents

\* What a store does to the other fields of a slot, and what the slide keeps.
LEMMA Fields ==
  ASSUME NEW slot \in Msg, NEW next \in Msg, NEW m, NEW n, NEW p
  PROVE  /\ [slot EXCEPT !.msg = m].msg = m /\ [slot EXCEPT !.msg = m].sender = slot.sender
         /\ [slot EXCEPT !.channel = n].msg = slot.msg
         /\ [slot EXCEPT !.channel = n].sender = slot.sender
         /\ [slot EXCEPT !.sender = p].sender = p /\ [slot EXCEPT !.sender = p].msg = slot.msg
         /\ Moved(slot, next).msg = next.msg /\ Moved(slot, next).sender = next.sender
  BY DEF Msg, Moved

LEMMA Appended ==
  ASSUME NEW log \in Seq(Msg), NEW x \in Msg
  PROVE  /\ Msgs(Append(log, x)) = Msgs(log) \cup {x.msg}
         /\ DOMAIN Append(log, x) = DOMAIN log \cup {Len(log) + 1}
         /\ Len(log) + 1 \notin DOMAIN log
         /\ Append(log, x)[Len(log) + 1] = x
         /\ \A k \in DOMAIN log : Append(log, x)[k] = log[k]
  <1>1. /\ DOMAIN Append(log, x) = DOMAIN log \cup {Len(log) + 1}
        /\ Len(log) + 1 \notin DOMAIN log
        /\ Append(log, x)[Len(log) + 1] = x
        /\ \A k \in DOMAIN log : Append(log, x)[k] = log[k]
    OBVIOUS
  <1>2. Msgs(Append(log, x)) = Msgs(log) \cup {x.msg}
    BY <1>1 DEF Msgs
  <1> QED BY <1>1, <1>2

\* A step that publishes and receives nothing and touches no filled slot.
LEMMA LogsKept ==
  ASSUME NothingLostOrDoubled, SenderKept, \A q \in Proc : InboxKept(q), sent' = sent, got' = got
  PROVE  NothingLostOrDoubled' /\ SenderKept'
  <1>1. ASSUME NEW q \in Proc PROVE Filled(q)' = Filled(q) /\ Queued(q)' = Queued(q)
    <2>1. Filled(q)' = Filled(q)
      BY DEF InboxKept, Filled
    <2> QED BY <2>1 DEF Queued, InboxKept
  <1>2. NothingLostOrDoubled'
    BY <1>1 DEF NothingLostOrDoubled, InboxKept, Msgs
  <1>3. SenderKept'
    BY <1>1 DEF SenderKept, InboxKept
  <1> QED BY <1>2, <1>3

\* A payload stays new while its sender neither starts nor publishes anything;
\* a new send has a payload of its own.
LEMMA FreshKept ==
  ASSUME PayloadsFresh, Contents, NEW p \in Proc, sent' = sent,
         \A r \in Proc \ {p} : seq'[r] = seq[r] /\ pc'[r] = pc[r],
         \/ seq'[p] = seq[p] + 1
         \/ /\ seq'[p] = seq[p]
            /\ pc'[p] \in Writing \cup {"sendLock"} => pc[p] \in Writing \cup {"sendLock"}
  PROVE  PayloadsFresh'
  <1> SUFFICES ASSUME NEW q \in Proc, NEW m \in Msgs(sent[q])
               PROVE  /\ m \in Payload /\ m[2] <= seq'[m[1]]
                      /\ pc'[m[1]] \in Writing \cup {"sendLock"} => m[2] < seq'[m[1]]
    BY DEF PayloadsFresh, Msgs
  <1>1. /\ m \in Payload /\ m[2] <= seq[m[1]]
        /\ pc[m[1]] \in Writing \cup {"sendLock"} => m[2] < seq[m[1]]
    BY DEF PayloadsFresh
  <1>2. m[1] \in Proc /\ m[2] \in Nat /\ seq[m[1]] \in Nat
    BY <1>1 DEF Payload, Contents
  <1>3. CASE m[1] = p
    BY <1>1, <1>2, <1>3
  <1>4. CASE m[1] # p
    BY <1>1, <1>2, <1>4
  <1> QED BY <1>3, <1>4

ThreadsKept(p) == \A r \in Proc \ {p} :
  pc'[r] = pc[r] /\ peer'[r] = peer[r] /\ cur'[r] = cur[r] /\ ret'[r] = ret[r] /\ seq'[r] = seq[r]

\* A step that writes no inbox and after which p is not in the middle of
\* filling a slot.
LEMMA QuietData ==
  ASSUME Data, Contents, NEW p \in Proc, ThreadsKept(p),
         inbox' = inbox, inboxWrite' = inboxWrite, sent' = sent, got' = got,
         fate = "run",
         pc'[p] \notin Writing \ {"sendMsg"},
         pc'[p] \in {"recvSlideLock", "recvSlide"} =>
           /\ ret'[p].msg = inbox[p][cur'[p]].msg
           /\ ret'[p].sender = inbox[p][cur'[p]].sender,
         \/ seq'[p] = seq[p] + 1
         \/ /\ seq'[p] = seq[p]
            /\ pc'[p] \in Writing \cup {"sendLock"} => pc[p] \in Writing \cup {"sendLock"}
  PROVE  Data'
  <1>1. NothingLostOrDoubled' /\ SenderKept'
    BY LogsKept DEF Data, InboxKept
  <1>2. PayloadsFresh'
    BY FreshKept DEF Data, ThreadsKept
  <1>3. SlotsInUse'
    <2> SUFFICES ASSUME NEW r \in Proc
                 PROVE  /\ pc'[r] \in Writing \ {"sendMsg"} =>
                             inbox'[peer'[r]][inboxWrite'[peer'[r]]].msg = <<r, seq'[r]>>
                        /\ pc'[r] = "sendPublish" =>
                             inbox'[peer'[r]][inboxWrite'[peer'[r]]].sender = r
                        /\ pc'[r] \in {"recvSlideLock", "recvSlide"} =>
                             /\ ret'[r].msg = inbox'[r][cur'[r]].msg
                             /\ ret'[r].sender = inbox'[r][cur'[r]].sender
      BY DEF SlotsInUse
    <2>1. CASE r = p
      BY <2>1 DEF Writing
    <2>2. CASE r # p
      <3>1. pc'[r] = pc[r] /\ peer'[r] = peer[r] /\ cur'[r] = cur[r] /\ ret'[r] = ret[r] /\ seq'[r] = seq[r]
        BY <2>2 DEF ThreadsKept
      <3>2. /\ pc[r] \in Writing \ {"sendMsg"} =>
                 inbox[peer[r]][inboxWrite[peer[r]]].msg = <<r, seq[r]>>
            /\ pc[r] = "sendPublish" => inbox[peer[r]][inboxWrite[peer[r]]].sender = r
            /\ pc[r] \in {"recvSlideLock", "recvSlide"} =>
                 /\ ret[r].msg = inbox[r][cur[r]].msg
                 /\ ret[r].sender = inbox[r][cur[r]].sender
        BY DEF Data, SlotsInUse
      <3> QED BY <3>1, <3>2
    <2> QED BY <2>1, <2>2
  <1> QED BY <1>1, <1>2, <1>3 DEF Data

LEMMA StartData ==
  ASSUME Shape, Data, Contents, NEW p \in Proc,
         \/ \E q \in Proc, c \in Nat : SendStart(p, q, c)
         \/ \E s \in Proc \cup {NoProc}, c \in Nat : RecvStart(p, s, c) \/ CheckMessages(p, s, c)
         \/ CheckInitMessages(p) \/ TimedStart(p) \/ StopFree(p)
  PROVE  Data'
  <1>1. CASE \E q \in Proc, c \in Nat : SendStart(p, q, c)
    <2>1. /\ inbox' = inbox /\ inboxWrite' = inboxWrite /\ sent' = sent /\ got' = got
          /\ fate = "run" /\ pc[p] = "idle" /\ seq' = [seq EXCEPT ![p] = @ + 1]
          /\ pc' \in {pc, [pc EXCEPT ![p] = "sendLock"]}
          /\ cur' = cur /\ ret' = ret /\ \E q \in Proc : peer' \in {peer, [peer EXCEPT ![p] = q]}
      BY <1>1 DEF SendStart, boxVars, history
    <2>2. ThreadsKept(p) /\ pc'[p] \in {"idle", "sendLock"} /\ seq'[p] = seq[p] + 1
      BY <2>1 DEF ThreadsKept, Shape, Contents
    <2> QED BY <2>1, <2>2, QuietData DEF Writing
  <1>2. CASE \/ \E s \in Proc \cup {NoProc}, c \in Nat : RecvStart(p, s, c) \/ CheckMessages(p, s, c)
             \/ CheckInitMessages(p) \/ TimedStart(p) \/ StopFree(p)
    <2>1. /\ inbox' = inbox /\ inboxWrite' = inboxWrite /\ sent' = sent /\ got' = got
          /\ fate = "run" /\ seq' = seq /\ cur' = cur
      BY <1>2 DEF RecvStart, CheckMessages, CheckInitMessages, TimedStart, StopFree, boxVars,
         callVars, history
    <2>2. \E to \in {"recvLock", "return", "timedLock", "stopping"} : pc' = [pc EXCEPT ![p] = to]
      BY <1>2 DEF RecvStart, CheckMessages, CheckInitMessages, TimedStart, StopFree
    <2>3. \A r \in Proc \ {p} : peer'[r] = peer[r] /\ ret'[r] = ret[r]
      <3>1. CASE (\E s \in Proc \cup {NoProc}, c \in Nat : RecvStart(p, s, c)) \/ StopFree(p)
        BY <3>1 DEF RecvStart, StopFree, callVars, Shape
      <3>2. CASE \E s \in Proc \cup {NoProc}, c \in Nat : CheckMessages(p, s, c)
        BY <3>2 DEF CheckMessages, Checked, Contents
      <3>3. CASE CheckInitMessages(p) \/ TimedStart(p)
        BY <3>3 DEF CheckInitMessages, TimedStart, Checked, Contents
      <3> QED BY <1>2, <3>1, <3>2, <3>3
    <2>4. ThreadsKept(p) /\ pc'[p] \in {"recvLock", "return", "timedLock", "stopping"}
      BY <2>1, <2>2, <2>3 DEF ThreadsKept, Shape
    <2> QED BY <2>1, <2>4, QuietData DEF Writing
  <1> QED BY <1>1, <1>2

\* Inside a call, without touching an inbox: RecvTake fills the Msg it returns.
LEMMA MoveData ==
  ASSUME Shape, Data, Contents, NEW p \in Proc,
         \/ SendLock(p) \/ SendBlock(p) \/ SendSignal(p) \/ SendUnlock(p)
         \/ RecvLock(p) \/ RecvScan(p) \/ Sleep(p) \/ Wake(p) \/ RecvTake(p) \/ RecvSlideLock(p)
         \/ RecvUnlock(p) \/ TimedLock(p) \/ TimedUnlock(p) \/ TimedScan(p)
         \/ CallReturn(p) \/ StopInactive(p)
  PROVE  Data'
  <1>1. /\ inbox' = inbox /\ inboxWrite' = inboxWrite /\ sent' = sent /\ got' = got
        /\ fate = "run" /\ seq' = seq
    BY DEF SendLock, SendBlock, SendSignal, SendUnlock, RecvLock, RecvScan, Sleep, Wake, RecvTake,
       RecvSlideLock, RecvUnlock, TimedLock, TimedUnlock, TimedScan, CallReturn, StopInactive,
       Return, boxVars, callVars, history
  <1>2. CASE SendLock(p)
    <2>1. /\ pc[p] = "sendLock" /\ pc' = [pc EXCEPT ![p] = "sendMsg"]
          /\ peer' = peer /\ cur' = cur /\ ret' = ret
      BY <1>2 DEF SendLock, callVars
    <2>2. ThreadsKept(p) /\ pc'[p] = "sendMsg"
      BY <1>1, <2>1 DEF ThreadsKept, Shape
    <2> QED BY <1>1, <2>1, <2>2, QuietData DEF Writing
  <1>3. CASE RecvTake(p) \/ RecvSlideLock(p)
    <2>1. /\ \/ pc[p] = "recvTake" /\ pc' = [pc EXCEPT ![p] = "recvSlideLock"]
             \/ pc[p] = "recvSlideLock" /\ pc' = [pc EXCEPT ![p] = "recvSlide"]
          /\ peer' = peer /\ cur' = cur /\ \A r \in Proc \ {p} : ret'[r] = ret[r]
      BY <1>3 DEF RecvTake, RecvSlideLock, callVars, Contents
    <2>2. /\ ret'[p].msg = inbox[p][cur'[p]].msg
          /\ ret'[p].sender = inbox[p][cur'[p]].sender
      <3>1. CASE RecvTake(p)
        <4>1. PICK junk : ret' = [ret EXCEPT ![p] = [inbox[p][cur[p]] EXCEPT !.channel = junk]]
          BY <3>1 DEF RecvTake
        <4>2. inbox[p][cur[p]] \in Msg
          BY DEF Contents, Shape
        <4>3. ret'[p] = [inbox[p][cur[p]] EXCEPT !.channel = junk]
          BY <4>1 DEF Contents
        <4> QED BY <2>1, <4>2, <4>3, Fields
      <3>2. CASE RecvSlideLock(p)
        BY <3>2 DEF RecvSlideLock, callVars, Data, SlotsInUse
      <3> QED BY <1>3, <3>1, <3>2
    <2>3. ThreadsKept(p) /\ pc'[p] \in {"recvSlideLock", "recvSlide"}
      BY <1>1, <2>1 DEF ThreadsKept, Shape
    <2> QED BY <1>1, <2>2, <2>3, QuietData DEF Writing
  <1>4. CASE \/ SendBlock(p) \/ SendSignal(p) \/ SendUnlock(p)
             \/ RecvLock(p) \/ RecvScan(p) \/ Sleep(p) \/ Wake(p)
             \/ RecvUnlock(p) \/ TimedLock(p) \/ TimedUnlock(p) \/ TimedScan(p)
             \/ CallReturn(p) \/ StopInactive(p)
    <2>1. \E to \in {"sendSignal", "sendUnlock", "idle", "recvScan", "recvSleep", "recvTake",
                     "recvAsleep", "timedAsleep", "timedUnlock", "timedSleep", "timedScan",
                     "return", "stopped"} : pc' = [pc EXCEPT ![p] = to]
      BY <1>4 DEF SendBlock, SendSignal, SendUnlock, RecvLock, RecvScan, Sleep, Wake, RecvUnlock,
         TimedLock, TimedUnlock, TimedScan, CallReturn, StopInactive, Return
    <2>2. \A r \in Proc \ {p} : peer'[r] = peer[r] /\ cur'[r] = cur[r] /\ ret'[r] = ret[r]
      <3>1. CASE SendUnlock(p) \/ RecvUnlock(p) \/ CallReturn(p)
        BY <3>1 DEF SendUnlock, RecvUnlock, CallReturn, Return, Shape, Contents
      <3>2. CASE RecvScan(p) \/ TimedScan(p)
        BY <3>2 DEF RecvScan, TimedScan, Checked, Shape, Contents
      <3>3. CASE \/ SendBlock(p) \/ SendSignal(p) \/ RecvLock(p) \/ Sleep(p) \/ Wake(p)
                 \/ TimedLock(p) \/ TimedUnlock(p) \/ StopInactive(p)
        BY <3>3 DEF SendBlock, SendSignal, RecvLock, Sleep, Wake, TimedLock, TimedUnlock,
           StopInactive, callVars
      <3> QED BY <1>4, <3>1, <3>2, <3>3
    <2>3. ThreadsKept(p)
      BY <1>1, <2>1, <2>2 DEF ThreadsKept, Shape
    <2>4. pc'[p] \notin Writing \cup {"sendLock", "recvSlideLock", "recvSlide"}
      BY <2>1 DEF Writing, Shape
    <2> QED BY <1>1, <2>3, <2>4, QuietData
  <1> QED BY <1>2, <1>3, <1>4

\* A thread that fills a slot or slides its inbox is alone: no other thread is
\* writing to the same inbox.
LEMMA WritersApart ==
  ASSUME Control, NEW p \in Proc, NEW r \in Proc, p # r
  PROVE  /\ pc[p] \in Writing /\ pc[r] \in Writing => peer[p] # peer[r]
         /\ pc[p] \in Writing /\ pc[r] = "recvSlide" => peer[p] # r
  BY DEF Control, LocksHeld, Writing, Appending, Removing

LEMMA StoreData ==
  ASSUME Shape, Control, Data, Contents, NEW p \in Proc,
         SendMsg(p) \/ SendChannel(p) \/ SendSender(p)
  PROVE  Data'
  <1> DEFINE q == peer[p]
             n == inboxWrite[q]
             slot == inbox[q][n]
  <1>1. /\ pc[p] \in {"sendMsg", "sendChannel", "sendSender"}
        /\ inboxWrite' = inboxWrite /\ sent' = sent /\ got' = got /\ fate = "run" /\ fate' = fate
        /\ peer' = peer /\ cur' = cur /\ ret' = ret /\ seq' = seq
        /\ \E to \in {"sendChannel", "sendSender", "sendPublish"} : pc' = [pc EXCEPT ![p] = to]
    BY DEF SendMsg, SendChannel, SendSender, callVars, history
  <1>2. q \in Proc /\ n \in 1 .. InboxSize /\ slot \in Msg
    BY <1>1 DEF Control, NobodySendsToItself, PointersInRange, SendSteps, Writing, Shape, Contents
  <1>3. /\ \A r \in Proc, i \in 1 .. InboxSize : r # q \/ i # n => inbox'[r][i] = inbox[r][i]
        /\ pc[p] = "sendMsg" => inbox'[q][n].msg = <<p, seq[p]>>
        /\ pc[p] # "sendMsg" => inbox'[q][n].msg = slot.msg
        /\ pc[p] = "sendSender" => inbox'[q][n].sender = p
    <2>1. CASE SendMsg(p)
      <3>1. inbox' = [inbox EXCEPT ![q][n] = [slot EXCEPT !.msg = <<p, seq[p]>>]] /\ pc[p] = "sendMsg"
        BY <2>1 DEF SendMsg
      <3>2. /\ inbox'[q][n] = [slot EXCEPT !.msg = <<p, seq[p]>>]
            /\ \A r \in Proc, i \in 1 .. InboxSize : r # q \/ i # n => inbox'[r][i] = inbox[r][i]
        BY <1>2, <3>1 DEF Contents
      <3>3. inbox'[q][n].msg = <<p, seq[p]>>
        BY <1>2, <3>2, Fields
      <3> QED BY <3>1, <3>2, <3>3
    <2>2. CASE SendChannel(p)
      <3>1. inbox' = [inbox EXCEPT ![q][n] = [slot EXCEPT !.channel = chan'[p]]] /\ pc[p] = "sendChannel"
        BY <2>2 DEF SendChannel
      <3>2. /\ inbox'[q][n] = [slot EXCEPT !.channel = chan'[p]]
            /\ \A r \in Proc, i \in 1 .. InboxSize : r # q \/ i # n => inbox'[r][i] = inbox[r][i]
        BY <1>2, <3>1 DEF Contents
      <3>3. inbox'[q][n].msg = slot.msg
        BY <1>2, <3>2, Fields
      <3> QED BY <3>1, <3>2, <3>3
    <2>3. CASE SendSender(p)
      <3>1. inbox' = [inbox EXCEPT ![q][n] = [slot EXCEPT !.sender = p]] /\ pc[p] = "sendSender"
        BY <2>3 DEF SendSender
      <3>2. /\ inbox'[q][n] = [slot EXCEPT !.sender = p]
            /\ \A r \in Proc, i \in 1 .. InboxSize : r # q \/ i # n => inbox'[r][i] = inbox[r][i]
        BY <1>2, <3>1 DEF Contents
      <3>3. inbox'[q][n].msg = slot.msg /\ inbox'[q][n].sender = p
        BY <1>2, <3>2, Fields
      <3> QED BY <3>1, <3>2, <3>3
    <2> QED BY <2>1, <2>2, <2>3
  <1>4. NothingLostOrDoubled' /\ SenderKept'
    <2>1. ASSUME NEW r \in Proc PROVE InboxKept(r)
      <3>1. \A i \in Filled(r) : i \in 1 .. InboxSize /\ (r = q => i # n)
        BY DEF Filled, Shape
      <3> QED BY <1>1, <1>3, <3>1 DEF InboxKept
    <2> QED BY <1>1, <2>1, LogsKept DEF Data
  <1>5. PayloadsFresh'
    BY <1>1, FreshKept DEF Data, Shape, Writing
  <1>6. SlotsInUse'
    <2> SUFFICES ASSUME NEW r \in Proc
                 PROVE  /\ pc'[r] \in Writing \ {"sendMsg"} =>
                             inbox'[peer[r]][inboxWrite[peer[r]]].msg = <<r, seq[r]>>
                        /\ pc'[r] = "sendPublish" =>
                             inbox'[peer[r]][inboxWrite[peer[r]]].sender = r
                        /\ pc'[r] \in {"recvSlideLock", "recvSlide"} =>
                             /\ ret[r].msg = inbox'[r][cur[r]].msg
                             /\ ret[r].sender = inbox'[r][cur[r]].sender
      BY <1>1 DEF SlotsInUse
    <2>1. CASE r = p
      <3>1. pc[p] # "sendMsg" => slot.msg = <<p, seq[p]>>
        BY <1>1 DEF Data, SlotsInUse, Writing
      <3>2. /\ pc'[p] \in {"sendChannel", "sendSender", "sendPublish"}
            /\ pc'[p] = "sendPublish" => pc[p] = "sendSender"
        BY DEF SendMsg, SendChannel, SendSender, Shape
      <3> QED BY <1>2, <1>3, <2>1, <3>1, <3>2
    <2>2. CASE r # p
      <3>1. pc'[r] = pc[r]
        BY <1>1, <2>2 DEF Shape
      <3>2. ASSUME pc[r] \in Writing
            PROVE  inbox'[peer[r]][inboxWrite[peer[r]]] = inbox[peer[r]][inboxWrite[peer[r]]]
        <4>1. peer[r] # q
          BY <1>1, <2>2, <3>2, WritersApart DEF Writing
        <4>2. peer[r] \in Proc /\ inboxWrite[peer[r]] \in 1 .. InboxSize
          BY <1>1, <3>2 DEF Control, NobodySendsToItself, PointersInRange, SendSteps, Writing, Shape
        <4> QED BY <1>3, <4>1, <4>2
      <3>3. ASSUME pc[r] \in {"recvSlideLock", "recvSlide"}
            PROVE  inbox'[r][cur[r]] = inbox[r][cur[r]]
        <4>1. cur[r] < inboxWrite[r] /\ cur[r] \in 1 .. InboxSize /\ inboxWrite[r] \in 1 .. InboxSize + 1
          BY <1>1, <3>3 DEF Control, PointersInRange, Found, Shape
        <4> QED BY <1>2, <1>3, <4>1
      <3> QED BY <1>1, <3>1, <3>2, <3>3 DEF Data, SlotsInUse, Writing
    <2> QED BY <2>1, <2>2
  <1> QED BY <1>4, <1>5, <1>6 DEF Data

LEMMA PublishData ==
  ASSUME Shape, Control, Data, Contents, NEW p \in Proc, SendPublish(p), chan \in [Proc -> Nat]
  PROVE  Data'
  <1>a. PICK q \in Proc, n \in 1 .. InboxSize : q = peer[p] /\ n = inboxWrite[q]
    BY DEF SendPublish, Control, NobodySendsToItself, PointersInRange, SendSteps, Writing, Shape
  <1>b. PICK m : m = <<p, seq[p]>>
    OBVIOUS
  <1> DEFINE x == [sender |-> p, channel |-> chan[p], msg |-> m]
  <1>1. /\ pc[p] = "sendPublish" /\ pc' = [pc EXCEPT ![p] = "sendBlock"]
        /\ inboxWrite' = [inboxWrite EXCEPT ![q] = n + 1]
        /\ sent' = [sent EXCEPT ![q] = Append(sent[q], x)]
        /\ inbox' = inbox /\ got' = got /\ fate = "run" /\ fate' = fate
        /\ peer' = peer /\ cur' = cur /\ ret' = ret /\ seq' = seq
    BY <1>a, <1>b DEF SendPublish, callVars
  <1>3. inbox[q][n].msg = m /\ inbox[q][n].sender = p
    BY <1>1, <1>a, <1>b DEF Data, SlotsInUse, Writing
  <1>4. x \in Msg /\ m \in Payload
    BY <1>b DEF Msg, Payload, Contents
  <1>5. Msgs(sent'[q]) = Msgs(sent[q]) \cup {m} /\ \A r \in Proc \ {q} : sent'[r] = sent[r]
    <2>1. sent[q] \in Seq(Msg) /\ sent'[q] = Append(sent[q], x) /\ x.msg = m
          /\ \A r \in Proc \ {q} : sent'[r] = sent[r]
      BY <1>1 DEF Contents
    <2> HIDE DEF x
    <2> QED BY <1>4, <2>1, Appended
  <1>6. Filled(q)' = Filled(q) \cup {n} /\ n \notin Filled(q)
        /\ \A r \in Proc \ {q} : Filled(r)' = Filled(r)
    BY <1>1, <1>a DEF Filled, Shape
  <1>7. m \notin Msgs(sent[q])
    <2>1. m[1] = p /\ m[2] = seq[p] /\ seq[p] \in Nat
      BY <1>b DEF Contents
    <2>2. m \in Msgs(sent[q]) => m[2] < seq[m[1]]
      BY <1>1, <2>1 DEF Data, PayloadsFresh, Writing
    <2> QED BY <2>1, <2>2
  <1>8. NothingLostOrDoubled'
    <2> SUFFICES ASSUME NEW r \in Proc
                 PROVE  /\ Msgs(sent'[r]) = Msgs(got[r]) \cup Queued(r)'
                        /\ Msgs(got[r]) \cap Queued(r)' = {}
                        /\ \A i, j \in Filled(r)' : inbox[r][i].msg = inbox[r][j].msg => i = j
                        /\ \A k, l \in DOMAIN got[r] : got[r][k].msg = got[r][l].msg => k = l
      BY <1>1 DEF NothingLostOrDoubled
    <2>0. /\ Msgs(sent[r]) = Msgs(got[r]) \cup Queued(r)
          /\ Msgs(got[r]) \cap Queued(r) = {}
          /\ \A i, j \in Filled(r) : inbox[r][i].msg = inbox[r][j].msg => i = j
          /\ \A k, l \in DOMAIN got[r] : got[r][k].msg = got[r][l].msg => k = l
      BY DEF Data, NothingLostOrDoubled
    <2>1. CASE r = q
      <3>1. Queued(q)' = Queued(q) \cup {m}
        BY <1>1, <1>3, <1>6 DEF Queued
      <3>2. \A i \in Filled(q) : inbox[q][i].msg \in Queued(q)
        BY DEF Queued
      <3>3. m \notin Msgs(got[q]) /\ m \notin Queued(q)
        BY <1>7, <2>0, <2>1
      <3>4. \A i, j \in Filled(q)' : inbox[q][i].msg = inbox[q][j].msg => i = j
        BY <1>3, <1>6, <2>0, <2>1, <3>2, <3>3
      <3>5. Msgs(sent'[q]) = Msgs(got[q]) \cup Queued(q)'
        BY <1>5, <2>0, <2>1, <3>1
      <3>6. Msgs(got[q]) \cap Queued(q)' = {}
        BY <2>0, <2>1, <3>1, <3>3
      <3>7. \A k, l \in DOMAIN got[q] : got[q][k].msg = got[q][l].msg => k = l
        BY <2>0, <2>1
      <3> QED BY <2>1, <3>4, <3>5, <3>6, <3>7
    <2>2. CASE r # q
      <3>1. Queued(r)' = Queued(r) /\ Filled(r)' = Filled(r) /\ sent'[r] = sent[r]
        BY <1>1, <1>5, <1>6, <2>2 DEF Queued
      <3> QED BY <2>0, <3>1
    <2> QED BY <2>1, <2>2
  <1>9. SenderKept'
    <2> SUFFICES ASSUME NEW r \in Proc
                 PROVE  /\ \A i \in Filled(r)' : inbox[r][i].sender = inbox[r][i].msg[1]
                        /\ \A k \in DOMAIN got[r] : got[r][k].sender = got[r][k].msg[1]
      BY <1>1 DEF SenderKept
    <2>1. /\ \A i \in Filled(r) : inbox[r][i].sender = inbox[r][i].msg[1]
          /\ \A k \in DOMAIN got[r] : got[r][k].sender = got[r][k].msg[1]
      BY DEF Data, SenderKept
    <2>2. m[1] = p
      BY <1>b
    <2>3. inbox[q][n].sender = inbox[q][n].msg[1]
      BY <1>3, <2>2
    <2>4. CASE r = q
      <3> QED BY <1>6, <2>1, <2>3, <2>4
    <2>5. CASE r # q
      BY <1>6, <2>1, <2>5
    <2> QED BY <2>4, <2>5
  <1>10. PayloadsFresh'
    <2> SUFFICES ASSUME NEW r \in Proc, NEW k \in Msgs(sent'[r])
                 PROVE  /\ k \in Payload /\ k[2] <= seq[k[1]]
                        /\ pc'[k[1]] \in Writing \cup {"sendLock"} => k[2] < seq[k[1]]
      BY <1>1 DEF PayloadsFresh, Msgs
    <2>1. CASE k \in Msgs(sent[r])
      <3>1. k \in Payload /\ k[2] <= seq[k[1]]
            /\ (pc[k[1]] \in Writing \cup {"sendLock"} => k[2] < seq[k[1]])
        BY <2>1 DEF Data, PayloadsFresh
      <3>2. pc'[k[1]] \in Writing \cup {"sendLock"} => pc[k[1]] \in Writing \cup {"sendLock"}
        BY <1>1 DEF Writing, Shape
      <3> QED BY <3>1, <3>2
    <2>2. CASE k = m
      <3>1. k[1] = p /\ k[2] = seq[p] /\ seq[p] \in Nat /\ pc'[p] = "sendBlock"
        BY <1>1, <1>b, <2>2 DEF Contents, Shape
      <3> QED BY <1>4, <2>2, <3>1 DEF Writing
    <2> QED BY <1>5, <2>1, <2>2
  <1>11. SlotsInUse'
    <2> SUFFICES ASSUME NEW r \in Proc
                 PROVE  /\ pc'[r] \in Writing \ {"sendMsg"} =>
                             inbox[peer[r]][inboxWrite'[peer[r]]].msg = <<r, seq[r]>>
                        /\ pc'[r] = "sendPublish" =>
                             inbox[peer[r]][inboxWrite'[peer[r]]].sender = r
                        /\ pc'[r] \in {"recvSlideLock", "recvSlide"} =>
                             /\ ret[r].msg = inbox[r][cur[r]].msg
                             /\ ret[r].sender = inbox[r][cur[r]].sender
      BY <1>1 DEF SlotsInUse
    <2>1. CASE r = p
      BY <1>1, <2>1 DEF Writing, Shape
    <2>2. CASE r # p
      <3>1. pc'[r] = pc[r]
        BY <1>1, <2>2 DEF Shape
      <3>2. pc[r] \in Writing => inboxWrite'[peer[r]] = inboxWrite[peer[r]]
        BY <1>1, <1>a, <2>2, WritersApart DEF Writing, Shape
      <3> QED BY <1>1, <3>1, <3>2 DEF Data, SlotsInUse, Writing
    <2> QED BY <2>1, <2>2
  <1> QED BY <1>8, <1>9, <1>10, <1>11 DEF Data

\* The slide moves every later message one slot down: what is left are the
\* filled slots but the one of the message received, in the same order.
LEMMA SlideData ==
  ASSUME Shape, Control, Data, Contents, NEW p \in Proc, RecvSlide(p)
  PROVE  Data'
  <1>a. PICK n \in 1 .. InboxSize + 1, c \in 1 .. InboxSize :
          n = inboxWrite[p] /\ c = cur[p] /\ c < n
    BY DEF RecvSlide, Control, PointersInRange, Found, Shape
  <1>b. PICK m \in Msg : m = ret[p]
    BY DEF Contents
  <1>1. /\ pc[p] = "recvSlide" /\ pc' = [pc EXCEPT ![p] = "recvUnlock"]
        /\ inboxWrite' = [inboxWrite EXCEPT ![p] = n - 1]
        /\ got' = [got EXCEPT ![p] = Append(got[p], m)]
        /\ sent' = sent /\ fate = "run" /\ fate' = fate
        /\ peer' = peer /\ cur' = cur /\ ret' = ret /\ seq' = seq
    BY <1>a, <1>b DEF RecvSlide, callVars
  <1>2. m.msg = inbox[p][c].msg /\ m.sender = inbox[p][c].sender
    BY <1>1, <1>a, <1>b DEF Data, SlotsInUse
  <1>3. \A r \in Proc \ {p} :
          inbox'[r] = inbox[r] /\ inboxWrite'[r] = inboxWrite[r] /\ got'[r] = got[r]
            /\ Filled(r)' = Filled(r) /\ Queued(r)' = Queued(r)
    <2>1. \A r \in Proc \ {p} :
          inbox'[r] = inbox[r] /\ inboxWrite'[r] = inboxWrite[r] /\ got'[r] = got[r]
      BY <1>1 DEF RecvSlide, Shape, Contents
    <2> QED BY <2>1 DEF Filled, Queued
  <1> DEFINE from(i) == IF i < c THEN i ELSE i + 1
  <1>4. Filled(p) = 1 .. n - 1 /\ Filled(p)' = 1 .. n - 2
    BY <1>1, <1>a DEF Filled, Shape
  <1>5. ASSUME NEW i \in 1 .. n - 2
        PROVE  /\ inbox'[p][i].msg = inbox[p][from(i)].msg
               /\ inbox'[p][i].sender = inbox[p][from(i)].sender
    <2>1. i \in 1 .. InboxSize /\ i + 1 \in 1 .. InboxSize /\ i # n /\ i < n /\ i < InboxSize
      BY <1>a DEF Shape
    <2>2. inbox'[p][i] = IF c <= i THEN Moved(inbox[p][i], inbox[p][i + 1]) ELSE inbox[p][i]
      BY <1>a, <2>1 DEF RecvSlide, Slides, Contents, Shape
    <2>3. inbox[p][i] \in Msg /\ inbox[p][i + 1] \in Msg
      BY <2>1 DEF Contents
    <2> QED BY <1>a, <2>2, <2>3, Fields
  <1>6. /\ \A i \in 1 .. n - 2 : from(i) \in (1 .. n - 1) \ {c}
        /\ \A i, j \in 1 .. n - 2 : from(i) = from(j) => i = j
        /\ \A k \in (1 .. n - 1) \ {c} : \E i \in 1 .. n - 2 : k = from(i)
    <2>1. /\ \A i \in 1 .. n - 2 : from(i) \in (1 .. n - 1) \ {c}
          /\ \A i, j \in 1 .. n - 2 : from(i) = from(j) => i = j
      BY <1>a DEF Shape
    <2>2. ASSUME NEW k \in (1 .. n - 1) \ {c} PROVE \E i \in 1 .. n - 2 : k = from(i)
      <3>1. CASE k < c
        <4>1. k \in 1 .. n - 2 /\ k = from(k)
          BY <1>a, <3>1 DEF Shape
        <4> QED BY <4>1
      <3>2. CASE ~(k < c)
        <4>1. k - 1 \in 1 .. n - 2 /\ k = from(k - 1)
          BY <1>a, <3>2 DEF Shape
        <4> QED BY <4>1
      <3> QED BY <3>1, <3>2
    <2> QED BY <2>1, <2>2
  <1>7. Msgs(got'[p]) = Msgs(got[p]) \cup {m.msg}
    BY <1>1, Appended DEF Contents
  <1>8. NothingLostOrDoubled'
    <2>0. /\ Msgs(sent[p]) = Msgs(got[p]) \cup Queued(p)
          /\ Msgs(got[p]) \cap Queued(p) = {}
          /\ \A i, j \in Filled(p) : inbox[p][i].msg = inbox[p][j].msg => i = j
          /\ \A k, l \in DOMAIN got[p] : got[p][k].msg = got[p][l].msg => k = l
      BY DEF Data, NothingLostOrDoubled
    <2> HIDE DEF from
    <2>1. Queued(p)' = {inbox[p][k].msg : k \in (1 .. n - 1) \ {c}}
      <3>1. Queued(p)' = {inbox'[p][i].msg : i \in 1 .. n - 2}
        BY <1>4 DEF Queued
      <3> QED BY <3>1, <1>5, <1>6
    <2>2. Queued(p) = Queued(p)' \cup {m.msg} /\ m.msg \notin Queued(p)'
      <3>1. Queued(p) = {inbox[p][k].msg : k \in 1 .. n - 1}
        BY <1>4 DEF Queued
      <3>2. c \in 1 .. n - 1
        BY <1>a
      <3>3. \A k \in (1 .. n - 1) \ {c} : inbox[p][k].msg # m.msg
        BY <1>2, <1>4, <2>0, <3>2
      <3> QED BY <1>2, <2>1, <3>1, <3>2, <3>3
    <2>3. \A i, j \in Filled(p)' : inbox'[p][i].msg = inbox'[p][j].msg => i = j
      <3>1. ASSUME NEW i \in 1 .. n - 2, NEW j \in 1 .. n - 2, inbox'[p][i].msg = inbox'[p][j].msg
            PROVE  i = j
        <4>1. inbox[p][from(i)].msg = inbox[p][from(j)].msg
          BY <1>5, <3>1
        <4>2. from(i) \in Filled(p) /\ from(j) \in Filled(p)
          BY <1>4, <1>6
        <4>3. from(i) = from(j)
          BY <2>0, <4>1, <4>2
        <4> QED BY <1>6, <4>3
      <3> QED BY <1>4, <3>1
    <2>4. \A k, l \in DOMAIN got'[p] : got'[p][k].msg = got'[p][l].msg => k = l
      <3>1. got[p] \in Seq(Msg) /\ got'[p] = Append(got[p], m)
        BY <1>1 DEF Contents
      <3>2. \A k \in DOMAIN got[p] : got[p][k].msg # m.msg
        BY <2>0, <2>2 DEF Msgs
      <3> QED BY <2>0, <3>1, <3>2, Appended
    <2>5. Msgs(sent[p]) = Msgs(got'[p]) \cup Queued(p)' /\ Msgs(got'[p]) \cap Queued(p)' = {}
      BY <1>7, <2>0, <2>2
    <2> SUFFICES ASSUME NEW r \in Proc
                 PROVE  /\ Msgs(sent[r]) = Msgs(got'[r]) \cup Queued(r)'
                        /\ Msgs(got'[r]) \cap Queued(r)' = {}
                        /\ \A i, j \in Filled(r)' : inbox'[r][i].msg = inbox'[r][j].msg => i = j
                        /\ \A k, l \in DOMAIN got'[r] : got'[r][k].msg = got'[r][l].msg => k = l
      BY <1>1 DEF NothingLostOrDoubled
    <2>6. CASE r # p
      BY <1>3, <2>6 DEF Data, NothingLostOrDoubled
    <2> QED BY <2>3, <2>4, <2>5, <2>6
  <1>9. SenderKept'
    <2> SUFFICES ASSUME NEW r \in Proc
                 PROVE  /\ \A i \in Filled(r)' : inbox'[r][i].sender = inbox'[r][i].msg[1]
                        /\ \A k \in DOMAIN got'[r] : got'[r][k].sender = got'[r][k].msg[1]
      BY DEF SenderKept
    <2>1. /\ \A i \in Filled(r) : inbox[r][i].sender = inbox[r][i].msg[1]
          /\ \A k \in DOMAIN got[r] : got[r][k].sender = got[r][k].msg[1]
      BY DEF Data, SenderKept
    <2>2. CASE r = p
      <3>1. \A i \in Filled(r)' : inbox'[r][i].sender = inbox'[r][i].msg[1]
        <4> HIDE DEF from
        <4>1. ASSUME NEW i \in 1 .. n - 2
              PROVE  inbox'[p][i].sender = inbox'[p][i].msg[1]
          <5>1. from(i) \in Filled(p)
            BY <1>4, <1>6
          <5>2. inbox[p][from(i)].sender = inbox[p][from(i)].msg[1]
            BY <2>1, <2>2, <5>1
          <5> QED BY <1>5, <5>2
        <4> QED BY <1>4, <2>2, <4>1
      <3>2. m.sender = m.msg[1]
        BY <1>2, <1>4, <1>a, <2>1, <2>2
      <3>3. \A k \in DOMAIN got'[p] : got'[p][k].sender = got'[p][k].msg[1]
        <4>1. got[p] \in Seq(Msg) /\ got'[p] = Append(got[p], m)
          BY <1>1 DEF Contents
        <4> QED BY <2>1, <2>2, <3>2, <4>1, Appended
      <3> QED BY <2>2, <3>1, <3>3
    <2>3. CASE r # p
      BY <1>3, <2>1, <2>3
    <2> QED BY <2>2, <2>3
  <1>10. PayloadsFresh'
    BY <1>1, FreshKept DEF Data, Shape, Writing
  <1>11. SlotsInUse'
    <2> SUFFICES ASSUME NEW r \in Proc
                 PROVE  /\ pc'[r] \in Writing \ {"sendMsg"} =>
                             inbox'[peer[r]][inboxWrite'[peer[r]]].msg = <<r, seq[r]>>
                        /\ pc'[r] = "sendPublish" =>
                             inbox'[peer[r]][inboxWrite'[peer[r]]].sender = r
                        /\ pc'[r] \in {"recvSlideLock", "recvSlide"} =>
                             /\ ret[r].msg = inbox'[r][cur[r]].msg
                             /\ ret[r].sender = inbox'[r][cur[r]].sender
      BY <1>1 DEF SlotsInUse
    <2>1. CASE r = p
      BY <1>1, <2>1 DEF Writing, Shape
    <2>2. CASE r # p
      <3>1. pc'[r] = pc[r]
        BY <1>1, <2>2 DEF Shape
      <3>2. pc[r] \in Writing => peer[r] \in Proc \ {p}
        BY <1>1, <2>2, WritersApart DEF Control, NobodySendsToItself, SendSteps, Writing
      <3> QED BY <1>1, <1>3, <2>2, <3>1, <3>2 DEF Data, SlotsInUse, Writing
    <2> QED BY <2>1, <2>2
  <1> QED BY <1>8, <1>9, <1>10, <1>11 DEF Data

LEMMA InitData == Init => Data
  <1> SUFFICES ASSUME Init PROVE Data
    OBVIOUS
  <1>1. \A q \in Proc : Filled(q) = {} /\ DOMAIN sent[q] = {} /\ DOMAIN got[q] = {}
    BY DEF Init, Filled
  <1>2. \A q \in Proc : Msgs(sent[q]) = {} /\ Msgs(got[q]) = {} /\ Queued(q) = {}
    BY <1>1 DEF Msgs, Queued
  <1>3. NothingLostOrDoubled
    BY <1>1, <1>2 DEF NothingLostOrDoubled
  <1>4. SenderKept
    BY <1>1 DEF SenderKept
  <1>5. PayloadsFresh
    BY <1>2 DEF PayloadsFresh
  <1>6. SlotsInUse
    BY DEF Init, SlotsInUse, Writing
  <1> QED BY <1>3, <1>4, <1>5, <1>6 DEF Data

LEMMA StutterData ==
  ASSUME Data, UNCHANGED vars
  PROVE  Data'
  <1>1. NothingLostOrDoubled' /\ SenderKept'
    BY LogsKept DEF Data, InboxKept, vars, boxVars, history
  <1>2. PayloadsFresh'
    BY DEF Data, PayloadsFresh, Msgs, vars, callVars, history
  <1>3. SlotsInUse'
    BY DEF Data, SlotsInUse, vars, callVars, boxVars
  <1> QED BY <1>1, <1>2, <1>3 DEF Data

LEMMA NextData ==
  ASSUME TypeInv, Data, Next
  PROVE  Data'
  <1>0. Shape /\ Control /\ Contents /\ chan \in [Proc -> Nat]
    BY TypeOKShape, TypeOKContents DEF TypeInv, TypeOK
  <1>1. PICK p \in Proc : Start(p) \/ Step(p) \/ TimeOut(p)
    BY DEF Next
  <1>2. CASE Start(p)
    <2>1. \A call \in SendCalls \cup RecvCalls : call[3] \in Nat
      BY SendCallsAssumption, RecvCallsAssumption
    <2> QED BY <1>0, <1>2, <2>1, StartData DEF Start
  <1>3. CASE SendDangling(p) \/ TimeOut(p)
    <2>1. /\ UNCHANGED <<pc, callVars, boxVars, history>>
          /\ fate = "run"
      BY <1>3 DEF SendDangling, TimeOut
    <2>2. NothingLostOrDoubled' /\ SenderKept'
      BY <2>1, LogsKept DEF Data, InboxKept, boxVars, history
    <2>3. PayloadsFresh'
      BY <2>1 DEF Data, PayloadsFresh, Msgs, callVars, history
    <2>4. SlotsInUse'
      BY <2>1 DEF Data, SlotsInUse, callVars, boxVars
    <2> QED BY <2>2, <2>3, <2>4 DEF Data
  <1>4. CASE SendStep(p)
    BY <1>0, <1>3, <1>4, MoveData, StoreData, PublishData DEF SendStep
  <1>5. CASE RecvStep(p)
    BY <1>0, <1>5, MoveData, SlideData DEF RecvStep
  <1>6. CASE CheckStep(p) \/ StopInactive(p)
    BY <1>0, <1>6, MoveData DEF CheckStep
  <1> QED BY <1>1, <1>2, <1>3, <1>4, <1>5, <1>6 DEF Step

LEMMA DataSafety == Spec => []Data
  <1>1. TypeInv /\ Data /\ [Next \/ Finished]_vars => Data'
    BY NextData, StutterData DEF Finished
  <1> QED
    BY <1>1, InitData, TypeCorrect, PTL DEF Spec

\* Searching under inbox_block while others append under inbox_lock loses and
\* doubles no message, for any number of senders and any size of the inbox.
THEOREM DeliverySafety == Spec => []NothingLostOrDoubled
  BY DataSafety, PTL DEF Data

\* A message is delivered under the name of the process that sent it.
THEOREM SenderSafety == Spec => []SenderKept
  BY DataSafety, PTL DEF Data

\* The conjunction of all these is inductive: it is the invariant the theorems
\* above are read from, idris_sendMessage and idris_recvMessageFrom at every step.
THEOREM ProtocolSafety == Spec => []ProtocolInv
  BY TypeCorrect, WakeupSafety, DataSafety, PTL DEF ProtocolInv, TypeInv, Control, Data

-----------------------------------------------------------------------------
(* idris_sendMessage and idris_recvMessageFrom, with their slots, locks and  *)
(* single stores, implement the mailboxes of module Mailbox, and what        *)
(* follows for the order of the messages of one sender and for a program     *)
(* that checks before it receives.                                           *)

-----------------------------------------------------------------------------
(* The letters of the abstract mailbox *)

Slip(slot) == [sender |-> slot.sender, msg |-> slot.msg]

Slips == [sender: Proc \cup {NoProc}, msg: Payload \cup {NoMsg}]

Letters(slots, used) == [i \in used |-> Slip(slots[i])]

BoxOf(q)    == Letters(inbox[q], Filled(q))
HandedTo(q) == Letters(got[q], DOMAIN got[q])

\* A sequence is what its length and its elements say it is: one more letter
\* at the end, and one letter fewer in the middle.
LEMMA OneMore ==
  ASSUME NEW S, NEW s \in Seq(S), NEW t \in Seq(S), Len(t) = Len(s) + 1,
         \A i \in 1 .. Len(s) : t[i] = s[i]
  PROVE  t = Append(s, t[Len(s) + 1])
  <1>1. t[Len(s) + 1] \in S
    BY ElementOfSeq, LenProperties
  <1>2. Append(s, t[Len(s) + 1]) \in Seq(S)
    BY <1>1
  <1>3. \A i \in 1 .. Len(t) : t[i] = Append(s, t[Len(s) + 1])[i]
    BY <1>1, LenProperties
  <1> QED BY <1>1, <1>2, <1>3, SeqEqual

LEMMA OneLess ==
  ASSUME NEW S, NEW s \in Seq(S), NEW t \in Seq(S), NEW c \in 1 .. Len(s),
         Len(t) = Len(s) - 1,
         \A i \in 1 .. Len(t) : t[i] = IF i < c THEN s[i] ELSE s[i + 1]
  PROVE  t = Promise!RemoveAt(s, c)
  <1> DEFINE u == SubSeq(s, 1, c - 1)
             v == SubSeq(s, c + 1, Len(s))
  <1>0. Len(s) \in Nat /\ \A i \in 1 .. Len(s) : s[i] \in S
    BY LenProperties, ElementOfSeq
  <1>1. u \in Seq(S) /\ Len(u) = c - 1 /\ \A i \in 1 .. c - 1 : u[i] = s[i]
    <2>1. \A i \in 1 .. c - 1 : s[i] \in S
      BY <1>0
    <2>2. /\ u \in Seq(S) /\ Len(u) = IF 1 <= c - 1 THEN c - 1 - 1 + 1 ELSE 0
          /\ \A i \in 1 .. c - 1 - 1 + 1 : u[i] = s[1 + i - 1]
      BY <1>0, <2>1, SubSeqProperties
    <2> QED BY <1>0, <2>2
  <1>2. v \in Seq(S) /\ Len(v) = Len(s) - c /\ \A i \in 1 .. Len(s) - c : v[i] = s[c + i]
    <2>1. \A i \in c + 1 .. Len(s) : s[i] \in S
      BY <1>0
    <2>2. /\ v \in Seq(S)
          /\ Len(v) = IF c + 1 <= Len(s) THEN Len(s) - (c + 1) + 1 ELSE 0
          /\ \A i \in 1 .. Len(s) - (c + 1) + 1 : v[i] = s[c + 1 + i - 1]
      BY <1>0, <2>1, SubSeqProperties
    <2> QED BY <1>0, <2>2
  <1> HIDE DEF u, v
  <1>3. /\ u \o v \in Seq(S) /\ Len(u \o v) = Len(t)
        /\ \A i \in 1 .. Len(t) : (u \o v)[i] = IF i <= c - 1 THEN u[i] ELSE v[i - (c - 1)]
    <2>1. /\ u \o v \in Seq(S) /\ Len(u \o v) = Len(u) + Len(v)
          /\ \A i \in 1 .. Len(u) + Len(v) :
               (u \o v)[i] = IF i <= Len(u) THEN u[i] ELSE v[i - Len(u)]
      BY <1>1, <1>2, ConcatProperties
    <2> QED BY <1>0, <1>1, <1>2, <2>1
  <1>4. \A i \in 1 .. Len(t) : t[i] = (u \o v)[i]
    BY <1>0, <1>1, <1>2, <1>3
  <1>5. t = u \o v
    BY <1>3, <1>4, SeqEqual
  <1> QED BY <1>5 DEF Promise!RemoveAt, u, v

\* What waits in an inbox, and what its owner received, is a sequence of letters.
LEMMA LettersType ==
  ASSUME NEW n \in Nat, NEW slots, \A i \in 1 .. n : slots[i] \in Msg
  PROVE  /\ Letters(slots, 1 .. n) \in Seq(Slips) /\ Len(Letters(slots, 1 .. n)) = n
         /\ DOMAIN Letters(slots, 1 .. n) = 1 .. n
  <1>1. \A slot \in Msg : Slip(slot) \in Slips
    BY DEF Msg, Slips, Slip
  <1>2. Letters(slots, 1 .. n) \in [1 .. n -> Slips]
    BY <1>1 DEF Letters
  <1>3. Letters(slots, 1 .. n) \in Seq(Slips) /\ DOMAIN Letters(slots, 1 .. n) = 1 .. n
    BY <1>2, SeqDef
  <1> HIDE DEF Letters
  <1> QED BY <1>3, LenProperties

-----------------------------------------------------------------------------
(* The steps of the mailbox *)

\* The payloads a VM has used are numbered up to the bound on its sends.
Numbered == \A p \in Proc :
  /\ seq[p] <= MaxSends
  /\ pc[p] \in SendSteps => 1 <= seq[p]

\* inbox_write++ posts one letter: the slot below it holds the message of the
\* sender that holds inbox_lock, and that message was never in this inbox.
LEMMA PublishPosts ==
  ASSUME Shape, Control, Data, Contents, Numbered, Shape', Contents',
         NEW p \in Proc, SendPublish(p)
  PROVE  \E q \in Proc, m \in Proc \X (1 .. MaxSends) : Promise!Post(p, q, m)
  <1>a. PICK q \in Proc, n \in 1 .. InboxSize : q = peer[p] /\ n = inboxWrite[q] /\ p # q
    BY DEF SendPublish, Control, NobodySendsToItself, PointersInRange, SendSteps, Writing, Shape
  <1>b. PICK m : m = <<p, seq[p]>>
    OBVIOUS
  <1> DEFINE x == [sender |-> p, msg |-> m]
  <1>1. /\ pc[p] = "sendPublish" /\ inboxWrite' = [inboxWrite EXCEPT ![q] = n + 1]
        /\ inbox' = inbox /\ got' = got /\ fate = "run"
    BY <1>a DEF SendPublish
  <1>2. inbox[q][n].msg = m /\ inbox[q][n].sender = p
    BY <1>1, <1>b, <1>a DEF Data, SlotsInUse, Writing
  <1>3. m \in Proc \X (1 .. MaxSends) /\ m[1] = p /\ m[2] = seq[p]
    BY <1>1, <1>b, BoundAssumption DEF Numbered, SendSteps, Contents
  <1>4. m \notin Msgs(sent[q])
    <2>1. m \in Msgs(sent[q]) => m[2] < seq[m[1]]
      BY <1>1, <1>3 DEF Data, PayloadsFresh, Writing
    <2> QED BY <1>3, <2>1 DEF Contents
  <1>5. \A i \in Filled(q) : inbox[q][i].msg # m
    BY <1>4 DEF Data, NothingLostOrDoubled, Queued
  <1>6. \A k \in DOMAIN got[q] : got[q][k].msg # m
    <2>1. m \notin Msgs(got[q])
      BY <1>4 DEF Data, NothingLostOrDoubled
    <2> QED BY <2>1 DEF Msgs
  <1>7. BoxOf(q)' = Append(BoxOf(q), x)
    <2>0. n - 1 \in Nat /\ n \in Nat /\ \A i \in 1 .. n : i \in 1 .. InboxSize
      BY DEF Shape
    <2>1. /\ BoxOf(q) \in Seq(Slips) /\ Len(BoxOf(q)) = n - 1 /\ DOMAIN BoxOf(q) = 1 .. n - 1
      <3>1. \A i \in 1 .. n : inbox[q][i] \in Msg
        <4>1. inbox[q] \in [1 .. InboxSize -> Msg]
          BY DEF Contents
        <4> QED BY <2>0, <4>1
      <3>2. \A i \in 1 .. n - 1 : inbox[q][i] \in Msg
        BY <2>0, <3>1
      <3> QED BY <1>a, <2>0, <3>2, LettersType DEF BoxOf, Filled
    <2>2. inboxWrite'[q] = n + 1
      BY <1>1 DEF Shape
    <2>3. /\ BoxOf(q)' \in Seq(Slips) /\ Len(BoxOf(q)') = n /\ DOMAIN BoxOf(q)' = 1 .. n
      <3>1. \A i \in 1 .. n : inbox'[q][i] \in Msg
        BY <2>0, <1>1 DEF Contents
      <3>2. BoxOf(q)' = Letters(inbox'[q], 1 .. n)
        BY <2>0, <2>2 DEF BoxOf, Letters, Filled
      <3> QED BY <2>0, <3>1, <3>2, LettersType
    <2>4. \A i \in 1 .. n - 1 : BoxOf(q)'[i] = BoxOf(q)[i]
      BY <1>1, <1>a, <2>2 DEF BoxOf, Letters, Filled
    <2>5. BoxOf(q)'[n] = x
      <3>1. n \in 1 .. n + 1 - 1 /\ BoxOf(q)' = Letters(inbox[q], 1 .. n + 1 - 1)
        BY <1>1, <2>0, <2>2 DEF BoxOf, Filled
      <3> QED BY <1>2, <3>1 DEF Letters, Slip
    <2> HIDE DEF x
    <2> QED BY <2>1, <2>3, <2>4, <2>5, OneMore, <1>a
  <1>8. \A r \in Proc \ {q} : BoxOf(r)' = BoxOf(r)
    <2>1. \A r \in Proc \ {q} : inboxWrite'[r] = inboxWrite[r]
      BY <1>1 DEF Shape
    <2> QED BY <1>1, <2>1 DEF BoxOf, Letters, Filled
  <1>9. [r \in Proc |-> BoxOf(r)]' = [[r \in Proc |-> BoxOf(r)] EXCEPT ![q] = Append(BoxOf(q), x)]
    BY <1>7, <1>8
  <1>10. [r \in Proc |-> HandedTo(r)]' = [r \in Proc |-> HandedTo(r)]
    BY <1>1 DEF HandedTo, Letters
  <1>11. x \notin Promise!Range(BoxOf(q)) \cup Promise!Range(HandedTo(q))
    BY <1>5, <1>6 DEF BoxOf, HandedTo, Letters, Slip, Promise!Range
  <1>12. Promise!Post(p, q, m)
    BY <1>a, <1>9, <1>10, <1>11 DEF Promise!Post, BoxOf, HandedTo, Letters, Slip
  <1> QED BY <1>3, <1>12

\* The slide takes the letter the receive found out of the box, wherever in it
\* that letter lies, and hands it to the owner.
LEMMA SlideTakes ==
  ASSUME Shape, Control, Data, Contents, Shape', Contents',
         NEW p \in Proc, RecvSlide(p)
  PROVE  \E i \in Filled(p) : Promise!Take(p, i)
  <1>a. PICK n \in 1 .. InboxSize + 1, c \in 1 .. InboxSize :
          n = inboxWrite[p] /\ c = cur[p] /\ c < n
    BY DEF RecvSlide, Control, PointersInRange, Found, Shape
  <1>b. PICK m \in Msg : m = ret[p]
    BY DEF Contents
  <1>1. /\ pc[p] = "recvSlide" /\ inboxWrite' = [inboxWrite EXCEPT ![p] = n - 1]
        /\ got' = [got EXCEPT ![p] = Append(got[p], m)] /\ fate = "run"
    BY <1>a, <1>b DEF RecvSlide
  <1>2. m.msg = inbox[p][c].msg /\ m.sender = inbox[p][c].sender
    BY <1>1, <1>a, <1>b DEF Data, SlotsInUse
  <1>3. Filled(p) = 1 .. n - 1 /\ Filled(p)' = 1 .. n - 2 /\ c \in 1 .. n - 1 /\ n - 2 \in Nat
    BY <1>1, <1>a DEF Filled, Shape
  <1>4. BoxOf(p) \in Seq(Slips) /\ Len(BoxOf(p)) = n - 1 /\ DOMAIN BoxOf(p) = 1 .. n - 1
    <2>1. n - 1 \in Nat /\ \A i \in 1 .. n - 1 : i \in 1 .. InboxSize
      BY DEF Shape
    <2>2. \A i \in 1 .. n - 1 : inbox[p][i] \in Msg
      <3>1. inbox[p] \in [1 .. InboxSize -> Msg]
        BY DEF Contents
      <3> QED BY <2>1, <3>1
    <2> QED BY <1>3, <2>1, <2>2, LettersType DEF BoxOf
  <1>5. BoxOf(p)' \in Seq(Slips) /\ Len(BoxOf(p)') = n - 2 /\ DOMAIN BoxOf(p)' = 1 .. n - 2
    <2>1. \A i \in 1 .. n - 2 : i \in 1 .. InboxSize
      BY DEF Shape
    <2>2. \A i \in 1 .. n - 2 : inbox'[p][i] \in Msg
      <3>1. inbox'[p] \in [1 .. InboxSize -> Msg]
        BY DEF Contents
      <3> QED BY <2>1, <3>1
    <2>3. BoxOf(p)' = Letters(inbox'[p], 1 .. n - 2)
      BY <1>3 DEF BoxOf
    <2> QED BY <1>3, <2>2, <2>3, LettersType
  <1>6. \A i \in 1 .. n - 2 : BoxOf(p)'[i] = IF i < c THEN BoxOf(p)[i] ELSE BoxOf(p)[i + 1]
    <2> SUFFICES ASSUME NEW i \in 1 .. n - 2
                 PROVE  BoxOf(p)'[i] = IF i < c THEN BoxOf(p)[i] ELSE BoxOf(p)[i + 1]
      OBVIOUS
    <2>1. i \in 1 .. InboxSize /\ i + 1 \in 1 .. InboxSize /\ i # n /\ i < n /\ i < InboxSize
      BY <1>a DEF Shape
    <2>2. inbox'[p][i] = IF c <= i THEN Moved(inbox[p][i], inbox[p][i + 1]) ELSE inbox[p][i]
      BY <1>a, <2>1 DEF RecvSlide, Slides, Contents, Shape
    <2>3. inbox[p][i] \in Msg /\ inbox[p][i + 1] \in Msg
      <3>1. inbox[p] \in [1 .. InboxSize -> Msg]
        BY DEF Contents
      <3> QED BY <2>1, <3>1
    <2>4. Slip(inbox'[p][i]) = IF c <= i THEN Slip(inbox[p][i + 1]) ELSE Slip(inbox[p][i])
      BY <2>2, <2>3, Fields DEF Slip
    <2>5. /\ BoxOf(p)'[i] = Slip(inbox'[p][i]) /\ BoxOf(p)[i] = Slip(inbox[p][i])
          /\ BoxOf(p)[i + 1] = Slip(inbox[p][i + 1])
      BY <1>3, <2>1 DEF BoxOf, Letters
    <2> QED BY <1>a, <2>1, <2>4, <2>5
  <1>7. BoxOf(p)' = Promise!RemoveAt(BoxOf(p), c)
    <2>1. c \in 1 .. Len(BoxOf(p)) /\ Len(BoxOf(p)') = Len(BoxOf(p)) - 1
      BY <1>3, <1>4, <1>5
    <2>2. \A i \in 1 .. Len(BoxOf(p)') : BoxOf(p)'[i] = IF i < c THEN BoxOf(p)[i] ELSE BoxOf(p)[i + 1]
      BY <1>5, <1>6
    <2> QED BY <1>4, <1>5, <2>1, <2>2, OneLess
  <1>8. HandedTo(p)' = Append(HandedTo(p), BoxOf(p)[c])
    <2>1. got[p] \in Seq(Msg) /\ got'[p] \in Seq(Msg) /\ got'[p] = Append(got[p], m)
      BY <1>1 DEF Contents
    <2>2. /\ Len(got[p]) \in Nat /\ Len(got'[p]) = Len(got[p]) + 1
          /\ DOMAIN got[p] = 1 .. Len(got[p]) /\ DOMAIN got'[p] = 1 .. Len(got'[p])
          /\ \A k \in 1 .. Len(got[p]) : got[p][k] \in Msg
          /\ \A k \in 1 .. Len(got'[p]) : got'[p][k] \in Msg
      BY <2>1, LenProperties, ElementOfSeq
    <2>3. /\ HandedTo(p) \in Seq(Slips) /\ Len(HandedTo(p)) = Len(got[p])
          /\ HandedTo(p)' \in Seq(Slips) /\ Len(HandedTo(p)') = Len(got[p]) + 1
      <3>1. HandedTo(p)' = Letters(got'[p], 1 .. Len(got'[p]))
        BY <2>2 DEF HandedTo
      <3>2. HandedTo(p) \in Seq(Slips) /\ Len(HandedTo(p)) = Len(got[p])
        BY <2>2, LettersType DEF HandedTo
      <3>3. HandedTo(p)' \in Seq(Slips) /\ Len(HandedTo(p)') = Len(got'[p])
        <4>1. Len(got'[p]) \in Nat
          BY <2>2
        <4> QED BY <2>2, <3>1, <4>1, LettersType
      <3> QED BY <2>2, <3>2, <3>3
    <2>4. \A k \in 1 .. Len(got[p]) : HandedTo(p)'[k] = HandedTo(p)[k]
      <3>1. \A k \in DOMAIN got[p] : got'[p][k] = got[p][k] /\ k \in DOMAIN got'[p]
        BY <2>1, Appended
      <3> QED BY <2>2, <3>1 DEF HandedTo, Letters
    <2>5. HandedTo(p)'[Len(got[p]) + 1] = BoxOf(p)[c]
      <3>1. got'[p][Len(got[p]) + 1] = m /\ Len(got[p]) + 1 \in DOMAIN got'[p]
        BY <2>1, Appended
      <3>2. HandedTo(p)'[Len(got[p]) + 1] = Slip(m)
        BY <3>1 DEF HandedTo, Letters
      <3>3. BoxOf(p)[c] = Slip(inbox[p][c])
        BY <1>3 DEF BoxOf, Letters
      <3> QED BY <1>2, <3>2, <3>3 DEF Slip
    <2> QED BY <2>3, <2>4, <2>5, OneMore
  <1>9. \A r \in Proc \ {p} : BoxOf(r)' = BoxOf(r) /\ HandedTo(r)' = HandedTo(r)
    <2>1. \A r \in Proc \ {p} :
            inbox'[r] = inbox[r] /\ inboxWrite'[r] = inboxWrite[r] /\ got'[r] = got[r]
      BY <1>1 DEF RecvSlide, Shape, Contents
    <2> QED BY <2>1 DEF BoxOf, HandedTo, Letters, Filled
  <1>10. [r \in Proc |-> BoxOf(r)]'
           = [[r \in Proc |-> BoxOf(r)] EXCEPT ![p] = Promise!RemoveAt(BoxOf(p), c)]
    BY <1>7, <1>9
  <1>11. [r \in Proc |-> HandedTo(r)]'
           = [[r \in Proc |-> HandedTo(r)] EXCEPT ![p] = Append(HandedTo(p), BoxOf(p)[c])]
    BY <1>8, <1>9
  <1>12. Promise!Take(p, c)
    BY <1>10, <1>11 DEF Promise!Take, BoxOf, HandedTo, Letters, Slip
  <1> QED BY <1>3, <1>12

\* Every other step leaves the messages of every inbox where they are.
LEMMA OthersKeepInboxes ==
  ASSUME TypeOK, Control, NEW p \in Proc,
         Start(p) \/ Step(p) \/ TimeOut(p), ~SendPublish(p), ~RecvSlide(p)
  PROVE  /\ \A q \in Proc : InboxKept(q)
         /\ got' = got /\ sent' = sent /\ inboxWrite' = inboxWrite
  <1>0. Shape
    BY TypeOKShape
  <1>1. CASE SendMsg(p) \/ SendChannel(p) \/ SendSender(p)
    <2>1. /\ \E slot : inbox' = [inbox EXCEPT ![peer[p]][inboxWrite[peer[p]]] = slot]
          /\ inboxWrite' = inboxWrite /\ got' = got /\ sent' = sent
      BY <1>1 DEF SendMsg, SendChannel, SendSender, history
    <2>2. ASSUME NEW q \in Proc PROVE InboxKept(q)
      <3>1. \A i \in Filled(q) : i # inboxWrite[q]
        BY <1>0 DEF Filled, Shape
      <3>2. inbox \in [Proc -> [1 .. InboxSize -> Msg]]
        BY DEF TypeOK
      <3> QED BY <2>1, <3>1, <3>2 DEF InboxKept
    <2> QED BY <2>1, <2>2
  <1>2. CASE ~(SendMsg(p) \/ SendChannel(p) \/ SendSender(p))
    <2>1. inbox' = inbox /\ inboxWrite' = inboxWrite /\ got' = got /\ sent' = sent
      <3>1. CASE Start(p) \/ TimeOut(p)
        BY <3>1 DEF Start, SendStart, RecvStart, CheckMessages, CheckInitMessages, TimedStart,
           StopFree, TimeOut, boxVars, history
      <3>2. CASE SendStep(p)
        BY <1>2, <3>2 DEF SendStep, SendLock, SendBlock, SendSignal, SendUnlock, SendDangling,
           boxVars, history
      <3>3. CASE RecvStep(p)
        BY <3>3 DEF RecvStep, RecvLock, RecvScan, Sleep, Wake, RecvTake, RecvSlideLock, RecvUnlock,
           boxVars, history
      <3>4. CASE CheckStep(p) \/ StopInactive(p)
        BY <3>4 DEF CheckStep, TimedLock, TimedUnlock, TimedScan, CallReturn, StopInactive,
           boxVars, history
      <3> QED BY <3>1, <3>2, <3>3, <3>4 DEF Step
    <2> QED BY <2>1 DEF InboxKept
  <1> QED BY <1>1, <1>2

LEMMA NextNumbered ==
  ASSUME TypeOK, Numbered, [Next \/ Finished]_vars
  PROVE  Numbered'
  <1>0. Shape /\ Contents
    BY TypeOKShape, TypeOKContents
  <1>1. CASE Finished \/ UNCHANGED vars
    BY <1>1 DEF Finished, Numbered, vars, callVars
  <1>2. CASE Next
    <2>1. PICK p \in Proc : Start(p) \/ Step(p) \/ TimeOut(p)
      BY <1>2 DEF Next
    <2>2. CASE \E q \in Proc, c \in {call[3] : call \in SendCalls} : SendStart(p, q, c)
      <3>1. /\ seq[p] < MaxSends /\ seq' = [seq EXCEPT ![p] = @ + 1]
            /\ pc' \in {pc, [pc EXCEPT ![p] = "sendLock"]}
        BY <2>2 DEF SendStart
      <3>2. \A r \in Proc \ {p} : seq'[r] = seq[r] /\ pc'[r] = pc[r]
        BY <1>0, <3>1 DEF Shape, Contents
      <3>3. seq'[p] <= MaxSends /\ 1 <= seq'[p]
        BY <1>0, <3>1, BoundAssumption DEF Contents
      <3> QED BY <3>2, <3>3 DEF Numbered
    <2>3. CASE ~\E q \in Proc, c \in {call[3] : call \in SendCalls} : SendStart(p, q, c)
      <3>1. seq' = seq /\ \E to \in PC : pc' = [pc EXCEPT ![p] = to] /\ (to \in SendSteps => pc[p] \in SendSteps)
        <4>0. \A to \in PC : pc[p] = to => pc = [pc EXCEPT ![p] = to]
          BY <1>0 DEF Shape
        <4>1. CASE Start(p) \/ TimeOut(p)
          <5>1. CASE TimeOut(p)
            <6>1. seq' = seq /\ pc' = pc /\ pc[p] \in PC
              BY <1>0, <5>1 DEF TimeOut, callVars, Shape
            <6> QED BY <4>0, <6>1
          <5>2. CASE Start(p)
            BY <2>3, <5>2 DEF Start, RecvStart, CheckMessages, CheckInitMessages, TimedStart,
               StopFree, callVars, PC, SendSteps, RecvSteps, CheckSteps
          <5> QED BY <4>1, <5>1, <5>2
        <4>2. CASE SendStep(p)
          <5>1. CASE SendDangling(p)
            <6>1. seq' = seq /\ pc' = pc /\ pc[p] \in PC
              BY <1>0, <5>1 DEF SendDangling, callVars, Shape
            <6> QED BY <4>0, <6>1
          <5>2. CASE ~SendDangling(p)
            BY <4>2, <5>2 DEF SendStep, SendLock, SendMsg, SendChannel, SendSender, SendPublish,
               SendBlock, SendSignal, SendUnlock, Return, callVars, PC, SendSteps
          <5> QED BY <5>1, <5>2
        <4>3. CASE RecvStep(p)
          BY <4>3 DEF RecvStep, RecvLock, RecvScan, Sleep, Wake, RecvTake, RecvSlideLock,
             RecvSlide, RecvUnlock, Return, callVars, PC, SendSteps, RecvSteps, CheckSteps
        <4>4. CASE CheckStep(p) \/ StopInactive(p)
          BY <4>4 DEF CheckStep, TimedLock, TimedUnlock, TimedScan, CallReturn, Return,
             StopInactive, callVars, PC, SendSteps, RecvSteps, CheckSteps
        <4> QED BY <2>1, <4>1, <4>2, <4>3, <4>4 DEF Step
      <3>2. \A r \in Proc : pc'[r] \in SendSteps => pc[r] \in SendSteps
        BY <1>0, <3>1 DEF Shape
      <3> QED BY <3>1, <3>2 DEF Numbered
    <2> QED BY <2>2, <2>3
  <1> QED BY <1>1, <1>2

LEMMA NumberedSafety == Spec => []Numbered
  <1>1. Init => Numbered
    <2> SUFFICES ASSUME Init PROVE Numbered
      OBVIOUS
    <2>1. \A p \in Proc : seq[p] = 0 /\ pc[p] = "idle"
      BY DEF Init
    <2>2. 0 <= MaxSends /\ "idle" \notin SendSteps
      BY BoundAssumption DEF SendSteps
    <2> QED BY <2>1, <2>2 DEF Numbered
  <1> QED BY <1>1, NextNumbered, TypeSafety, PTL DEF Spec

LEMMA InitMailbox == Init => Promise!Init
  <1> SUFFICES ASSUME Init PROVE Promise!Init
    OBVIOUS
  <1>1. \A q \in Proc : Filled(q) = 1 .. 0 /\ DOMAIN got[q] = 1 .. 0
    BY DEF Init, Filled
  <1>2. \A slots : Letters(slots, 1 .. 0) = <<>>
    <2>1. \A slots : Letters(slots, 1 .. 0) \in Seq(Slips) /\ Len(Letters(slots, 1 .. 0)) = 0
      BY LettersType
    <2> QED BY <2>1, EmptySeq
  <1>3. /\ [q \in Proc |-> BoxOf(q)] = [q \in Proc |-> <<>>]
        /\ [q \in Proc |-> HandedTo(q)] = [q \in Proc |-> <<>>]
    BY <1>1, <1>2 DEF BoxOf, HandedTo
  <1> QED BY <1>3 DEF Promise!Init, BoxOf, HandedTo, Letters, Slip

\* Every step of a send or a receive, of any number of VMs, is a step of the
\* mailboxes or leaves them as they are.
LEMMA NextMailbox ==
  ASSUME TypeInv, TypeInv', Data, Numbered, [Next \/ Finished]_vars
  PROVE  [Promise!Next]_Promise!vars
  <1>0. Shape /\ Control /\ Contents /\ Shape' /\ Contents' /\ TypeOK
    <2>1. TypeOK' => Shape'
      BY SizeAssumption, ProcAssumption DEF TypeOK, Shape
    <2>2. TypeOK' => Contents'
      BY DEF TypeOK, Contents
    <2> QED BY <2>1, <2>2, TypeOKShape, TypeOKContents DEF TypeInv
  <1>1. CASE Finished \/ UNCHANGED vars
    BY <1>1 DEF Finished, vars, boxVars, history, Promise!vars, Filled
  <1>2. CASE Next
    <2>1. PICK p \in Proc : Start(p) \/ Step(p) \/ TimeOut(p)
      BY <1>2 DEF Next
    <2>2. CASE SendPublish(p)
      <3>1. PICK q \in Proc, m \in Proc \X (1 .. MaxSends) : Promise!Post(p, q, m)
        BY <1>0, <2>2, PublishPosts
      <3> QED BY <3>1 DEF Promise!Next
    <2>3. CASE RecvSlide(p)
      <3>1. PICK i \in Filled(p) : Promise!Take(p, i)
        BY <1>0, <2>3, SlideTakes
      <3>2. Filled(p) = DOMAIN [q \in Proc |-> BoxOf(q)][p]
        BY DEF BoxOf, Letters
      <3> QED BY <3>1, <3>2 DEF Promise!Next, BoxOf, Letters, Slip
    <2>4. CASE ~SendPublish(p) /\ ~RecvSlide(p)
      <3>1. (\A q \in Proc : InboxKept(q)) /\ got' = got
        BY <1>0, <2>1, <2>4, OthersKeepInboxes
      <3>2. \A q \in Proc : BoxOf(q)' = BoxOf(q) /\ HandedTo(q)' = HandedTo(q)
        BY <3>1 DEF InboxKept, BoxOf, HandedTo, Letters, Filled
      <3>3. /\ [q \in Proc |-> BoxOf(q)]' = [q \in Proc |-> BoxOf(q)]
            /\ [q \in Proc |-> HandedTo(q)]' = [q \in Proc |-> HandedTo(q)]
        BY <3>2
      <3> QED BY <3>3 DEF Promise!vars, BoxOf, HandedTo, Letters, Slip
    <2> QED BY <2>2, <2>3, <2>4
  <1> QED BY <1>1, <1>2

\* idris_sendMessage and idris_recvMessageFrom implement the mailboxes, for any
\* number of VMs that send to each other at once and any size of the inbox: a
\* send is one letter posted, a receive one letter taken, and nothing else in
\* them shows.
THEOREM MailboxImplemented == Spec => ImplementsMailbox
  <1>1. Spec => [](TypeInv /\ Data /\ Numbered)
    BY TypeCorrect, DataSafety, NumberedSafety, PTL
  <1> QED
    BY <1>1, InitMailbox, NextMailbox, PTL DEF Spec, ImplementsMailbox, Promise!Spec

-----------------------------------------------------------------------------
(* The order of the messages of one sender.  What was received and what      *)
(* still waits continue one another, and a receive that names no channel      *)
(* finds the oldest message of its sender; a send may start at any time.      *)

NoChannelAsked == \A call \in RecvCalls : call[3] = 0

AskedForAny == \A p \in Proc : pc[p] \in RecvSteps => chan[p] = 0

\* No message in front of the one a receive found has the same sender.
OldestFound == Running => \A p \in Proc : pc[p] \in Found =>
  \A i \in Filled(p) : i < cur[p] => inbox[p][i].sender # inbox[p][cur[p]].sender

Before(m, n) == m[1] = n[1] => m[2] < n[2]

InOrder(q) ==
  /\ \A k, l \in DOMAIN got[q] : k < l => Before(got[q][k].msg, got[q][l].msg)
  /\ \A k \in DOMAIN got[q], i \in Filled(q) : Before(got[q][k].msg, inbox[q][i].msg)
  /\ \A i, j \in Filled(q) : i < j => Before(inbox[q][i].msg, inbox[q][j].msg)

OrderInv == AskedForAny /\ OldestFound /\ \A q \in Proc : InOrder(q)

LEMMA InitOrder == Init => OrderInv
  <1> SUFFICES ASSUME Init PROVE OrderInv
    OBVIOUS
  <1>1. \A q \in Proc : Filled(q) = {} /\ DOMAIN got[q] = {} /\ pc[q] = "idle"
    BY DEF Init, Filled
  <1>2. "idle" \notin RecvSteps /\ "idle" \notin Found
    BY DEF RecvSteps, Found
  <1> QED BY <1>1, <1>2 DEF OrderInv, AskedForAny, OldestFound, InOrder

\* A receive keeps the channel it was called with, and only the call starts it.
LEMMA AskedKept ==
  ASSUME TypeOK, NoChannelAsked, AskedForAny, NEW p \in Proc,
         Start(p) \/ Step(p) \/ TimeOut(p)
  PROVE  AskedForAny'
  <1>0. Shape /\ chan \in [Proc -> Nat]
    BY TypeOKShape DEF TypeOK
  <1>1. \A r \in Proc \ {p} : pc'[r] = pc[r] /\ chan'[r] = chan[r]
    <2>1. CASE Start(p) \/ TimeOut(p)
      BY <1>0, <2>1 DEF Start, SendStart, RecvStart, CheckMessages, CheckInitMessages, TimedStart,
         StopFree, TimeOut, callVars, Shape
    <2>2. CASE SendStep(p)
      BY <1>0, <2>2 DEF SendStep, SendLock, SendMsg, SendChannel, SendSender, SendPublish,
         SendBlock, SendSignal, SendUnlock, SendDangling, Return, callVars, Shape
    <2>3. CASE RecvStep(p)
      BY <1>0, <2>3 DEF RecvStep, RecvLock, RecvScan, Sleep, Wake, RecvTake, RecvSlideLock,
         RecvSlide, RecvUnlock, Return, callVars, Shape
    <2>4. CASE CheckStep(p) \/ StopInactive(p)
      BY <1>0, <2>4 DEF CheckStep, TimedLock, TimedUnlock, TimedScan, CallReturn, Return,
         StopInactive, callVars, Shape
    <2> QED BY <2>1, <2>2, <2>3, <2>4 DEF Step
  <1>2. pc'[p] \in RecvSteps => chan'[p] = 0
    <2>1. CASE Start(p) \/ TimeOut(p)
      <3>1. CASE \E t \in Proc \cup {NoProc}, c \in {call[3] : call \in RecvCalls} : RecvStart(p, t, c)
        <4>1. PICK t \in Proc \cup {NoProc}, c \in {call[3] : call \in RecvCalls} : RecvStart(p, t, c)
          BY <3>1
        <4>2. chan' = [chan EXCEPT ![p] = c] /\ c = 0
          BY <4>1 DEF RecvStart, NoChannelAsked
        <4> QED BY <1>0, <4>2
      <3>2. CASE TimeOut(p)
        BY <3>2 DEF TimeOut, callVars, AskedForAny
      <3>3. CASE Start(p) /\ ~\E t \in Proc \cup {NoProc}, c \in {call[3] : call \in RecvCalls} : RecvStart(p, t, c)
        <4>1. pc'[p] \in {"idle", "sendLock", "return", "timedLock", "stopping"}
          BY <1>0, <3>3 DEF Start, SendStart, CheckMessages, CheckInitMessages, TimedStart,
             StopFree, Shape
        <4> QED BY <4>1 DEF RecvSteps
      <3> QED BY <2>1, <3>1, <3>2, <3>3
    <2>2. CASE SendStep(p)
      <3>1. CASE SendDangling(p)
        BY <3>1 DEF SendDangling, callVars, AskedForAny
      <3>2. CASE ~SendDangling(p)
        <4>1. pc'[p] \in SendSteps \cup {"idle"}
          BY <1>0, <2>2, <3>2 DEF SendStep, SendLock, SendMsg, SendChannel, SendSender,
             SendPublish, SendBlock, SendSignal, SendUnlock, Return, Shape, SendSteps
        <4> QED BY <4>1 DEF RecvSteps, SendSteps
      <3> QED BY <3>1, <3>2
    <2>3. CASE RecvStep(p)
      <3>1. CASE Wake(p) \/ Sleep(p)
        <4>1. chan' = chan
          BY <3>1 DEF Wake, Sleep, callVars
        <4>2. pc'[p] \in RecvSteps => pc[p] \in RecvSteps
          BY <1>0, <3>1 DEF Wake, Sleep, RecvSteps, Shape
        <4> QED BY <4>1, <4>2 DEF AskedForAny
      <3>2. CASE RecvUnlock(p)
        <4>1. pc'[p] = "idle"
          BY <1>0, <3>2 DEF RecvUnlock, Return, Shape
        <4> QED BY <4>1 DEF RecvSteps
      <3>3. CASE RecvLock(p) \/ RecvScan(p) \/ RecvTake(p) \/ RecvSlideLock(p) \/ RecvSlide(p)
        <4>1. chan' = chan /\ pc[p] \in RecvSteps
          BY <3>3 DEF RecvLock, RecvScan, RecvTake, RecvSlideLock, RecvSlide, RecvSteps, callVars
        <4> QED BY <4>1 DEF AskedForAny
      <3> QED BY <2>3, <3>1, <3>2, <3>3 DEF RecvStep
    <2>4. CASE CheckStep(p) \/ StopInactive(p)
      <3>1. pc'[p] \in {"idle", "return", "timedSleep", "timedScan", "stopped"}
        BY <1>0, <2>4 DEF CheckStep, TimedLock, TimedUnlock, TimedScan, CallReturn, Return,
           StopInactive, Shape
      <3> QED BY <3>1 DEF RecvSteps
    <2> QED BY <2>1, <2>2, <2>3, <2>4 DEF Step
  <1> QED BY <1>1, <1>2 DEF AskedForAny

\* What the slide does to the messages: the one at cur is appended to what was
\* received, and each later slot is one further down.
LEMMA SlideMoves ==
  ASSUME Shape, Control, Data, Contents, NEW p \in Proc, RecvSlide(p)
  PROVE  \E c \in Filled(p) :
           /\ c = cur[p] /\ pc[p] = "recvSlide" /\ fate = "run"
           /\ got'[p] = Append(got[p], ret[p]) /\ ret[p].msg = inbox[p][c].msg
           /\ \A i \in Filled(p)' :
                LET k == IF i < c THEN i ELSE i + 1 IN
                k \in Filled(p) /\ i \in Nat /\ inbox'[p][i].msg = inbox[p][k].msg
           /\ \A r \in Proc \ {p} : /\ inbox'[r] = inbox[r] /\ got'[r] = got[r]
                                    /\ inboxWrite'[r] = inboxWrite[r]
  <1>a. PICK n \in 1 .. InboxSize + 1, c \in 1 .. InboxSize :
          n = inboxWrite[p] /\ c = cur[p] /\ c < n
    BY DEF RecvSlide, Control, PointersInRange, Found, Shape
  <1>1. /\ pc[p] = "recvSlide" /\ inboxWrite' = [inboxWrite EXCEPT ![p] = n - 1]
        /\ got' = [got EXCEPT ![p] = Append(got[p], ret[p])] /\ fate = "run"
    BY <1>a DEF RecvSlide
  <1>2. ret[p].msg = inbox[p][c].msg
    BY <1>1, <1>a DEF Data, SlotsInUse
  <1>3. Filled(p) = 1 .. n - 1 /\ Filled(p)' = 1 .. n - 2 /\ c \in Filled(p)
    BY <1>1, <1>a DEF Filled, Shape
  <1>4. ASSUME NEW i \in 1 .. n - 2
        PROVE  LET k == IF i < c THEN i ELSE i + 1 IN
               k \in 1 .. n - 1 /\ i \in Nat /\ inbox'[p][i].msg = inbox[p][k].msg
    <2>1. i \in 1 .. InboxSize /\ i + 1 \in 1 .. InboxSize /\ i # n /\ i < n /\ i < InboxSize
          /\ i \in 1 .. n - 1 /\ i + 1 \in 1 .. n - 1 /\ i \in Nat
      BY <1>a DEF Shape
    <2>2. inbox'[p][i] = IF c <= i THEN Moved(inbox[p][i], inbox[p][i + 1]) ELSE inbox[p][i]
      BY <1>a, <2>1 DEF RecvSlide, Slides, Contents, Shape
    <2>3. inbox[p][i] \in Msg /\ inbox[p][i + 1] \in Msg
      <3>1. inbox[p] \in [1 .. InboxSize -> Msg]
        BY DEF Contents
      <3> QED BY <2>1, <3>1
    <2> QED BY <1>a, <2>1, <2>2, <2>3, Fields
  <1>5. \A r \in Proc \ {p} : inbox'[r] = inbox[r] /\ got'[r] = got[r] /\ inboxWrite'[r] = inboxWrite[r]
    BY <1>1 DEF RecvSlide, Shape, Contents
  <1>6. got'[p] = Append(got[p], ret[p])
    BY <1>1 DEF Contents
  <1> QED BY <1>a, <1>1, <1>2, <1>3, <1>4, <1>5, <1>6

\* The search takes the first slot that matches, so a receive without a channel
\* never overtakes an older message of the same sender.
LEMMA ScanFindsOldest ==
  ASSUME Shape, AskedForAny, NEW p \in Proc, RecvScan(p), pc'[p] \in Found
  PROVE  \A i \in Filled(p) : i < cur'[p] => inbox[p][i].sender # inbox[p][cur'[p]].sender
  <1> DEFINE found == MatchesIn(Filled(p), p, peer[p], chan[p])
  <1>1. pc[p] = "recvScan" /\ chan[p] = 0
    BY DEF RecvScan, AskedForAny, RecvSteps
  <1>2. \E k \in found : IsFirst(k, found) /\ cur' = [cur EXCEPT ![p] = k]
    <2>1. pc'[p] # "recvSleep"
      BY DEF Found
    <2> QED BY <2>1 DEF RecvScan, Shape
  <1>3. PICK k \in found : IsFirst(k, found) /\ cur'[p] = k
    <2>1. PICK k \in found : IsFirst(k, found) /\ cur' = [cur EXCEPT ![p] = k]
      BY <1>2
    <2> QED BY <2>1 DEF Shape
  <1>4. k \in Filled(p) /\ (peer[p] = NoProc \/ inbox[p][k].sender = peer[p])
    BY <1>3 DEF MatchesIn, Matches
  <1>5. ASSUME NEW i \in Filled(p), i < k
        PROVE  peer[p] # NoProc /\ inbox[p][i].sender # peer[p]
    <2>1. ~(k <= i)
      BY <1>4, <1>5 DEF Filled, Shape
    <2>2. i \notin found
      BY <1>3, <2>1 DEF IsFirst
    <2>3. ~Matches(inbox[p][i], peer[p], chan[p])
      BY <2>2 DEF MatchesIn
    <2> QED BY <1>1, <2>3 DEF Matches
  <1> QED BY <1>3, <1>4, <1>5

LEMMA OldestKept ==
  ASSUME TypeInv, Data, AskedForAny, OldestFound, NEW p \in Proc,
         Start(p) \/ Step(p) \/ TimeOut(p)
  PROVE  OldestFound'
  <1>0. Shape /\ Control /\ Contents /\ TypeOK /\ Running
    <2>1. Running
      BY DEF Start, SendStart, RecvStart, CheckMessages, CheckInitMessages, TimedStart, StopFree,
         Step, SendStep, SendLock, SendMsg, SendChannel, SendSender, SendPublish, SendBlock,
         SendSignal, SendUnlock, SendDangling, RecvStep, RecvLock, RecvScan, Sleep, Wake, RecvTake,
         RecvSlideLock, RecvSlide, RecvUnlock, CheckStep, TimedLock, TimedUnlock, TimedScan,
         CallReturn, StopInactive, TimeOut, Return
    <2> QED BY <2>1, TypeOKShape, TypeOKContents DEF TypeInv
  <1>1. \A r \in Proc : pc[r] \in Found => cur[r] \in Filled(r)
    BY <1>0 DEF Control, PointersInRange, Filled, Shape
  <1>2. \A r \in Proc : pc[r] \in Found =>
          \A i \in Filled(r) : i < cur[r] => inbox[r][i].sender # inbox[r][cur[r]].sender
    BY <1>0 DEF OldestFound
  <1>3. \A r \in Proc : pc'[r] \in Found /\ ~(r = p /\ RecvScan(p)) =>
          pc[r] \in Found /\ cur'[r] = cur[r]
    <2>1. CASE Start(p) \/ TimeOut(p)
      <3>1. CASE TimeOut(p)
        BY <3>1 DEF TimeOut, callVars
      <3>2. CASE Start(p)
        <4>1. /\ \A r \in Proc \ {p} : pc'[r] = pc[r] /\ cur'[r] = cur[r]
              /\ pc'[p] \in {"idle", "sendLock", "recvLock", "return", "timedLock", "stopping"}
          BY <1>0, <3>2 DEF Start, SendStart, RecvStart, CheckMessages, CheckInitMessages,
             TimedStart, StopFree, callVars, Shape
        <4> QED BY <4>1 DEF Found
      <3> QED BY <2>1, <3>1, <3>2
    <2>2. CASE SendStep(p)
      BY <1>0, <2>2 DEF SendStep, SendLock, SendMsg, SendChannel, SendSender, SendPublish,
         SendBlock, SendSignal, SendUnlock, SendDangling, Return, callVars, Shape,
         Found, SendSteps
    <2>3. CASE RecvStep(p)
      BY <1>0, <2>3 DEF RecvStep, RecvLock, RecvScan, Sleep, Wake, RecvTake, RecvSlideLock,
         RecvSlide, RecvUnlock, Return, callVars, Shape, Found
    <2>4. CASE CheckStep(p) \/ StopInactive(p)
      BY <1>0, <2>4 DEF CheckStep, TimedLock, TimedUnlock, TimedScan, CallReturn, Return,
         StopInactive, callVars, Shape, Found
    <2> QED BY <2>1, <2>2, <2>3, <2>4 DEF Step
  <1>4. RecvSlide(p) => pc'[p] \notin Found
    BY <1>0 DEF RecvSlide, Shape, Found
  <1> SUFFICES ASSUME NEW r \in Proc, pc'[r] \in Found, NEW i \in Filled(r)', i < cur'[r]
               PROVE  inbox'[r][i].sender # inbox'[r][cur'[r]].sender
    BY DEF OldestFound
  <1>5. CASE r = p /\ RecvScan(p)
    <2>1. inbox' = inbox /\ inboxWrite' = inboxWrite
      BY <1>5 DEF RecvScan, boxVars
    <2>2. i \in Filled(p)
      BY <1>5, <2>1 DEF Filled
    <2> QED BY <1>0, <1>5, <2>1, <2>2, ScanFindsOldest
  <1>6. CASE ~(r = p /\ RecvScan(p))
    <2>1. pc[r] \in Found /\ cur'[r] = cur[r] /\ ~(r = p /\ RecvSlide(p)) /\ cur[r] \in Filled(r)
      BY <1>1, <1>3, <1>6, <1>4
    <2>2. \A j \in Filled(r) : inbox'[r][j] = inbox[r][j]
      <3>1. CASE SendPublish(p)
        BY <3>1 DEF SendPublish
      <3>2. CASE RecvSlide(p)
        BY <1>0, <2>1, <3>2, SlideMoves
      <3>3. CASE ~SendPublish(p) /\ ~RecvSlide(p)
        BY <1>0, <3>3, OthersKeepInboxes DEF InboxKept, TypeInv
      <3> QED BY <3>1, <3>2, <3>3
    <2>3. i \in Filled(r)
      <3>1. i \in Nat /\ 1 <= i /\ i < cur[r] /\ cur[r] \in Filled(r)
        BY <1>6, <2>1 DEF Filled
      <3> QED BY <1>0, <3>1 DEF Filled, Shape
    <2> QED BY <1>2, <2>1, <2>2, <2>3
  <1> QED BY <1>5, <1>6

\* A new message is the newest of its sender; the one the slide takes out is the
\* oldest of its sender in the inbox.
LEMMA InOrderKept ==
  ASSUME TypeInv, Data, OldestFound, NEW q \in Proc, InOrder(q), NEW p \in Proc,
         Start(p) \/ Step(p) \/ TimeOut(p)
  PROVE  InOrder(q)'
  <1>0. Shape /\ Control /\ Contents /\ TypeOK
    BY TypeOKShape, TypeOKContents DEF TypeInv
  <1>1. CASE ~SendPublish(p) /\ ~RecvSlide(p)
    <2>1. InboxKept(q) /\ got' = got
      BY <1>0, <1>1, OthersKeepInboxes
    <2>2. Filled(q)' = Filled(q)
      BY <2>1 DEF InboxKept, Filled
    <2> QED BY <2>1, <2>2 DEF InOrder, InboxKept
  <1>2. CASE SendPublish(p)
    <2>1. /\ pc[p] = "sendPublish" /\ inboxWrite' = [inboxWrite EXCEPT ![peer[p]] = @ + 1]
          /\ inbox' = inbox /\ got' = got /\ fate = "run"
      BY <1>2 DEF SendPublish
    <2>2. CASE q # peer[p]
      <3>1. Filled(q)' = Filled(q)
        BY <1>0, <2>1, <2>2 DEF Filled, Shape
      <3> QED BY <2>1, <3>1 DEF InOrder
    <2>3. CASE q = peer[p]
      <3>a. PICK n \in 1 .. InboxSize : n = inboxWrite[q]
        BY <1>0, <2>1, <2>3 DEF Control, PointersInRange, Writing, Shape
      <3>1. Filled(q)' = Filled(q) \cup {n} /\ \A i \in Filled(q) : i < n /\ i \in Nat
        BY <1>0, <2>1, <2>3, <3>a DEF Filled, Shape
      <3>2. inbox[q][n].msg = <<p, seq[p]>>
        BY <2>1, <2>3, <3>a DEF Data, SlotsInUse, Writing
      <3>3. \A m \in Msgs(sent[q]) : Before(m, inbox[q][n].msg)
        <4>1. \A m \in Msgs(sent[q]) : m[1] = p => m[2] < seq[p]
          BY <2>1 DEF Data, PayloadsFresh, Writing
        <4> QED BY <3>2, <4>1 DEF Before
      <3>4. \A k \in DOMAIN got[q] : Before(got[q][k].msg, inbox[q][n].msg)
        <4>1. \A k \in DOMAIN got[q] : got[q][k].msg \in Msgs(sent[q])
          <5>1. \A m \in Msgs(got[q]) : m \in Msgs(sent[q])
            BY DEF Data, NothingLostOrDoubled
          <5>2. \A k \in DOMAIN got[q] : got[q][k].msg \in Msgs(got[q])
            BY DEF Msgs
          <5> QED BY <5>1, <5>2
        <4> QED BY <3>3, <4>1
      <3>5. \A i \in Filled(q) : Before(inbox[q][i].msg, inbox[q][n].msg)
        <4>1. \A i \in Filled(q) : inbox[q][i].msg \in Msgs(sent[q])
          BY DEF Data, NothingLostOrDoubled, Queued
        <4> QED BY <3>3, <4>1
      <3>6. /\ \A k, l \in DOMAIN got'[q] : k < l => Before(got'[q][k].msg, got'[q][l].msg)
            /\ \A k \in DOMAIN got'[q], i \in Filled(q)' : Before(got'[q][k].msg, inbox'[q][i].msg)
        BY <2>1, <3>1, <3>4 DEF InOrder
      <3>7. ASSUME NEW i \in Filled(q)', NEW j \in Filled(q)', i < j
            PROVE  Before(inbox[q][i].msg, inbox[q][j].msg)
        <4>1. i \in Filled(q)
          BY <3>1, <3>7
        <4> QED BY <3>1, <3>5, <3>7, <4>1 DEF InOrder
      <3> QED BY <2>1, <3>6, <3>7 DEF InOrder
    <2> QED BY <2>2, <2>3
  <1>3. CASE RecvSlide(p)
    <2>1. PICK c \in Filled(p) :
           /\ c = cur[p] /\ pc[p] = "recvSlide" /\ fate = "run"
           /\ got'[p] = Append(got[p], ret[p]) /\ ret[p].msg = inbox[p][c].msg
           /\ \A i \in Filled(p)' :
                LET k == IF i < c THEN i ELSE i + 1 IN
                k \in Filled(p) /\ i \in Nat /\ inbox'[p][i].msg = inbox[p][k].msg
           /\ \A r \in Proc \ {p} : /\ inbox'[r] = inbox[r] /\ got'[r] = got[r]
                                    /\ inboxWrite'[r] = inboxWrite[r]
      BY <1>0, <1>3, SlideMoves
    <2>2. CASE q # p
      <3>1. inbox'[q] = inbox[q] /\ got'[q] = got[q] /\ Filled(q)' = Filled(q)
        BY <2>1, <2>2 DEF Filled
      <3> QED BY <3>1 DEF InOrder
    <2>3. CASE q = p
      <3> DEFINE from(i) == IF i < c THEN i ELSE i + 1
                 m == inbox[q][c].msg
      <3>1. c \in Nat /\ \A i \in Filled(q)' :
              from(i) \in Filled(q) /\ i \in Nat /\ inbox'[q][i].msg = inbox[q][from(i)].msg
        BY <1>0, <2>1, <2>3 DEF Filled, Shape
      <3>2. \A i \in Filled(q)' : from(i) # c
        BY <3>1
      <3>3. \A i, j \in Filled(q)' : i < j => from(i) < from(j)
        BY <3>1
      <3>4. \A i \in Filled(q) : i < c => Before(m, inbox[q][i].msg)
        <4>1. \A i \in Filled(q) : i < c => inbox[q][i].sender # inbox[q][c].sender
          BY <2>1, <2>3 DEF OldestFound, Found
        <4>2. \A i \in Filled(q) : inbox[q][i].sender = inbox[q][i].msg[1]
          BY DEF Data, SenderKept
        <4> QED BY <2>1, <2>3, <4>1, <4>2 DEF Before
      <3>5. \A i \in Filled(q) : i # c => Before(m, inbox[q][i].msg)
        <4>1. \A i \in Filled(q) : c < i => Before(m, inbox[q][i].msg)
          BY <2>1, <2>3 DEF InOrder
        <4>2. \A i \in Filled(q) : i # c => i < c \/ c < i
          BY <1>0, <3>1 DEF Filled, Shape
        <4> QED BY <3>4, <4>1, <4>2
      <3>6. /\ DOMAIN got'[q] = DOMAIN got[q] \cup {Len(got[q]) + 1}
            /\ got'[q][Len(got[q]) + 1].msg = m
            /\ \A k \in DOMAIN got[q] : got'[q][k] = got[q][k] /\ k < Len(got[q]) + 1
        <4>1. got[q] \in Seq(Msg) /\ ret[q] \in Msg /\ got'[q] = Append(got[q], ret[q])
          BY <1>0, <2>1, <2>3 DEF Contents
        <4>2. \A k \in DOMAIN got[q] : k < Len(got[q]) + 1
          BY <4>1
        <4> QED BY <2>1, <2>3, <4>1, <4>2, Appended
      <3> HIDE DEF from, m
      <3>7. \A k \in DOMAIN got[q] : Before(got[q][k].msg, m)
        BY <2>1, <2>3 DEF InOrder, m
      <3>8. ASSUME NEW k \in DOMAIN got'[q], NEW l \in DOMAIN got'[q], k < l
            PROVE  Before(got'[q][k].msg, got'[q][l].msg)
        <4>1. got[q] \in Seq(Msg)
          BY <1>0 DEF Contents
        <4>2. k \in DOMAIN got[q]
          BY <3>6, <3>8, <4>1
        <4>3. CASE l \in DOMAIN got[q]
          BY <3>6, <3>8, <4>2, <4>3 DEF InOrder
        <4>4. CASE l = Len(got[q]) + 1
          BY <3>6, <3>7, <4>2, <4>4
        <4> QED BY <3>6, <4>3, <4>4
      <3>9. ASSUME NEW k \in DOMAIN got'[q], NEW i \in Filled(q)'
            PROVE  Before(got'[q][k].msg, inbox'[q][i].msg)
        <4>1. CASE k \in DOMAIN got[q]
          BY <3>1, <3>6, <4>1 DEF InOrder
        <4>2. CASE k = Len(got[q]) + 1
          BY <3>1, <3>2, <3>5, <3>6, <4>2
        <4> QED BY <3>6, <4>1, <4>2
      <3>10. \A i, j \in Filled(q)' : i < j => Before(inbox'[q][i].msg, inbox'[q][j].msg)
        BY <3>1, <3>3 DEF InOrder
      <3> QED BY <3>8, <3>9, <3>10 DEF InOrder
    <2> QED BY <2>2, <2>3
  <1> QED BY <1>1, <1>2, <1>3

LEMMA OrderSafety ==
  ASSUME NoChannelAsked
  PROVE  Spec => []OrderInv
  <1>1. ASSUME TypeInv, Data, OrderInv, [Next \/ Finished]_vars PROVE OrderInv'
    <2>1. CASE Finished \/ UNCHANGED vars
      <3>1. /\ \A r \in Proc : Filled(r)' = Filled(r)
            /\ UNCHANGED <<pc, chan, cur, inbox, fate, got>>
        BY <2>1 DEF Finished, vars, callVars, boxVars, history, Filled
      <3> QED BY <1>1, <3>1 DEF OrderInv, AskedForAny, OldestFound, InOrder
    <2>2. CASE Next
      <3>1. PICK p \in Proc : Start(p) \/ Step(p) \/ TimeOut(p)
        BY <2>2 DEF Next
      <3>2. AskedForAny'
        BY <1>1, <3>1, AskedKept DEF OrderInv, TypeInv
      <3>3. OldestFound'
        BY <1>1, <3>1, OldestKept DEF OrderInv
      <3>4. \A q \in Proc : InOrder(q)'
        BY <1>1, <3>1, InOrderKept DEF OrderInv
      <3> QED BY <3>2, <3>3, <3>4 DEF OrderInv
    <2> QED BY <1>1, <2>1, <2>2
  <1>2. TypeInv /\ Data /\ OrderInv /\ [Next \/ Finished]_vars => OrderInv'
    BY <1>1
  <1> QED BY <1>2, InitOrder, TypeCorrect, DataSafety, PTL DEF Spec

\* Messages of one sender are received in the order in which they were sent, for
\* any number of senders and however the receives choose among these, as long as
\* no call of idris_recvMessageFrom names a channel.
THEOREM OrderKept ==
  ASSUME NoChannelAsked
  PROVE  Spec => []PerSenderOrder
  <1>1. OrderInv => PerSenderOrder
    BY DEF OrderInv, InOrder, Before, PerSenderOrder
  <1> QED BY <1>1, OrderSafety, PTL

-----------------------------------------------------------------------------
(* The checks search without a lock, and further than the receives: up to    *)
(* the first slot that is NULL.  That is sound as long as no slot from        *)
(* inbox_write on holds an old message, and a receive from a full inbox       *)
(* leaves one there.                                                          *)

RoomLeft == \A q \in Proc : inboxWrite[q] <= InboxSize

\* Only a send that is filling its slot has a message behind the filled ones.
UnusedSlotsEmpty == \A q \in Proc : \A i \in inboxWrite[q] .. InboxSize :
  \/ inbox[q][i].msg = NoMsg
  \/ \E r \in Proc : i = inboxWrite[q] /\ peer[r] = q /\ pc[r] \in Writing \ {"sendMsg"}

IdleHasNothing == \A p \in Proc : pc[p] = "idle" => ret[p].msg = NoMsg

CheckInv == UnusedSlotsEmpty /\ IdleHasNothing /\ CheckedMessageIsThere

LEMMA InitCheck == Init => CheckInv
  <1> SUFFICES ASSUME Init PROVE CheckInv
    OBVIOUS
  <1>1. /\ \A q \in Proc, i \in 1 .. InboxSize : inbox[q][i].msg = NoMsg
        /\ \A q \in Proc : inboxWrite[q] = 1 /\ pc[q] = "idle" /\ ret[q].msg = NoMsg
    BY DEF Init, EmptySlot
  <1> QED BY <1>1 DEF CheckInv, UnusedSlotsEmpty, IdleHasNothing, CheckedMessageIsThere

LEMMA NoMsgNotReceived ==
  ASSUME Data, NEW p \in Proc
  PROVE  NoMsg \notin Msgs(got[p])
  <1>1. \A m \in Msgs(got[p]) : m \in Payload
    BY DEF Data, NothingLostOrDoubled, PayloadsFresh
  <1> QED BY <1>1, MsgAssumption DEF Payload

\* What a search of a check finds waits in the inbox, or is about to.
LEMMA SearchFindsWaiting ==
  ASSUME Shape, Data, Contents, UnusedSlotsEmpty, Running, NEW p \in Proc,
         NEW slots \in SUBSET Seen(p), Checked(p, slots)
  PROVE  ret'[p].msg \notin Msgs(got[p])
  <1>1. CASE ret' = [ret EXCEPT ![p] = EmptySlot]
    <2>1. ret'[p].msg = NoMsg
      BY <1>1 DEF Contents, EmptySlot
    <2> QED BY <2>1, NoMsgNotReceived
  <1>2. CASE \E i \in slots : IsFirst(i, slots) /\ ret' = [ret EXCEPT ![p] = inbox[p][i]]
    <2>1. PICK i \in slots : ret' = [ret EXCEPT ![p] = inbox[p][i]]
      BY <1>2
    <2>2. i \in 1 .. InboxSize /\ inbox[p][i].msg # NoMsg
      <3>1. i \in 1 .. InboxSize /\ \A j \in 1 .. i : inbox[p][j].msg # NoMsg
        BY <2>1 DEF Seen
      <3>2. i \in 1 .. i
        BY <3>1 DEF Shape
      <3> QED BY <3>1, <3>2
    <2>3. ret'[p].msg = inbox[p][i].msg
      BY <2>1 DEF Contents
    <2>4. CASE i \in Filled(p)
      BY <2>3, <2>4 DEF Data, NothingLostOrDoubled, Queued
    <2>5. CASE i \notin Filled(p)
      <3>1. i \in inboxWrite[p] .. InboxSize
        BY <2>2, <2>5 DEF Filled, Shape
      <3>2. PICK r \in Proc : i = inboxWrite[p] /\ peer[r] = p /\ pc[r] \in Writing \ {"sendMsg"}
        BY <2>2, <3>1 DEF UnusedSlotsEmpty
      <3>3. inbox[p][i].msg = <<r, seq[r]>>
        BY <3>2 DEF Data, SlotsInUse
      <3>4. \A m \in Msgs(sent[p]) : m # inbox[p][i].msg
        <4>1. \A m \in Msgs(sent[p]) : m[1] = r => m[2] < seq[r]
          BY <3>2 DEF Data, PayloadsFresh
        <4>2. seq[r] \in Nat /\ inbox[p][i].msg[1] = r /\ inbox[p][i].msg[2] = seq[r]
          BY <3>3 DEF Contents
        <4>3. ~(seq[r] < seq[r])
          BY <4>2
        <4> QED BY <4>1, <4>2, <4>3
      <3> QED BY <2>3, <3>4 DEF Data, NothingLostOrDoubled
    <2> QED BY <2>4, <2>5
  <1> QED BY <1>1, <1>2 DEF Checked

\* The slide clears the slot behind the last message, while there is one.
LEMMA SlideClears ==
  ASSUME Shape, Control, Contents, UnusedSlotsEmpty, RoomLeft, NEW p \in Proc, RecvSlide(p)
  PROVE  UnusedSlotsEmpty'
  <1>a. PICK n \in 1 .. InboxSize, c \in 1 .. InboxSize :
          n = inboxWrite[p] /\ c = cur[p] /\ c < n
    BY DEF RecvSlide, Control, PointersInRange, Found, RoomLeft, Shape
  <1>1. /\ pc[p] = "recvSlide" /\ inboxWrite' = [inboxWrite EXCEPT ![p] = n - 1]
        /\ pc' = [pc EXCEPT ![p] = "recvUnlock"] /\ peer' = peer
    BY <1>a DEF RecvSlide, callVars
  <1> SUFFICES ASSUME NEW q \in Proc, NEW i \in inboxWrite'[q] .. InboxSize, inbox'[q][i].msg # NoMsg
               PROVE  \E r \in Proc : i = inboxWrite'[q] /\ peer[r] = q /\ pc'[r] \in Writing \ {"sendMsg"}
    BY <1>1 DEF UnusedSlotsEmpty
  <1>2. CASE q = p
    <2>1. ASSUME NEW j \in n .. InboxSize PROVE inbox[p][j].msg = NoMsg
      <3>1. \A r \in Proc : pc[r] \in Writing => peer[r] # p
        <4>1. ASSUME NEW r \in Proc, pc[r] \in Writing PROVE peer[r] # p
          <5>1. r # p
            BY <1>1, <4>1 DEF Writing
          <5> QED BY <1>1, <4>1, <5>1, WritersApart
        <4> QED BY <4>1
      <3> QED BY <1>a, <2>1, <3>1 DEF UnusedSlotsEmpty
    <2>2. i \in n - 1 .. InboxSize /\ i \in 1 .. InboxSize
      BY <1>1, <1>2, <1>a DEF Shape
    <2>3. inbox'[p][i] = IF i = n THEN Cleared(inbox[p][i])
                         ELSE IF i = n - 1 THEN Moved(inbox[p][i], inbox[p][i + 1])
                         ELSE inbox[p][i]
      <3>1. inbox'[p][i] = CASE i = inboxWrite[p] -> Cleared(inbox[p][i])
                             [] Slides(p, i)      -> Moved(inbox[p][i], inbox[p][i + 1])
                             [] OTHER             -> inbox[p][i]
        BY <2>2 DEF RecvSlide, Contents
      <3>2. Slides(p, i) <=> c <= i /\ i < n /\ i < InboxSize
        BY <1>a DEF Slides
      <3>3. i # n => (Slides(p, i) <=> i = n - 1)
        BY <1>a, <2>2, <3>2 DEF Shape
      <3>4. CASE i = n
        <4>1. ~Slides(p, i) /\ i = inboxWrite[p]
          BY <1>a, <2>2, <3>2, <3>4 DEF Shape
        <4>2. inbox'[p][i] = Cleared(inbox[p][i])
          BY <3>1, <4>1
        <4> QED BY <3>4, <4>2
      <3>5. CASE i # n /\ i = n - 1
        <4>1. Slides(p, i) /\ i # inboxWrite[p]
          BY <1>a, <3>3, <3>5
        <4>2. inbox'[p][i] = Moved(inbox[p][i], inbox[p][i + 1])
          BY <3>1, <4>1
        <4> QED BY <3>5, <4>2
      <3>6. CASE i # n /\ i # n - 1
        <4>1. ~Slides(p, i) /\ i # inboxWrite[p]
          BY <1>a, <3>3, <3>6
        <4>2. inbox'[p][i] = inbox[p][i]
          BY <3>1, <4>1
        <4> QED BY <3>6, <4>2
      <3> QED BY <3>4, <3>5, <3>6
    <2>4. inbox[p][i] \in Msg /\ (i = n - 1 => inbox[p][i + 1] \in Msg /\ i + 1 = n)
      <3>1. inbox[p] \in [1 .. InboxSize -> Msg]
        BY DEF Contents
      <3>2. i = n - 1 => i + 1 = n /\ i + 1 \in 1 .. InboxSize
        BY <1>a, <2>2 DEF Shape
      <3> QED BY <2>2, <3>1, <3>2
    <2>5. CASE i = n
      <3>1. Cleared(inbox[p][i]).msg = NoMsg
        BY <2>4 DEF Cleared, Msg
      <3> QED BY <1>2, <2>3, <2>5, <3>1
    <2>6. CASE i = n - 1
      <3>1. Moved(inbox[p][i], inbox[p][i + 1]).msg = inbox[p][n].msg
        BY <2>4, <2>6, Fields
      <3>2. i # n /\ n \in n .. InboxSize
        BY <1>a, <2>6 DEF Shape
      <3> QED BY <1>2, <2>1, <2>3, <2>6, <3>1, <3>2
    <2>7. CASE i # n /\ i # n - 1
      <3>1. i \in n .. InboxSize
        BY <1>a, <2>2, <2>7 DEF Shape
      <3> QED BY <1>2, <2>1, <2>3, <2>7, <3>1
    <2> QED BY <2>5, <2>6, <2>7
  <1>3. CASE q # p
    <2>1. inbox'[q] = inbox[q] /\ inboxWrite'[q] = inboxWrite[q]
      BY <1>1, <1>3 DEF RecvSlide, Shape, Contents
    <2>2. PICK r \in Proc : i = inboxWrite[q] /\ peer[r] = q /\ pc[r] \in Writing \ {"sendMsg"}
      BY <2>1 DEF UnusedSlotsEmpty
    <2>3. r # p
      BY <1>1, <2>2 DEF Writing
    <2> QED BY <1>1, <2>1, <2>2, <2>3 DEF Shape
  <1> QED BY <1>2, <1>3

LEMMA UnusedKept ==
  ASSUME TypeInv, Data, UnusedSlotsEmpty, RoomLeft, NEW p \in Proc,
         Start(p) \/ Step(p) \/ TimeOut(p)
  PROVE  UnusedSlotsEmpty'
  <1>0. Shape /\ Control /\ Contents /\ TypeOK
    BY TypeOKShape, TypeOKContents DEF TypeInv
  <1>1. CASE SendMsg(p) \/ SendChannel(p) \/ SendSender(p)
    <2>1. /\ pc[p] \in {"sendMsg", "sendChannel", "sendSender"} /\ fate = "run"
          /\ \E slot : inbox' = [inbox EXCEPT ![peer[p]][inboxWrite[peer[p]]] = slot]
          /\ \E to \in {"sendChannel", "sendSender", "sendPublish"} : pc' = [pc EXCEPT ![p] = to]
          /\ peer' = peer /\ inboxWrite' = inboxWrite
      BY <1>1 DEF SendMsg, SendChannel, SendSender, callVars
    <2>2. /\ \A r \in Proc \ {p} : pc'[r] = pc[r]
          /\ pc'[p] \in Writing \ {"sendMsg"} /\ peer[p] \in Proc
      <3>1. peer[p] \in Proc
        BY <1>0, <2>1 DEF Control, NobodySendsToItself, SendSteps
      <3> QED BY <1>0, <2>1, <3>1 DEF Shape, Writing
    <2> SUFFICES ASSUME NEW q \in Proc, NEW i \in inboxWrite[q] .. InboxSize, inbox'[q][i].msg # NoMsg
                 PROVE  \E r \in Proc : i = inboxWrite[q] /\ peer[r] = q /\ pc'[r] \in Writing \ {"sendMsg"}
      BY <2>1 DEF UnusedSlotsEmpty
    <2>3. CASE q = peer[p] /\ i = inboxWrite[q]
      BY <2>2, <2>3
    <2>4. CASE ~(q = peer[p] /\ i = inboxWrite[q])
      <3>1. inbox'[q][i] = inbox[q][i]
        BY <1>0, <2>1, <2>2, <2>4 DEF Contents
      <3>2. PICK r \in Proc : i = inboxWrite[q] /\ peer[r] = q /\ pc[r] \in Writing \ {"sendMsg"}
        BY <3>1 DEF UnusedSlotsEmpty
      <3> QED BY <2>2, <2>4, <3>2
    <2> QED BY <2>3, <2>4
  <1>2. CASE SendPublish(p)
    <2>1. /\ pc[p] = "sendPublish" /\ pc' = [pc EXCEPT ![p] = "sendBlock"] /\ fate = "run"
          /\ inboxWrite' = [inboxWrite EXCEPT ![peer[p]] = @ + 1]
          /\ inbox' = inbox /\ peer' = peer
      BY <1>2 DEF SendPublish, callVars
    <2> SUFFICES ASSUME NEW q \in Proc, NEW i \in inboxWrite'[q] .. InboxSize, inbox[q][i].msg # NoMsg
                 PROVE  \E r \in Proc : i = inboxWrite'[q] /\ peer[r] = q /\ pc'[r] \in Writing \ {"sendMsg"}
      BY <2>1 DEF UnusedSlotsEmpty
    <2>2. /\ q = peer[p] => inboxWrite'[q] = inboxWrite[q] + 1
          /\ q # peer[p] => inboxWrite'[q] = inboxWrite[q]
          /\ inboxWrite[q] \in Nat /\ i \in inboxWrite[q] .. InboxSize
      BY <1>0, <2>1 DEF Shape
    <2>3. PICK r \in Proc : i = inboxWrite[q] /\ peer[r] = q /\ pc[r] \in Writing \ {"sendMsg"}
      BY <2>2 DEF UnusedSlotsEmpty
    <2>4. q # peer[p]
      BY <2>2, <2>3
    <2>5. r # p /\ pc'[r] = pc[r]
      BY <1>0, <2>1, <2>3, <2>4 DEF Shape
    <2> QED BY <2>2, <2>3, <2>4, <2>5
  <1>3. CASE RecvSlide(p)
    BY <1>0, <1>3, SlideClears
  <1>4. CASE ~(SendMsg(p) \/ SendChannel(p) \/ SendSender(p) \/ SendPublish(p) \/ RecvSlide(p))
    <2>1. inbox' = inbox /\ inboxWrite' = inboxWrite
      <3>1. CASE Start(p) \/ TimeOut(p)
        BY <3>1 DEF Start, SendStart, RecvStart, CheckMessages, CheckInitMessages, TimedStart,
           StopFree, TimeOut, boxVars
      <3>2. CASE SendStep(p)
        BY <1>4, <3>2 DEF SendStep, SendLock, SendBlock, SendSignal, SendUnlock, SendDangling, boxVars
      <3>3. CASE RecvStep(p)
        BY <1>4, <3>3 DEF RecvStep, RecvLock, RecvScan, Sleep, Wake, RecvTake, RecvSlideLock,
           RecvUnlock, boxVars
      <3>4. CASE CheckStep(p) \/ StopInactive(p)
        BY <3>4 DEF CheckStep, TimedLock, TimedUnlock, TimedScan, CallReturn, StopInactive, boxVars
      <3> QED BY <3>1, <3>2, <3>3, <3>4 DEF Step
    <2>2. \A r \in Proc : pc[r] \in Writing \ {"sendMsg"} => pc'[r] = pc[r] /\ peer'[r] = peer[r]
      <3>1. CASE Start(p)
        BY <1>0, <3>1 DEF Start, SendStart, RecvStart, CheckMessages, CheckInitMessages, TimedStart,
           StopFree, callVars, Shape, Writing
      <3>2. CASE TimeOut(p)
        BY <3>2 DEF TimeOut, callVars
      <3>3. CASE SendStep(p)
        BY <1>0, <1>4, <3>3 DEF SendStep, SendLock, SendBlock, SendSignal, SendUnlock, SendDangling,
           Return, callVars, Shape, Writing
      <3>4. CASE RecvStep(p)
        BY <1>0, <1>4, <3>4 DEF RecvStep, RecvLock, RecvScan, Sleep, Wake, RecvTake, RecvSlideLock,
           RecvUnlock, Return, callVars, Shape, Writing
      <3>5. CASE CheckStep(p) \/ StopInactive(p)
        BY <1>0, <3>5 DEF CheckStep, TimedLock, TimedUnlock, TimedScan, CallReturn, StopInactive,
           Return, callVars, Shape, Writing
      <3> QED BY <3>1, <3>2, <3>3, <3>4, <3>5 DEF Step
    <2> QED BY <2>1, <2>2 DEF UnusedSlotsEmpty
  <1> QED BY <1>1, <1>2, <1>3, <1>4

\* A check finds what waits, and only the owner itself could take it away.
LEMMA CheckedKept ==
  ASSUME TypeInv, Data, UnusedSlotsEmpty, IdleHasNothing, CheckedMessageIsThere,
         NEW p \in Proc, Start(p) \/ Step(p) \/ TimeOut(p)
  PROVE  IdleHasNothing' /\ CheckedMessageIsThere'
  <1>0. Shape /\ Control /\ Contents /\ TypeOK /\ "idle" # "return"
    BY TypeOKShape, TypeOKContents DEF TypeInv
  <1>1. \A r \in Proc \ {p} : pc'[r] = pc[r] /\ ret'[r] = ret[r]
    <2>1. CASE Start(p) \/ TimeOut(p)
      BY <1>0, <2>1 DEF Start, SendStart, RecvStart, CheckMessages, CheckInitMessages, TimedStart,
         StopFree, TimeOut, Checked, callVars, Shape, Contents
    <2>2. CASE SendStep(p)
      BY <1>0, <2>2 DEF SendStep, SendLock, SendMsg, SendChannel, SendSender, SendPublish,
         SendBlock, SendSignal, SendUnlock, SendDangling, Return, callVars, Shape, Contents
    <2>3. CASE RecvStep(p)
      BY <1>0, <2>3 DEF RecvStep, RecvLock, RecvScan, Sleep, Wake, RecvTake, RecvSlideLock,
         RecvSlide, RecvUnlock, Return, callVars, Shape, Contents
    <2>4. CASE CheckStep(p) \/ StopInactive(p)
      BY <1>0, <2>4 DEF CheckStep, TimedLock, TimedUnlock, TimedScan, CallReturn, Return,
         StopInactive, Checked, callVars, Shape, Contents
    <2> QED BY <2>1, <2>2, <2>3, <2>4 DEF Step
  <1>2. \A r \in Proc : ~(r = p /\ RecvSlide(p)) => got'[r] = got[r]
    <2>1. RecvSlide(p) => \A r \in Proc \ {p} : got'[r] = got[r]
      BY <1>0 DEF RecvSlide, Contents
    <2>2. SendPublish(p) => got' = got
      BY DEF SendPublish
    <2> QED BY <1>0, <2>1, <2>2, OthersKeepInboxes
  <1>3. /\ pc'[p] = "idle" => ret'[p].msg = NoMsg
        /\ pc'[p] = "return" => ret'[p].msg \notin Msgs(got[p]) /\ ~RecvSlide(p)
    <2>1. CASE SendUnlock(p) \/ RecvUnlock(p) \/ CallReturn(p)
      BY <1>0, <2>1 DEF SendUnlock, RecvUnlock, CallReturn, Return, EmptySlot, Shape, Contents
    <2>2. CASE TimeOut(p) \/ SendDangling(p)
      BY <1>0, <2>2 DEF TimeOut, SendDangling, callVars, IdleHasNothing, CheckedMessageIsThere, RecvSlide,
         Shape
    <2>3. CASE \E q \in Proc, c \in {call[3] : call \in SendCalls} : SendStart(p, q, c)
      <3>1. pc[p] = "idle" /\ ret' = ret /\ pc'[p] \in {"idle", "sendLock"}
        BY <1>0, <2>3 DEF SendStart, Shape
      <3> QED BY <3>1 DEF IdleHasNothing
    <2>4. CASE \E t \in Proc \cup {NoProc}, c \in {call[3] : call \in RecvCalls} : RecvStart(p, t, c)
      <3>1. pc[p] = "idle" /\ ret' = ret /\ pc'[p] \in {"return", "recvLock"}
        BY <1>0, <2>4 DEF RecvStart, Shape
      <3>2. ret'[p].msg = NoMsg
        BY <3>1 DEF IdleHasNothing
      <3> QED BY <1>0, <3>1, <3>2, NoMsgNotReceived DEF RecvSlide
    <2>5. CASE \/ \E t \in Proc \cup {NoProc}, c \in {call[3] : call \in RecvCalls} : CheckMessages(p, t, c)
               \/ CheckInitMessages(p) \/ TimedStart(p) \/ TimedScan(p)
      <3>1. \E slots \in SUBSET Seen(p) : Checked(p, slots)
        <4>1. \A t, c : MatchesIn(Seen(p), p, t, c) \in SUBSET Seen(p)
          BY DEF MatchesIn
        <4>2. OpeningIn(p) \in SUBSET Seen(p) /\ Seen(p) \in SUBSET Seen(p)
          BY DEF OpeningIn
        <4> QED BY <2>5, <4>1, <4>2 DEF CheckMessages, CheckInitMessages, TimedStart, TimedScan
      <3>2. Running /\ pc'[p] # "idle" /\ pc[p] \in {"idle", "timedScan"}
        BY <1>0, <2>5 DEF CheckMessages, CheckInitMessages, TimedStart, TimedScan, Shape
      <3>3. ret'[p].msg \notin Msgs(got[p])
        BY <1>0, <3>1, <3>2, SearchFindsWaiting
      <3> QED BY <3>2, <3>3 DEF RecvSlide
    <2>6. CASE StopFree(p) \/ StopInactive(p)
      BY <1>0, <2>6 DEF StopFree, StopInactive, Shape
    <2>7. CASE SendStep(p) /\ ~SendUnlock(p) /\ ~SendDangling(p)
      BY <1>0, <2>7 DEF SendStep, SendLock, SendMsg, SendChannel, SendSender, SendPublish,
         SendBlock, SendSignal, Shape
    <2>8. CASE RecvStep(p) /\ ~RecvUnlock(p)
      BY <1>0, <2>8 DEF RecvStep, RecvLock, RecvScan, Sleep, Wake, RecvTake, RecvSlideLock,
         RecvSlide, Shape
    <2>9. CASE TimedLock(p) \/ TimedUnlock(p)
      BY <1>0, <2>9 DEF TimedLock, TimedUnlock, Shape
    <2> QED BY <2>1, <2>2, <2>3, <2>4, <2>5, <2>6, <2>7, <2>8, <2>9
            DEF Start, Step, CheckStep
  <1>4. IdleHasNothing'
    BY <1>1, <1>3 DEF IdleHasNothing
  <1>5. CheckedMessageIsThere'
    <2> SUFFICES ASSUME NEW r \in Proc, pc'[r] = "return" PROVE ret'[r].msg \notin Msgs(got'[r])
      BY DEF CheckedMessageIsThere, Msgs
    <2>1. CASE r = p
      <3>1. got'[p] = got[p]
        BY <1>2, <1>3, <2>1
      <3> QED BY <1>3, <2>1, <3>1
    <2>2. CASE r # p
      BY <1>1, <1>2, <2>2 DEF CheckedMessageIsThere
    <2> QED BY <2>1, <2>2
  <1> QED BY <1>4, <1>5

\* What one of the checks reports was not received before, though its search
\* takes no lock: a program that receives after a successful check finds a
\* message.  It needs an inbox that is never full; the receive from a full one
\* leaves the last message in its slot as well.
THEOREM CheckedSafety == Spec /\ []RoomLeft => []CheckedMessageIsThere
  <1>1. ASSUME TypeInv, Data, RoomLeft, CheckInv, [Next \/ Finished]_vars PROVE CheckInv'
    <2>1. CASE Finished \/ UNCHANGED vars
      BY <1>1, <2>1 DEF Finished, vars, callVars, boxVars, history, CheckInv, UnusedSlotsEmpty,
         IdleHasNothing, CheckedMessageIsThere, Msgs
    <2>2. CASE Next
      <3>1. PICK p \in Proc : Start(p) \/ Step(p) \/ TimeOut(p)
        BY <2>2 DEF Next
      <3> QED BY <1>1, <3>1, UnusedKept, CheckedKept DEF CheckInv
    <2> QED BY <1>1, <2>1, <2>2
  <1>2. TypeInv /\ Data /\ RoomLeft /\ CheckInv /\ [Next \/ Finished]_vars => CheckInv'
    BY <1>1
  <1>3. CheckInv => CheckedMessageIsThere
    BY DEF CheckInv
  <1> QED BY <1>2, <1>3, InitCheck, TypeCorrect, DataSafety, PTL DEF Spec

\* The senders of the messages of an inbox are the other VMs.
FromOthers == \A q \in Proc : \A m \in Msgs(sent[q]) : m[1] # q /\ 1 <= m[2]

LEMMA FromOthersSafety == Spec => []FromOthers
  <1>1. Init => FromOthers
    <2> SUFFICES ASSUME Init PROVE FromOthers
      OBVIOUS
    <2>1. \A q \in Proc : DOMAIN sent[q] = {}
      BY DEF Init
    <2> QED BY <2>1 DEF FromOthers, Msgs
  <1>2. ASSUME TypeInv, Numbered, FromOthers, [Next \/ Finished]_vars PROVE FromOthers'
    <2>0. Shape /\ Control /\ Contents /\ TypeOK /\ chan \in [Proc -> Nat]
      BY <1>2, TypeOKShape, TypeOKContents DEF TypeInv, TypeOK
    <2>1. CASE Finished \/ UNCHANGED vars
      BY <1>2, <2>1 DEF Finished, vars, history, FromOthers, Msgs
    <2>2. CASE Next
      <3>1. PICK p \in Proc : Start(p) \/ Step(p) \/ TimeOut(p)
        BY <2>2 DEF Next
      <3>2. CASE SendPublish(p)
        <4>a. PICK q \in Proc : q = peer[p] /\ q # p
          BY <2>0, <3>2 DEF SendPublish, Control, NobodySendsToItself, SendSteps
        <4>b. PICK x : x = [sender |-> p, channel |-> chan[p], msg |-> <<p, seq[p]>>]
          OBVIOUS
        <4>1. sent' = [sent EXCEPT ![q] = Append(sent[q], x)] /\ pc[p] = "sendPublish"
          BY <4>a, <4>b, <3>2 DEF SendPublish
        <4>2. x \in Msg /\ x.msg[1] = p /\ x.msg[2] = seq[p]
          BY <2>0, <4>b DEF Msg, Payload, Contents
        <4>3. Msgs(sent'[q]) = Msgs(sent[q]) \cup {x.msg}
          BY <2>0, <4>1, <4>2, Appended DEF Contents
        <4>4. \A r \in Proc \ {q} : sent'[r] = sent[r]
          BY <2>0, <4>1 DEF Contents
        <4>5. 1 <= seq[p]
          BY <1>2, <4>1 DEF Numbered, SendSteps
        <4> QED BY <1>2, <4>a, <4>2, <4>3, <4>4, <4>5 DEF FromOthers
      <3>3. CASE RecvSlide(p)
        BY <1>2, <3>3 DEF RecvSlide, FromOthers, Msgs
      <3>4. CASE ~SendPublish(p) /\ ~RecvSlide(p)
        <4>1. sent' = sent
          BY <2>0, <3>1, <3>4, OthersKeepInboxes
        <4> QED BY <1>2, <4>1 DEF FromOthers, Msgs
      <3> QED BY <3>2, <3>3, <3>4
    <2> QED BY <1>2, <2>1, <2>2
  <1>3. TypeInv /\ Numbered /\ FromOthers /\ [Next \/ Finished]_vars => FromOthers'
    BY <1>2
  <1> QED BY <1>1, <1>3, TypeCorrect, NumberedSafety, PTL DEF Spec

\* The other VMs cannot fill an inbox that is larger than the number of messages
\* they send altogether.
LEMMA RoomByCounting ==
  ASSUME IsFiniteSet(Proc), (Cardinality(Proc) - 1) * MaxSends < InboxSize
  PROVE  Spec => []RoomLeft
  <1>1. ASSUME Shape, Data, Numbered, FromOthers, Contents PROVE RoomLeft
    <2> SUFFICES ASSUME NEW q \in Proc PROVE inboxWrite[q] <= InboxSize
      BY DEF RoomLeft
    <2> DEFINE n == inboxWrite[q]
               T == (Proc \ {q}) \X (1 .. MaxSends)
               f == [i \in Filled(q) |-> inbox[q][i].msg]
    <2>1. n \in 1 .. InboxSize + 1 /\ Filled(q) = 1 .. n - 1 /\ InboxSize \in Nat
      BY <1>1 DEF Filled, Shape
    <2>2. IsFiniteSet(Filled(q)) /\ Cardinality(Filled(q)) = n - 1
      <3>1. n - 1 \in Int /\ n - 1 >= 0
        BY <2>1
      <3> HIDE DEF n
      <3>2. /\ IsFiniteSet(1 .. n - 1)
            /\ Cardinality(1 .. n - 1) = IF 1 > n - 1 THEN 0 ELSE n - 1 - 1 + 1
        BY <3>1, FS_Interval
      <3>3. Cardinality(1 .. n - 1) = n - 1
        BY <3>1, <3>2
      <3> QED BY <2>1, <3>2, <3>3
    <2>3. IsFiniteSet(T) /\ Cardinality(T) = (Cardinality(Proc) - 1) * MaxSends
      <3>1. IsFiniteSet(Proc \ {q}) /\ Cardinality(Proc \ {q}) = Cardinality(Proc) - 1
        BY FS_RemoveElement
      <3>2. IsFiniteSet(1 .. MaxSends) /\ Cardinality(1 .. MaxSends) = MaxSends
        <4>1. /\ IsFiniteSet(1 .. MaxSends)
              /\ Cardinality(1 .. MaxSends) = IF 1 > MaxSends THEN 0 ELSE MaxSends - 1 + 1
          BY FS_Interval, BoundAssumption
        <4> QED BY <4>1, BoundAssumption
      <3>3. /\ IsFiniteSet(T)
            /\ Cardinality(T) = Cardinality(Proc \ {q}) * Cardinality(1 .. MaxSends)
        BY <3>1, <3>2, FS_Product
      <3> HIDE DEF T
      <3> QED BY <3>1, <3>2, <3>3
    <2>4. f \in [Filled(q) -> T]
      <3>1. ASSUME NEW i \in Filled(q) PROVE inbox[q][i].msg \in T
        <4>1. inbox[q][i].msg \in Msgs(sent[q])
          BY <1>1 DEF Data, NothingLostOrDoubled, Queued
        <4>2. PICK m : m = inbox[q][i].msg
          OBVIOUS
        <4>3. m \in Payload /\ m[2] <= seq[m[1]] /\ m[1] # q /\ 1 <= m[2]
          BY <1>1, <4>1, <4>2 DEF Data, PayloadsFresh, FromOthers
        <4>4. m[1] \in Proc /\ m[2] \in Nat /\ m = <<m[1], m[2]>>
          BY <4>3 DEF Payload
        <4>5. seq[m[1]] <= MaxSends /\ seq[m[1]] \in Nat
          BY <1>1, <4>4 DEF Numbered, Contents
        <4>6. m[2] \in 1 .. MaxSends
          BY <4>3, <4>4, <4>5, BoundAssumption
        <4> QED BY <4>2, <4>3, <4>4, <4>6
      <3> QED BY <3>1
    <2>5. \A i, j \in Filled(q) : f[i] = f[j] => i = j
      BY <1>1 DEF Data, NothingLostOrDoubled
    <2>6. ~(Cardinality(T) < Cardinality(Filled(q)))
      <3> HIDE DEF f, T
      <3> QED BY <2>2, <2>3, <2>4, <2>5, FS_PigeonHole
    <2>7. Cardinality(T) < InboxSize /\ Cardinality(T) \in Int
      <3>1. Cardinality(Proc) \in Nat
        BY FS_CardinalityType
      <3> HIDE DEF T
      <3>2. Cardinality(T) \in Nat
        BY <2>3, FS_CardinalityType
      <3> QED BY <2>3, <3>2
    <2> HIDE DEF T
    <2> QED BY <2>1, <2>2, <2>6, <2>7
  <1>2. TypeInv /\ Data /\ Numbered /\ FromOthers => RoomLeft
    BY <1>1, TypeOKShape, TypeOKContents DEF TypeInv
  <1> QED BY <1>2, TypeCorrect, DataSafety, NumberedSafety, FromOthersSafety, PTL

\* In particular a check tells the truth in every program whose VMs send fewer
\* messages altogether than an inbox has slots.
THEOREM CheckedInBound ==
  ASSUME IsFiniteSet(Proc), (Cardinality(Proc) - 1) * MaxSends < InboxSize
  PROVE  Spec => []CheckedMessageIsThere
  BY RoomByCounting, CheckedSafety, PTL

=============================================================================
