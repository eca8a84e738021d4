--------------------------- MODULE MessagePassing ---------------------------
(***************************************************************************)
(* Message passing between the virtual machines of the Idris run time      *)
(* system (idris-1.3.3/rts/idris_rts.c, lines 133-157 and 924-1123).       *)
(*                                                                         *)
(* A process is one VM run by one pthread.  Every VM owns an inbox: an     *)
(* array of slots filled from the bottom.  Any process may append to the   *)
(* inbox of another one, under that inbox's inbox_lock; only the owner     *)
(* removes, and it searches the inbox holding inbox_block, the mutex of    *)
(* the condition variable inbox_waiting, instead.  The two locks protect   *)
(* different things, and the searches of the idris_checkMessages family    *)
(* take neither.                                                           *)
(*                                                                         *)
(* One action is one stretch of code between two points where another      *)
(* thread can observe or change what it uses.  The stores that fill a slot *)
(* are separate actions, in program order (the order in which x86 makes    *)
(* them visible).  Copying the message into the receiver's heap is one     *)
(* step here, because nothing of the inbox depends on how it is done.      *)
(***************************************************************************)
EXTENDS Integers, Sequences

CONSTANTS
  Proc,         \* the VMs, all of them forked
  NoProc,       \* the NULL VM pointer
  NoMsg,        \* the NULL message pointer
  InboxSize,    \* slots of an inbox (1024 in init_vm)
  SendCalls,    \* calls <<sender, dest, channel_id>> of idris_sendMessage
  RecvCalls,    \* calls <<vm, sender or NoProc, channel_id>> of idris_recvMessageFrom
  CheckCalls,   \* calls <<vm, kind>> of the idris_checkMessages family
  MayStop,      \* VMs that may return from their main function or call stopThread
  Junk,         \* what an uninitialised channel_id may read as
  MaxSends      \* bound: sends one VM starts

CheckKinds == {"from", "init", "timeout"}

ASSUME ProcAssumption     == NoProc \notin Proc
ASSUME MsgAssumption      == NoMsg \notin Proc \X Nat
ASSUME SizeAssumption     == InboxSize \in Nat \ {0}
ASSUME SendCallsAssumption ==
  /\ SendCalls \subseteq Proc \X Proc \X Nat
  /\ \A call \in SendCalls : call[1] # call[2]
ASSUME RecvCallsAssumption ==
  /\ RecvCalls \subseteq Proc \X (Proc \cup {NoProc}) \X Nat
  /\ \A call \in RecvCalls : call[1] # call[2]
ASSUME CheckCallsAssumption == CheckCalls \subseteq Proc \X CheckKinds
ASSUME StopAssumption     == MayStop \subseteq Proc
ASSUME JunkAssumption     == Junk \subseteq Nat /\ Junk # {}
ASSUME BoundAssumption    == MaxSends \in Nat

VARIABLES
  pc,           \* where each thread is
  peer,         \* the dest of a send, the sender asked for by a receive
  chan,         \* the channel_id argument, as the send goes on the stored one
  cur,          \* the msg pointer of a receive: a slot
  ret,          \* the Msg a receive or a check hands back
  seq,          \* sends started by each VM; <<p, seq[p]>> names the payload
  active,       \* vm->active
  freed,        \* TRUE once terminate released the VM's memory and mutexes
  inbox,        \* vm->inbox
  inboxWrite,   \* vm->inbox_write: the slot the next message goes to
  nextId,       \* vm->inbox_nextid
  inboxLock,    \* holder of vm->inbox_lock
  inboxBlock,   \* holder of vm->inbox_block
  sleeping,     \* VMs blocked on their inbox_waiting and not woken yet
  fate,         \* "run", "exit" (inbox full) or "dangling" (use of a freed VM)
  sent,         \* history: what was published to each inbox, in order
  got           \* history: what each VM received, in order

callVars == <<peer, chan, cur, ret, seq>>
vmVars   == <<active, freed>>
boxVars  == <<inbox, inboxWrite, nextId>>
lockVars == <<inboxLock, inboxBlock, sleeping>>
history  == <<sent, got>>
vars     == <<pc, callVars, vmVars, boxVars, lockVars, fate, history>>

-----------------------------------------------------------------------------
(* Msg_t, and the ids of payloads *)

Payload == Proc \X Nat

Msg == [sender: Proc \cup {NoProc}, channel: Nat, msg: Payload \cup {NoMsg}]

EmptySlot == [sender |-> NoProc, channel |-> 0, msg |-> NoMsg]

\* A channel id is stored shifted left by one; the lowest bit marks the
\* message that opens the channel.
OpeningId(n) == 1 + 2 * n
PlainId(n)   == 2 * n
ChannelOf(id) == id \div 2
IsOpening(id) == id % 2 = 1

\* The test both search loops make of a slot; 0 and NULL accept anything.
Matches(slot, s, c) ==
  /\ s = NoProc \/ slot.sender = s
  /\ c = 0 \/ c = ChannelOf(slot.channel)

\* The slots below inbox_write, which idris_getMessageFrom searches.
Filled(q) == 1 .. inboxWrite[q] - 1

\* The slots below the first NULL one, which the checks search.
Seen(q) == {i \in 1 .. InboxSize : \A j \in 1 .. i : inbox[q][j].msg # NoMsg}

MatchesIn(slots, q, s, c) == {i \in slots : Matches(inbox[q][i], s, c)}

IsLast(i, S)  == \A j \in S : i >= j
IsFirst(i, S) == \A j \in S : i <= j

-----------------------------------------------------------------------------
(* Threads *)

SendSteps == {"sendLock", "sendMsg", "sendChannel", "sendSender", "sendPublish",
              "sendBlock", "sendSignal", "sendUnlock"}
RecvSteps == {"recvLock", "recvScan", "recvSleep", "recvAsleep", "recvTake",
              "recvSlideLock", "recvSlide", "recvUnlock"}
CheckSteps == {"timedLock", "timedSleep", "timedAsleep", "timedUnlock",
               "timedScan"}
\* "return": the call is over and its result is in ret.
PC == {"idle", "return", "stopping", "stopped"} \cup SendSteps \cup RecvSteps
        \cup CheckSteps

\* exit(-1) ends every thread; after a use of freed memory nothing is defined.
Running == fate = "run"

At(p, step) == Running /\ pc[p] = step

Goto(p, from, to) == At(p, from) /\ pc' = [pc EXCEPT ![p] = to]

\* The call returns and its local variables are gone.
Return(p, from) ==
  /\ Goto(p, from, "idle")
  /\ peer' = [peer EXCEPT ![p] = NoProc]
  /\ chan' = [chan EXCEPT ![p] = 0]
  /\ cur' = [cur EXCEPT ![p] = 1]
  /\ ret' = [ret EXCEPT ![p] = EmptySlot]
  /\ UNCHANGED seq

Acquire(lock, q, p) == lock[q] = NoProc /\ lock' = [lock EXCEPT ![q] = p]
Release(lock, q)    == lock' = [lock EXCEPT ![q] = NoProc]

Init ==
  /\ pc = [p \in Proc |-> "idle"]
  /\ peer = [p \in Proc |-> NoProc]
  /\ chan = [p \in Proc |-> 0]
  /\ cur = [p \in Proc |-> 1]
  /\ ret = [p \in Proc |-> EmptySlot]
  /\ seq = [p \in Proc |-> 0]
  /\ active = [p \in Proc |-> TRUE]
  /\ freed = [p \in Proc |-> FALSE]
  /\ inbox = [p \in Proc |-> [i \in 1 .. InboxSize |-> EmptySlot]]
  /\ inboxWrite = [p \in Proc |-> 1]
  /\ nextId = [p \in Proc |-> 1]
  /\ inboxLock = [p \in Proc |-> NoProc]
  /\ inboxBlock = [p \in Proc |-> NoProc]
  /\ sleeping = {}
  /\ fate = "run"
  /\ sent = [p \in Proc |-> <<>>]
  /\ got = [p \in Proc |-> <<>>]

-----------------------------------------------------------------------------
(* idris_sendMessage(sender, channel_id, dest, msg) *)

\* A dest that is no longer active makes the call return 0 at once; otherwise
\* the message is copied into its heap.
SendStart(p, q, c) ==
  /\ <<p, q, c>> \in SendCalls /\ At(p, "idle") /\ seq[p] < MaxSends
  /\ seq' = [seq EXCEPT ![p] = @ + 1]
  /\ IF active[q]
       THEN /\ pc' = [pc EXCEPT ![p] = "sendLock"]
            /\ peer' = [peer EXCEPT ![p] = q]
            /\ chan' = [chan EXCEPT ![p] = c]
       ELSE UNCHANGED <<pc, peer, chan>>
  /\ UNCHANGED <<cur, ret, vmVars, boxVars, lockVars, fate, history>>

NeverFull(q) == FALSE
InboxFull(q) == inboxWrite[q] > InboxSize

\* Take inbox_lock; a full inbox ends the whole program.
SendLock(p) ==
  /\ Goto(p, "sendLock", "sendMsg") /\ ~freed[peer[p]]
  /\ Acquire(inboxLock, peer[p], p)
  /\ fate' = IF InboxFull(peer[p]) THEN "exit" ELSE "run"
  /\ UNCHANGED <<callVars, vmVars, boxVars, inboxBlock, sleeping, history>>

\* The three fields of the slot at inbox_write, one after the other.
SendMsg(p) ==
  /\ Goto(p, "sendMsg", "sendChannel") /\ ~freed[peer[p]]
  /\ inbox' = [inbox EXCEPT ![peer[p]][inboxWrite[peer[p]]].msg = <<p, seq[p]>>]
  /\ UNCHANGED <<callVars, vmVars, inboxWrite, nextId, lockVars, fate, history>>

SendChannel(p) ==
  /\ Goto(p, "sendChannel", "sendSender") /\ ~freed[peer[p]]
  /\ IF chan[p] = 0
       THEN /\ chan' = [chan EXCEPT ![p] = OpeningId(nextId[peer[p]])]
            /\ nextId' = [nextId EXCEPT ![peer[p]] = @ + 1]
       ELSE /\ chan' = [chan EXCEPT ![p] = PlainId(@)]
            /\ UNCHANGED nextId
  /\ inbox' = [inbox EXCEPT ![peer[p]][inboxWrite[peer[p]]].channel = chan'[p]]
  /\ UNCHANGED <<peer, cur, ret, seq, vmVars, inboxWrite, lockVars, fate, history>>

SendSender(p) ==
  /\ Goto(p, "sendSender", "sendPublish") /\ ~freed[peer[p]]
  /\ inbox' = [inbox EXCEPT ![peer[p]][inboxWrite[peer[p]]].sender = p]
  /\ UNCHANGED <<callVars, vmVars, inboxWrite, nextId, lockVars, fate, history>>

\* inbox_write++ makes the slot part of the inbox.
SendPublish(p) ==
  /\ Goto(p, "sendPublish", "sendBlock") /\ ~freed[peer[p]]
  /\ inboxWrite' = [inboxWrite EXCEPT ![peer[p]] = @ + 1]
  /\ sent' = [sent EXCEPT ![peer[p]] =
       Append(@, [sender |-> p, channel |-> chan[p], msg |-> <<p, seq[p]>>])]
  /\ UNCHANGED <<callVars, vmVars, inbox, nextId, lockVars, fate, got>>

SendBlockUnlocked(p) ==
  /\ Goto(p, "sendBlock", "sendSignal") /\ ~freed[peer[p]]
  /\ UNCHANGED <<callVars, vmVars, boxVars, lockVars, fate, history>>

SendBlock(p) ==
  /\ Goto(p, "sendBlock", "sendSignal") /\ ~freed[peer[p]]
  /\ Acquire(inboxBlock, peer[p], p)
  /\ UNCHANGED <<callVars, vmVars, boxVars, inboxLock, sleeping, fate, history>>

\* Only the owner ever waits on its inbox, so the signal wakes it if it sleeps.
SignalLost(q) == UNCHANGED sleeping
Signal(q) == sleeping' = sleeping \ {q}

SendSignal(p) ==
  /\ Goto(p, "sendSignal", "sendUnlock") /\ ~freed[peer[p]]
  /\ Signal(peer[p])
  /\ Release(inboxBlock, peer[p])
  /\ UNCHANGED <<callVars, vmVars, boxVars, inboxLock, fate, history>>

SendUnlock(p) ==
  /\ Return(p, "sendUnlock") /\ ~freed[peer[p]]
  /\ Release(inboxLock, peer[p])
  /\ UNCHANGED <<vmVars, boxVars, inboxBlock, sleeping, fate, history>>

\* dest terminated after the test of dest->active: its heap, its inbox and its
\* mutexes are gone, and whatever the send does next is undefined.
SendDangling(p) ==
  /\ Running /\ pc[p] \in SendSteps /\ freed[peer[p]]
  /\ fate' = "dangling"
  /\ UNCHANGED <<pc, callVars, vmVars, boxVars, lockVars, history>>

-----------------------------------------------------------------------------
(* idris_recvMessageFrom(vm, channel_id, sender) *)

\* A sender that is no longer active makes the call return NULL at once.
RecvStart(p, s, c) ==
  /\ <<p, s, c>> \in RecvCalls
  /\ Goto(p, "idle", IF s # NoProc /\ ~active[s] THEN "return" ELSE "recvLock")
  /\ peer' = [peer EXCEPT ![p] = s]
  /\ chan' = [chan EXCEPT ![p] = c]
  /\ UNCHANGED <<cur, ret, seq, vmVars, boxVars, lockVars, fate, history>>

RecvLock(p) ==
  /\ Goto(p, "recvLock", "recvScan")
  /\ Acquire(inboxBlock, p, p)
  /\ UNCHANGED <<callVars, vmVars, boxVars, inboxLock, sleeping, fate, history>>

\* idris_getMessageFrom; leaving the loop gives inbox_block back.
RecvScan(p) ==
  LET found == MatchesIn(Filled(p), p, peer[p], chan[p]) IN
  /\ \/ /\ found = {}
        /\ Goto(p, "recvScan", "recvSleep")
        /\ UNCHANGED <<cur, inboxBlock>>
     \/ /\ Goto(p, "recvScan", "recvTake")
        /\ \E i \in found : IsFirst(i, found) /\ cur' = [cur EXCEPT ![p] = i]
        /\ Release(inboxBlock, p)
  /\ UNCHANGED <<peer, chan, ret, seq, vmVars, boxVars, inboxLock, sleeping,
                 fate, history>>

\* pthread_cond_timedwait: release inbox_block and sleep, in one step.
Sleep(p) ==
  /\ \/ Goto(p, "recvSleep", "recvAsleep")
     \/ Goto(p, "timedSleep", "timedAsleep")
  /\ sleeping' = sleeping \cup {p}
  /\ Release(inboxBlock, p)
  /\ UNCHANGED <<callVars, vmVars, boxVars, inboxLock, fate, history>>

\* The timeout passes, or the wait ends spuriously.
TimeOut(p) ==
  /\ Running /\ p \in sleeping
  /\ sleeping' = sleeping \ {p}
  /\ UNCHANGED <<pc, callVars, vmVars, boxVars, inboxLock, inboxBlock, fate, history>>

\* A woken thread has inbox_block again when pthread_cond_timedwait returns.
Wake(p) ==
  /\ p \notin sleeping
  /\ \/ Goto(p, "recvAsleep", "recvScan")
     \/ Goto(p, "timedAsleep", "timedUnlock")
  /\ Acquire(inboxBlock, p, p)
  /\ UNCHANGED <<callVars, vmVars, boxVars, inboxLock, sleeping, fate, history>>

\* ret is fresh memory; its channel_id is never assigned.
RecvTake(p) ==
  /\ Goto(p, "recvTake", "recvSlideLock")
  /\ \E junk \in Junk :
       ret' = [ret EXCEPT ![p] = [inbox[p][cur[p]] EXCEPT !.channel = junk]]
  /\ UNCHANGED <<peer, chan, cur, seq, vmVars, boxVars, lockVars, fate, history>>

RecvSlideLock(p) ==
  /\ Goto(p, "recvSlideLock", "recvSlide")
  /\ Acquire(inboxLock, p, p)
  /\ UNCHANGED <<callVars, vmVars, boxVars, inboxBlock, sleeping, fate, history>>

\* The assignments of the loop move sender and msg, and not channel_id.
MovedMsgOnly(slot, next) == [slot EXCEPT !.msg = next.msg]
Moved(slot, next) == [slot EXCEPT !.msg = next.msg, !.sender = next.sender]

Cleared(slot) == [slot EXCEPT !.msg = NoMsg, !.sender = NoProc]

\* The slots the loop overwrites; the last slot of the inbox has no next one.
SlidesFromNext(p, i) == cur[p] < i /\ i < inboxWrite[p] /\ i < InboxSize
SlidesOneShort(p, i) == cur[p] <= i /\ i < inboxWrite[p] - 1 /\ i < InboxSize
Slides(p, i) == cur[p] <= i /\ i < inboxWrite[p] /\ i < InboxSize

\* The slot cleared is the one at inbox_write, which is no slot at all when the
\* inbox is full.
RecvSlide(p) ==
  /\ Goto(p, "recvSlide", "recvUnlock")
  /\ inbox' = [inbox EXCEPT ![p] =
       [i \in 1 .. InboxSize |->
          CASE i = inboxWrite[p] -> Cleared(inbox[p][i])
            [] Slides(p, i)      -> Moved(inbox[p][i], inbox[p][i + 1])
            [] OTHER             -> inbox[p][i]]]
  /\ inboxWrite' = [inboxWrite EXCEPT ![p] = @ - 1]
  /\ got' = [got EXCEPT ![p] = Append(@, ret[p])]
  /\ UNCHANGED <<callVars, vmVars, nextId, lockVars, fate, sent>>

RecvUnlockForgotten(p) ==
  /\ Return(p, "recvUnlock")
  /\ UNCHANGED <<vmVars, boxVars, lockVars, fate, history>>

RecvUnlock(p) ==
  /\ Return(p, "recvUnlock")
  /\ Release(inboxLock, p)
  /\ UNCHANGED <<vmVars, boxVars, inboxBlock, sleeping, fate, history>>

-----------------------------------------------------------------------------
(* The idris_checkMessages family: none of its searches takes a lock *)

\* The first slot a search finds; idris_checkMessagesFrom hands back its sender,
\* idris_checkInitMessages the slot itself.
Checked(p, slots) ==
  \/ slots = {} /\ ret' = [ret EXCEPT ![p] = EmptySlot]
  \/ \E i \in slots : IsFirst(i, slots) /\ ret' = [ret EXCEPT ![p] = inbox[p][i]]

OpeningIn(p) == {i \in Seen(p) : IsOpening(inbox[p][i].channel)}

\* A program asks for what it will receive.
CheckMessages(p, s, c) ==
  /\ <<p, "from">> \in CheckCalls /\ <<p, s, c>> \in RecvCalls
  /\ Goto(p, "idle", "return")
  /\ Checked(p, MatchesIn(Seen(p), p, s, c))
  /\ UNCHANGED <<peer, chan, cur, seq, vmVars, boxVars, lockVars, fate, history>>

CheckInitMessages(p) ==
  /\ <<p, "init">> \in CheckCalls /\ Goto(p, "idle", "return")
  /\ Checked(p, OpeningIn(p))
  /\ UNCHANGED <<peer, chan, cur, seq, vmVars, boxVars, lockVars, fate, history>>

\* idris_checkMessagesTimeout: look, wait at most once, look again.
TimedStart(p) ==
  /\ <<p, "timeout">> \in CheckCalls
  /\ Checked(p, Seen(p))
  /\ Goto(p, "idle", IF ret'[p].sender # NoProc THEN "return" ELSE "timedLock")
  /\ UNCHANGED <<peer, chan, cur, seq, vmVars, boxVars, lockVars, fate, history>>

TimedLock(p) ==
  /\ Goto(p, "timedLock", "timedSleep")
  /\ Acquire(inboxBlock, p, p)
  /\ UNCHANGED <<callVars, vmVars, boxVars, inboxLock, sleeping, fate, history>>

TimedUnlock(p) ==
  /\ Goto(p, "timedUnlock", "timedScan")
  /\ Release(inboxBlock, p)
  /\ UNCHANGED <<callVars, vmVars, boxVars, inboxLock, sleeping, fate, history>>

TimedScan(p) ==
  /\ Goto(p, "timedScan", "return")
  /\ Checked(p, Seen(p))
  /\ UNCHANGED <<peer, chan, cur, seq, vmVars, boxVars, lockVars, fate, history>>

CallReturn(p) ==
  /\ Return(p, "return")
  /\ UNCHANGED <<vmVars, boxVars, lockVars, fate, history>>

-----------------------------------------------------------------------------
(* terminate(vm), at the end of runThread or called by idris_stopThread.     *)
(* vm->active is the last thing it writes, after the VM's memory and mutexes *)
(* are gone.                                                                 *)

StopFree(p) ==
  /\ p \in MayStop /\ Goto(p, "idle", "stopping")
  /\ freed' = [freed EXCEPT ![p] = TRUE]
  /\ UNCHANGED <<callVars, active, boxVars, lockVars, fate, history>>

StopInactive(p) ==
  /\ Goto(p, "stopping", "stopped")
  /\ active' = [active EXCEPT ![p] = FALSE]
  /\ UNCHANGED <<callVars, freed, boxVars, lockVars, fate, history>>

-----------------------------------------------------------------------------
\* The program calls into the run time system.
Start(p) ==
  \/ \E q \in Proc, c \in {call[3] : call \in SendCalls} : SendStart(p, q, c)
  \/ \E s \in Proc \cup {NoProc}, c \in {call[3] : call \in RecvCalls} :
       RecvStart(p, s, c) \/ CheckMessages(p, s, c)
  \/ CheckInitMessages(p) \/ TimedStart(p)
  \/ StopFree(p)

\* A thread that is inside the run time system goes on.
SendStep(p) ==
  \/ SendLock(p) \/ SendMsg(p) \/ SendChannel(p) \/ SendSender(p)
  \/ SendPublish(p) \/ SendBlock(p) \/ SendSignal(p) \/ SendUnlock(p)
  \/ SendDangling(p)

RecvStep(p) ==
  \/ RecvLock(p) \/ RecvScan(p) \/ Sleep(p) \/ Wake(p) \/ RecvTake(p)
  \/ RecvSlideLock(p) \/ RecvSlide(p) \/ RecvUnlock(p)

CheckStep(p) ==
  TimedLock(p) \/ TimedUnlock(p) \/ TimedScan(p) \/ CallReturn(p)

Step(p) == SendStep(p) \/ RecvStep(p) \/ CheckStep(p) \/ StopInactive(p)

Next == \E p \in Proc : Start(p) \/ Step(p) \/ TimeOut(p)

\* Nothing is left to do: every thread is between two calls.
Finished ==
  /\ ~Running \/ \A p \in Proc : pc[p] \in {"idle", "stopped"}
  /\ UNCHANGED vars

Spec == Init /\ [][Next \/ Finished]_vars

(* Fairness: the operating system runs every thread that can run.  Nothing   *)
(* makes a program call the run time system, and no timeout has to pass.     *)
Scheduled == \A p \in Proc : WF_vars(Step(p))

FairSpec == Spec /\ Scheduled

\* With the clock as well: a wait of at most 3 seconds ends.
TimedSpec == FairSpec /\ \A p \in Proc : WF_vars(TimeOut(p))

\* With the clock for the checks only: a receive has to do without it.  A wait
\* leaves inbox_block free for seconds, so a send that wants it gets it.
CheckTimesOut(p) == pc[p] = "timedAsleep" /\ TimeOut(p)
PolledSpec == FairSpec /\ \A p \in Proc : WF_vars(CheckTimesOut(p)) /\ SF_vars(SendBlock(p))

-----------------------------------------------------------------------------
(* Invariants *)

TypeOK ==
  /\ pc \in [Proc -> PC]
  /\ peer \in [Proc -> Proc \cup {NoProc}]
  /\ chan \in [Proc -> Nat]
  /\ cur \in [Proc -> 1 .. InboxSize]
  /\ ret \in [Proc -> Msg]
  /\ seq \in [Proc -> Nat]
  /\ active \in [Proc -> BOOLEAN]
  /\ freed \in [Proc -> BOOLEAN]
  /\ inbox \in [Proc -> [1 .. InboxSize -> Msg]]
  /\ inboxWrite \in [Proc -> 1 .. InboxSize + 1]
  /\ nextId \in [Proc -> Nat]
  /\ inboxLock \in [Proc -> Proc \cup {NoProc}]
  /\ inboxBlock \in [Proc -> Proc \cup {NoProc}]
  /\ sleeping \in SUBSET Proc
  /\ fate \in {"run", "exit", "dangling"}
  /\ sent \in [Proc -> Seq(Msg)]
  /\ got \in [Proc -> Seq(Msg)]

Msgs(log) == {log[k].msg : k \in DOMAIN log}
Queued(q) == {inbox[q][i].msg : i \in Filled(q)}

\* Every message published to an inbox is either still in it, in one slot, or
\* was received, once; and no slot holds anything else.  Searching under
\* inbox_block while others append under inbox_lock loses and doubles nothing.
NothingLostOrDoubled ==
  \A q \in Proc :
    /\ Msgs(sent[q]) = Msgs(got[q]) \cup Queued(q)
    /\ Msgs(got[q]) \cap Queued(q) = {}
    /\ \A i, j \in Filled(q) : inbox[q][i].msg = inbox[q][j].msg => i = j
    /\ \A k, l \in DOMAIN got[q] : got[q][k].msg = got[q][l].msg => k = l

\* A message keeps its sender while the slots around it are slid down, and on
\* the way out.
SenderKept ==
  \A q \in Proc :
    /\ \A i \in Filled(q) : inbox[q][i].sender = inbox[q][i].msg[1]
    /\ \A k \in DOMAIN got[q] : got[q][k].sender = got[q][k].msg[1]

Waits(q)    == pc[q] = "recvSleep" \/ (pc[q] = "recvAsleep" /\ q \in sleeping)
Wanted(q)   == MatchesIn(Filled(q), q, peer[q], chan[q]) # {}
Wakes(p, q) == peer[p] = q /\ pc[p] \in {"sendBlock", "sendSignal"}

\* No wakeup is lost: while a receiver is asleep, or about to sleep, and a
\* message it asked for is in its inbox, the send that put it there still has
\* to take inbox_block and to signal.
NoLostWakeup == \A q \in Proc : Waits(q) /\ Wanted(q) => \E p \in Proc : Wakes(p, q)

-----------------------------------------------------------------------------
(* The inductive invariant behind the three safety properties above *)

Writing   == {"sendMsg", "sendChannel", "sendSender", "sendPublish"}
Appending == Writing \cup {"sendBlock", "sendSignal", "sendUnlock"}
Removing  == {"recvSlide", "recvUnlock"}
Searching == {"recvScan", "recvSleep", "timedSleep", "timedUnlock"}
Found     == {"recvTake", "recvSlideLock", "recvSlide"}

NobodySendsToItself == \A p \in Proc : pc[p] \in SendSteps => peer[p] \in Proc \ {p}

LocksHeld == \A p \in Proc :
  /\ pc[p] \in Appending => inboxLock[peer[p]] = p
  /\ pc[p] \in Removing => inboxLock[p] = p
  /\ pc[p] = "sendSignal" => inboxBlock[peer[p]] = p
  /\ pc[p] \in Searching => inboxBlock[p] = p

SleepersWait == \A p \in sleeping : pc[p] \in {"recvAsleep", "timedAsleep"}

\* The slot a send fills exists; the slot a receive found is still filled.
PointersInRange == Running => \A p \in Proc :
  /\ pc[p] \in Writing => inboxWrite[peer[p]] <= InboxSize
  /\ pc[p] \in Found => cur[p] < inboxWrite[p]

\* What is in the slot a send fills, and in the Msg a receive has filled.
SlotsInUse == Running => \A p \in Proc :
  /\ pc[p] \in Writing \ {"sendMsg"} =>
       inbox[peer[p]][inboxWrite[peer[p]]].msg = <<p, seq[p]>>
  /\ pc[p] = "sendPublish" => inbox[peer[p]][inboxWrite[peer[p]]].sender = p
  /\ pc[p] \in {"recvSlideLock", "recvSlide"} =>
       /\ ret[p].msg = inbox[p][cur[p]].msg
       /\ ret[p].sender = inbox[p][cur[p]].sender

\* A payload is published once: the one a send carries is new to every inbox.
PayloadsFresh == \A q \in Proc : \A m \in Msgs(sent[q]) :
  /\ m \in Payload
  /\ m[2] <= seq[m[1]]
  /\ pc[m[1]] \in Writing \cup {"sendLock"} => m[2] < seq[m[1]]

ProtocolInv ==
  /\ TypeOK /\ NobodySendsToItself /\ LocksHeld /\ SleepersWait /\ PointersInRange
  /\ SlotsInUse /\ PayloadsFresh
  /\ NothingLostOrDoubled /\ SenderKept /\ NoLostWakeup

\* The messages one sender posts to one VM are received in the order in which
\* they were sent, as long as the receives name no channel.
PerSenderOrder ==
  \A q \in Proc : \A k, l \in DOMAIN got[q] :
    k < l /\ got[q][k].msg[1] = got[q][l].msg[1] => got[q][k].msg[2] < got[q][l].msg[2]

\* A message that one of the checks reports has not been received before: a
\* program that calls idris_recvMessage after a successful check is not left
\* waiting.  It holds as long as the inbox was never full.
CheckedMessageIsThere ==
  \A p \in Proc : pc[p] = "return" => ret[p].msg \notin Msgs(got[p])

-----------------------------------------------------------------------------
(* The promise: every inbox is a Mailbox *)

Promise == INSTANCE Mailbox WITH
  Payload <- Proc \X (1 .. MaxSends),
  box     <- [q \in Proc |-> [i \in Filled(q) |->
                [sender |-> inbox[q][i].sender, msg |-> inbox[q][i].msg]]],
  handed  <- [q \in Proc |-> [k \in DOMAIN got[q] |->
                [sender |-> got[q][k].sender, msg |-> got[q][k].msg]]]

\* Send and receive, with all their steps and locks, implement a Mailbox: a
\* message is posted when inbox_write moves past it and taken when the slots
\* after it slide down.
ImplementsMailbox == Promise!Spec

-----------------------------------------------------------------------------
(* Liveness *)

\* A receive returns once a message it asked for is in the inbox, whether the
\* message was there before the search or arrived during the wait.  No timeout
\* is needed for it: the signal alone wakes the receiver (PolledSpec).
MatchedReceiveReturns ==
  \A q \in Proc :
    (pc[q] \in RecvSteps /\ Wanted(q)) ~> (pc[q] = "idle" \/ ~Running)

\* A send and a check with a timeout always come back: the locks they take in
\* turn are given back, and no two threads wait for each other (PolledSpec).
CallsReturn ==
  \A p \in Proc :
    pc[p] \in SendSteps \cup CheckSteps ~> (pc[p] \in {"idle", "return"} \/ ~Running)

-----------------------------------------------------------------------------
(* What the documentation of the library and the comments of the code say,   *)
(* and the code does not do.                                                 *)

\* The channel id of a message in the inbox is the one it was sent with: what
\* getMsgFrom needs to receive "on a particular channel".
ChannelKept ==
  \A q \in Proc : \A i \in Filled(q) : \E k \in DOMAIN sent[q] :
    sent[q][k].msg = inbox[q][i].msg /\ sent[q][k].channel = inbox[q][i].channel

\* The Msg a receive hands to getMsgWithSender carries the channel id the
\* message was sent with.
ReceivedChannelKept ==
  \A q \in Proc : \A k \in DOMAIN got[q] : \E l \in DOMAIN sent[q] :
    sent[q][l].msg = got[q][k].msg /\ sent[q][l].channel = got[q][k].channel

\* The slot that idris_checkInitMessages hands to listenMsgs names the process
\* that opened the channel.
OpeningHasSender ==
  \A p \in Proc :
    pc[p] = "return" /\ IsOpening(ret[p].channel) => ret[p].sender # NoProc

\* idris_recvMessageFrom clears the slot behind the last message: no slot from
\* inbox_write on holds a message, unless a send is filling it.
FreeSlotsCleared ==
  \A q \in Proc : inboxLock[q] = NoProc =>
    \A i \in inboxWrite[q] .. InboxSize : inbox[q][i].msg = NoMsg

\* A message sent to a VM that stops does not get there, rather than crash the
\* system: no send goes on in memory and mutexes terminate has released.
StoppedInboxUntouched == fate # "dangling"

\* idris_checkMessagesTimeout waits only if there are no messages.
WaitsOnlyWhenEmpty ==
  [][\A p \in Proc : pc[p] = "timedSleep" /\ pc'[p] = "timedAsleep" => Filled(p) = {}]_vars

\* A blocking receive from a process that is no longer running comes back
\* (TimedSpec).
ReceiveNoticesStop ==
  \A q \in Proc :
    (pc[q] \in RecvSteps /\ peer[q] \in Proc /\ ~active[peer[q]])
      ~> (pc[q] \in {"idle", "return"} \/ ~Running)
=============================================================================
