---------------------------- MODULE HeapSharing ----------------------------
(***************************************************************************)
(* Who allocates in whose heap in the Idris run time system                *)
(* (idris-1.3.3/rts/idris_rts.c, lines 169-260, 801-855 and 857-947;       *)
(* idris_gmp.c, lines 25-51; idris_heap.c, lines 40-65).                   *)
(*                                                                         *)
(* A VM allocates in its own heap, and the thread of a sender allocates in *)
(* the heap of the receiver while it copies a message.  alloc_lock, a      *)
(* recursive mutex of the heap, is meant to keep the two apart; the owner  *)
(* takes it only while its counter of processes is positive, and never for *)
(* a word it reads from memory, for C data it wraps or for a collection it *)
(* forces.  Whoever finds the heap full collects it, and a collection      *)
(* moves everything the roots of that VM reach, and nothing else.          *)
(*                                                                         *)
(* What a thread has to do is a sequence of items (see code): an           *)
(* allocation, a collection, or one of the two calls that bracket the      *)
(* allocations of a big integer.  A heap is how much of it is used, and    *)
(* the sizes of this and of the next one; what survives a collection is    *)
(* any part of it.                                                         *)
(***************************************************************************)
EXTENDS Integers, Sequences

CONSTANTS
  VM,           \* the virtual machines
  Root,         \* the VM of main, the only one at the start
  NoVM,         \* no thread holds the lock; no VM is concerned
  HeapSize,     \* size of the heap of Root
  Required,     \* what a GMP operation asks for (IDRIS_MAXGMP)
  AllocCalls,   \* <<vm, size>>: the program builds a value of its own
  BareCalls,    \* <<vm, what>>: the program works in its heap without the lock
  BigCalls,     \* VMs whose program builds a big integer
  SendCalls,    \* <<sender, dest, kind>> of idris_sendMessage
  ForkCalls,    \* <<creator, child>> of vmThread
  MayStop,      \* VMs that may come to their end
  MaxCalls,     \* bound: calls each VM makes
  MaxCollections  \* bound: collections of one heap that are told apart

Kinds == {"small", "cdata", "big"}
Bare  == {"peek", "cdata", "force"}

ASSUME RootAssumption  == Root \in VM /\ NoVM \notin VM
ASSUME SizeAssumption  == HeapSize \in Nat \ {0} /\ Required \in Nat \ {0}
ASSUME AllocAssumption == AllocCalls \subseteq VM \X (Nat \ {0})
ASSUME BareAssumption  == BareCalls \subseteq VM \X Bare
ASSUME BigAssumption   == BigCalls \subseteq VM
ASSUME SendAssumption  ==
  /\ SendCalls \subseteq VM \X VM \X Kinds
  /\ \A call \in SendCalls : call[1] # call[2]
ASSUME ForkAssumption  ==
  /\ ForkCalls \subseteq VM \X (VM \ {Root})
  /\ \A call \in ForkCalls : call[1] # call[2]
ASSUME StopAssumption  == MayStop \subseteq VM \ {Root}
ASSUME BoundAssumption == MaxCalls \in [VM -> Nat] /\ MaxCollections \in Nat

VARIABLES
  pc,           \* where each thread is
  code,         \* what its call has still to do, in order
  after,        \* where it goes when code is done
  peer,         \* dest of a send, vm of a fork
  kind,         \* what a send sends
  gcs,          \* dest->stats.collections, read before the copy
  since,        \* collections of the own heap when the copy began
  made,         \* the cells the call has made: heap, and collections then
  locked,       \* the variable lock of iallocate and idris_requireAlloc
  count,        \* the value of processes that ++ or -- has read
  calls,        \* calls each VM has made
  heap,         \* vm->heap, and vm->stats.collections
  holder,       \* who holds vm->alloc_lock
  depth,        \* and how many times
  processes,    \* vm->processes
  creator,      \* vm->creator
  active,       \* vm->active
  freed,        \* TRUE once terminate has released the heap and the lock
  fate          \* "run", or "dangling" after a use of a freed heap

callVars == <<code, after, peer, kind, gcs, since, made, locked, count>>
lockVars == <<holder, depth>>
vmVars   == <<processes, creator, active, freed>>
vars     == <<pc, callVars, calls, heap, lockVars, vmVars, fate>>

-----------------------------------------------------------------------------
(* What a call does *)

Items == [do: {"alloc", "gc", "insert", "require", "done"}, on: VM, n: Nat, outer: BOOLEAN]

\* iallocate(h, n, outer), idris_requireAlloc(h, IDRIS_MAXGMP), idris_doneAlloc(h)
Cell(h, n, outer) == [do |-> "alloc", on |-> h, n |-> n, outer |-> outer]
RequireAlloc(h) == [do |-> "require", on |-> h, n |-> Required, outer |-> FALSE]
DoneAlloc(h) == [do |-> "done", on |-> h, n |-> Required, outer |-> FALSE]

\* idris_gc(h), and c_heap_insert_if_needed(h, .., item), which may call it.
Collection(h) == [do |-> "gc", on |-> h, n |-> 0, outer |-> TRUE]
Insert(h) == [do |-> "insert", on |-> h, n |-> 0, outer |-> TRUE]

\* allocBig in the heap h; GMP then takes the digits from idris_alloc, which
\* uses the VM of the running thread.
MakeBig(p, h) == <<RequireAlloc(h), Cell(h, 1, FALSE), DoneAlloc(h), Cell(p, 1, FALSE)>>

\* doCopyTo: a constructor (outer lock) with a string in it (no outer lock), C
\* data (outer lock), or a big integer.
CopyTo(p, h, k) ==
  CASE k = "small" -> <<Cell(h, 1, TRUE), Cell(h, 2, FALSE)>>
    [] k = "cdata" -> <<Insert(h), Cell(h, 1, TRUE)>>
    [] OTHER -> MakeBig(p, h)

Todo(p) == Head(code[p])

-----------------------------------------------------------------------------
(* Threads and locks *)

Heap == [used: Nat, cap: Nat, size: Nat, growth: Nat, collections: Nat]

\* init_vm
NewHeap(n) == [used |-> 0, cap |-> n, size |-> n, growth |-> n, collections |-> 0]

PC == {"unborn", "idle", "run", "look", "bump", "collect", "grow", "gc", "requireCollect",
       "requireRead", "requireLock", "sendLock", "sendUnlock", "sendCheck", "sendLockAgain",
       "sendUnlockAgain", "sendStore", "forkRead", "forkWrite", "forkStart",
       "stopRead", "stopWrite", "stopInactive", "stopped"}

Running == fate = "run"

ItemSteps == {"run", "look", "bump", "collect", "grow", "gc", "requireCollect", "requireRead",
              "requireLock"}

\* The VM whose heap or mutex the next step of p uses.
Uses(p) ==
  IF pc[p] \in ItemSteps /\ code[p] # <<>> THEN {Todo(p).on}
  ELSE IF pc[p] \in {"sendLock", "sendUnlock", "sendLockAgain", "sendUnlockAgain", "sendStore"}
    THEN {peer[p]}
  ELSE {}

Sound(p) == Running /\ \A h \in Uses(p) : ~freed[h]

Goto(p, from, to) == Sound(p) /\ pc[p] = from /\ pc' = [pc EXCEPT ![p] = to]

\* The first item of the call is done.
NextItem(p) == code' = [code EXCEPT ![p] = Tail(@)]

\* alloc_lock is recursive: its holder takes it again, and only its holder can
\* give it back.
Lock(p, h) ==
  /\ holder[h] \in {NoVM, p}
  /\ holder' = [holder EXCEPT ![h] = p]
  /\ depth' = [depth EXCEPT ![h] = @ + 1]

Unlock(p, h) ==
  IF holder[h] # p THEN UNCHANGED lockVars
  ELSE /\ depth' = [depth EXCEPT ![h] = @ - 1]
       /\ holder' = [holder EXCEPT ![h] = IF depth[h] = 1 THEN NoVM ELSE p]

Init ==
  /\ pc = [p \in VM |-> IF p = Root THEN "idle" ELSE "unborn"]
  /\ code = [p \in VM |-> <<>>]
  /\ after = [p \in VM |-> "idle"]
  /\ peer = [p \in VM |-> NoVM]
  /\ kind = [p \in VM |-> "small"]
  /\ gcs = [p \in VM |-> 0]
  /\ since = [p \in VM |-> 0]
  /\ made = [p \in VM |-> {}]
  /\ locked = [p \in VM |-> FALSE]
  /\ count = [p \in VM |-> 0]
  /\ calls = [p \in VM |-> 0]
  /\ heap = [p \in VM |-> NewHeap(HeapSize)]
  /\ holder = [p \in VM |-> NoVM]
  /\ depth = [p \in VM |-> 0]
  /\ processes = [p \in VM |-> 0]
  /\ creator = [p \in VM |-> NoVM]
  /\ active = [p \in VM |-> TRUE]
  /\ freed = [p \in VM |-> FALSE]
  /\ fate = "run"

-----------------------------------------------------------------------------
(* idris_gc(h): room for s, anything of what was used survives, and the next *)
(* heap is larger if more than half of this one is used.                     *)

Fits(h, n) == heap[h].used + n < heap[h].cap

ShrunkSize(s, live, growth) == IF live > s \div 2 THEN s + growth ELSE s - growth
NextSize(s, live, growth)   == IF live > s \div 2 THEN s + growth ELSE s

Collected(h, s) ==
  \E live \in 0 .. heap[h].used :
    heap' = [heap EXCEPT ![h] =
      [used |-> live, cap |-> s,
       size |-> NextSize(s, live, @.growth), growth |-> @.growth,
       collections |-> IF @.collections < MaxCollections THEN @.collections + 1
                       ELSE MaxCollections]]

-----------------------------------------------------------------------------
(* iallocate(h, n, outer) *)

NeverLocks(p) == FALSE
Locks(p) == processes[Todo(p).on] > 0 /\ ~Todo(p).outer

AllocStart(p) ==
  /\ pc[p] = "run" /\ code[p] # <<>> /\ Todo(p).do = "alloc"
  /\ Goto(p, "run", "look")
  /\ locked' = [locked EXCEPT ![p] = Locks(p)]
  /\ UNCHANGED <<code, after, peer, kind, gcs, since, made, count, calls, heap, lockVars,
                 vmVars, fate>>

\* Take alloc_lock if it is to be taken, then look whether there is room.
LockIfWanted(p) == IF locked[p] THEN Lock(p, Todo(p).on) ELSE UNCHANGED lockVars

AllocLook(p) ==
  /\ Goto(p, "look", IF Fits(Todo(p).on, Todo(p).n) THEN "bump" ELSE "collect")
  /\ LockIfWanted(p)
  /\ UNCHANGED <<callVars, calls, heap, vmVars, fate>>

\* The lock goes back, and with it the variable.
AllocUnlock(p) ==
  /\ IF locked[p] THEN Unlock(p, Todo(p).on) ELSE UNCHANGED lockVars
  /\ locked' = [locked EXCEPT ![p] = FALSE]

\* A message is being copied: made records the cells of the copy.
Copying(p) == after[p] \in {"sendUnlock", "sendUnlockAgain"}

AllocBump(p) ==
  LET h == Todo(p).on IN
  /\ Goto(p, "bump", "run") /\ NextItem(p)
  /\ heap' = [heap EXCEPT ![h].used = @ + Todo(p).n]
  /\ made' = [made EXCEPT ![p] = @ \cup
       IF Copying(p) THEN {[on |-> h, collections |-> heap[h].collections]} ELSE {}]
  /\ AllocUnlock(p)
  /\ UNCHANGED <<after, peer, kind, gcs, since, count, calls, vmVars, fate>>

\* What is larger than the heap makes it grow first.
AllocCollect(p) ==
  LET h == Todo(p).on IN
  /\ Goto(p, "collect", "grow")
  /\ Collected(h, IF Todo(p).n > heap[h].size THEN heap[h].size + Todo(p).n ELSE heap[h].size)
  /\ UNCHANGED <<callVars, calls, lockVars, vmVars, fate>>

\* If there is still no room, grow and collect again; then start from the top.
NotGrown(h, n)  == heap[h].size
GrownSize(h, n) == heap[h].size + n + heap[h].growth

AllocGrow(p) ==
  LET h == Todo(p).on IN
  /\ Goto(p, "grow", "run")
  /\ IF Fits(h, Todo(p).n) THEN UNCHANGED heap ELSE Collected(h, GrownSize(h, Todo(p).n))
  /\ AllocUnlock(p)
  /\ UNCHANGED <<code, after, peer, kind, gcs, since, made, count, calls, vmVars, fate>>

-----------------------------------------------------------------------------
(* A collection that no allocation asks for, without alloc_lock              *)

GcStart(p) ==
  /\ pc[p] = "run" /\ code[p] # <<>> /\ Todo(p).do \in {"gc", "insert"}
  /\ Goto(p, "run", "gc")
  /\ UNCHANGED <<callVars, calls, heap, lockVars, vmVars, fate>>

Gc(p) ==
  /\ Goto(p, "gc", "run") /\ NextItem(p)
  /\ Collected(Todo(p).on, heap[Todo(p).on].size)
  /\ UNCHANGED <<after, peer, kind, gcs, since, made, locked, count, calls, lockVars, vmVars, fate>>

\* The item is on the list already, or the C heap below its trigger.
InsertOnly(p) ==
  /\ pc[p] = "run" /\ code[p] # <<>> /\ Todo(p).do = "insert"
  /\ Goto(p, "run", "run") /\ NextItem(p)
  /\ UNCHANGED <<after, peer, kind, gcs, since, made, locked, count, calls, heap, lockVars,
                 vmVars, fate>>

-----------------------------------------------------------------------------
(* idris_requireAlloc(h, n) collects at most once, and before it locks;      *)
(* idris_doneAlloc(h) looks at processes again.                              *)

RequireStart(p) ==
  /\ pc[p] = "run" /\ code[p] # <<>> /\ Todo(p).do = "require"
  /\ Goto(p, "run", IF Fits(Todo(p).on, Todo(p).n) THEN "requireRead" ELSE "requireCollect")
  /\ UNCHANGED <<callVars, calls, heap, lockVars, vmVars, fate>>

RequireCollect(p) ==
  /\ Goto(p, "requireCollect", "requireRead")
  /\ Collected(Todo(p).on, heap[Todo(p).on].size)
  /\ UNCHANGED <<callVars, calls, lockVars, vmVars, fate>>

RequireRead(p) ==
  /\ Goto(p, "requireRead", "requireLock")
  /\ locked' = [locked EXCEPT ![p] = processes[Todo(p).on] > 0]
  /\ UNCHANGED <<code, after, peer, kind, gcs, since, made, count, calls, heap, lockVars,
                 vmVars, fate>>

RequireLock(p) ==
  /\ Goto(p, "requireLock", "run") /\ NextItem(p)
  /\ LockIfWanted(p)
  /\ locked' = [locked EXCEPT ![p] = FALSE]
  /\ UNCHANGED <<after, peer, kind, gcs, since, made, count, calls, heap, vmVars, fate>>

KeepsLock(p) == UNCHANGED lockVars
GivesLockBack(p) ==
  IF processes[Todo(p).on] > 0 THEN Unlock(p, Todo(p).on) ELSE UNCHANGED lockVars

Done(p) ==
  /\ pc[p] = "run" /\ code[p] # <<>> /\ Todo(p).do = "done"
  /\ Goto(p, "run", "run") /\ NextItem(p)
  /\ GivesLockBack(p)
  /\ UNCHANGED <<after, peer, kind, gcs, since, made, locked, count, calls, heap, vmVars, fate>>

\* The call has nothing more to allocate.
RunEnd(p) ==
  /\ code[p] = <<>> /\ Goto(p, "run", after[p])
  /\ UNCHANGED <<callVars, calls, heap, lockVars, vmVars, fate>>

-----------------------------------------------------------------------------
(* The program builds values of its own                                      *)

Begin(p) == Goto(p, "idle", "run") /\ calls[p] < MaxCalls[p] /\ calls' = [calls EXCEPT ![p] = @ + 1]

Allocate(p, n) ==
  /\ <<p, n>> \in AllocCalls /\ Begin(p)
  /\ code' = [code EXCEPT ![p] = <<Cell(p, n, FALSE)>>]
  /\ UNCHANGED <<after, peer, kind, gcs, since, made, locked, count, heap, lockVars, vmVars, fate>>

\* prim__peek32 and prim__peek64: MKB32 and MKB64 allocate as if under a lock.
Peek(p) ==
  /\ <<p, "peek">> \in BareCalls /\ Begin(p)
  /\ code' = [code EXCEPT ![p] = <<Cell(p, 2, TRUE)>>]
  /\ UNCHANGED <<after, peer, kind, gcs, since, made, locked, count, heap, lockVars, vmVars, fate>>

\* MKCDATA: the item goes into the C heap, then the cell is allocated.
MakeCData(p) ==
  /\ <<p, "cdata">> \in BareCalls /\ Begin(p)
  /\ code' = [code EXCEPT ![p] = <<Insert(p), Cell(p, 1, FALSE)>>]
  /\ UNCHANGED <<after, peer, kind, gcs, since, made, locked, count, heap, lockVars, vmVars, fate>>

ForceGC(p) ==
  /\ <<p, "force">> \in BareCalls /\ Begin(p)
  /\ code' = [code EXCEPT ![p] = <<Collection(p)>>]
  /\ UNCHANGED <<after, peer, kind, gcs, since, made, locked, count, heap, lockVars, vmVars, fate>>

\* The code generator brackets every operation of GMP once more.
BigOperation(p) ==
  /\ p \in BigCalls /\ Begin(p)
  /\ code' = [code EXCEPT ![p] = <<RequireAlloc(p)>> \o MakeBig(p, p) \o <<DoneAlloc(p)>>]
  /\ UNCHANGED <<after, peer, kind, gcs, since, made, locked, count, heap, lockVars, vmVars, fate>>

-----------------------------------------------------------------------------
(* idris_sendMessage(sender, channel_id, dest, msg), up to the inbox         *)

\* Only a VM that was forked can be named; one that is no longer active makes
\* the call return 0 at once.
SendStart(p, q, k) ==
  /\ <<p, q, k>> \in SendCalls /\ pc[q] # "unborn" /\ active[q]
  /\ Goto(p, "idle", "sendLock")
  /\ calls[p] < MaxCalls[p] /\ calls' = [calls EXCEPT ![p] = @ + 1]
  /\ peer' = [peer EXCEPT ![p] = q]
  /\ kind' = [kind EXCEPT ![p] = k]
  /\ gcs' = [gcs EXCEPT ![p] = heap[q].collections]
  /\ UNCHANGED <<code, after, since, made, locked, count, heap, lockVars, vmVars, fate>>

\* Take alloc_lock of dest and copy the message, as if nothing had been copied.
SendLock(p) ==
  /\ \/ Goto(p, "sendLock", "run") /\ after' = [after EXCEPT ![p] = "sendUnlock"]
     \/ Goto(p, "sendLockAgain", "run") /\ after' = [after EXCEPT ![p] = "sendUnlockAgain"]
  /\ Lock(p, peer[p])
  /\ code' = [code EXCEPT ![p] = CopyTo(p, peer[p], kind[p])]
  /\ since' = [since EXCEPT ![p] = heap[p].collections]
  /\ made' = [made EXCEPT ![p] = {}]
  /\ UNCHANGED <<peer, kind, gcs, locked, count, calls, heap, vmVars, fate>>

SendUnlockLate(p) ==
  /\ Goto(p, "sendUnlock", "sendCheck") \/ Goto(p, "sendUnlockAgain", "sendStore")
  /\ Unlock(p, peer[p])
  /\ gcs' = [gcs EXCEPT ![p] = heap[peer[p]].collections]
  /\ UNCHANGED <<code, after, peer, kind, since, made, locked, count, calls, heap, vmVars, fate>>

SendUnlock(p) ==
  /\ Goto(p, "sendUnlock", "sendCheck") \/ Goto(p, "sendUnlockAgain", "sendStore")
  /\ Unlock(p, peer[p])
  /\ UNCHANGED <<callVars, calls, heap, vmVars, fate>>

\* A collection since the call began invalidates the copy.
CollectedSince(p) == heap[peer[p]].collections > gcs[p]

SendCheck(p) ==
  /\ Goto(p, "sendCheck", IF CollectedSince(p) THEN "sendLockAgain" ELSE "sendStore")
  /\ UNCHANGED <<callVars, calls, heap, lockVars, vmVars, fate>>

\* The call is over and its variables are gone.
Return(p, from) ==
  /\ Goto(p, from, "idle")
  /\ after' = [after EXCEPT ![p] = "idle"]
  /\ peer' = [peer EXCEPT ![p] = NoVM]
  /\ kind' = [kind EXCEPT ![p] = "small"]
  /\ gcs' = [gcs EXCEPT ![p] = 0]
  /\ since' = [since EXCEPT ![p] = 0]
  /\ made' = [made EXCEPT ![p] = {}]
  /\ count' = [count EXCEPT ![p] = 0]
  /\ UNCHANGED <<code, locked, calls>>

\* The rest of the call is that of MessagePassing.
SendStore(p) ==
  /\ Return(p, "sendStore")
  /\ UNCHANGED <<heap, lockVars, vmVars, fate>>

-----------------------------------------------------------------------------
(* vmThread(callvm, f, arg)                                                  *)

\* The new heap is as large as the next one of the creator; the argument is
\* copied into it before there is a thread.
Fork(p, c) ==
  /\ <<p, c>> \in ForkCalls /\ pc[c] = "unborn" /\ creator[c] = NoVM
  /\ Begin(p)
  /\ heap' = [heap EXCEPT ![c] = NewHeap(heap[p].size)]
  /\ processes' = [processes EXCEPT ![c] = 1]
  /\ creator' = [creator EXCEPT ![c] = p]
  /\ peer' = [peer EXCEPT ![p] = c]
  /\ code' = [code EXCEPT ![p] = CopyTo(p, c, "small")]
  /\ after' = [after EXCEPT ![p] = "forkRead"]
  /\ UNCHANGED <<kind, gcs, since, made, locked, count, lockVars, active, freed, fate>>

ForkRead(p) ==
  /\ Goto(p, "forkRead", "forkWrite")
  /\ count' = [count EXCEPT ![p] = processes[p]]
  /\ UNCHANGED <<code, after, peer, kind, gcs, since, made, locked, calls, heap, lockVars,
                 vmVars, fate>>

ForkWrite(p) ==
  /\ Goto(p, "forkWrite", "forkStart")
  /\ processes' = [processes EXCEPT ![p] = count[p] + 1]
  /\ UNCHANGED <<callVars, calls, heap, lockVars, creator, active, freed, fate>>

\* pthread_create
ForkStart(p) ==
  /\ Sound(p) /\ pc[p] = "forkStart"
  /\ pc' = [pc EXCEPT ![p] = "idle", ![peer[p]] = "idle"]
  /\ after' = [after EXCEPT ![p] = "idle"]
  /\ peer' = [peer EXCEPT ![p] = NoVM]
  /\ count' = [count EXCEPT ![p] = 0]
  /\ UNCHANGED <<code, kind, gcs, since, made, locked, calls, heap, lockVars, vmVars, fate>>

-----------------------------------------------------------------------------
(* terminate(vm), by the thread of vm at its end, or by the creator that got *)
(* no thread for it                                                          *)

Free(v) == freed' = [freed EXCEPT ![v] = TRUE]

Stop(p) ==
  /\ p \in MayStop /\ Goto(p, "idle", "stopRead")
  /\ peer' = [peer EXCEPT ![p] = p]
  /\ Free(p)
  /\ UNCHANGED <<code, after, kind, gcs, since, made, locked, count, calls, heap, lockVars,
                 processes, creator, active, fate>>

ForkFails(p) ==
  /\ Goto(p, "forkStart", "stopRead")
  /\ Free(peer[p])
  /\ UNCHANGED <<callVars, calls, heap, lockVars, processes, creator, active, fate>>

StopRead(p) ==
  /\ Goto(p, "stopRead", "stopWrite")
  /\ count' = [count EXCEPT ![p] = processes[creator[peer[p]]]]
  /\ UNCHANGED <<code, after, peer, kind, gcs, since, made, locked, calls, heap, lockVars,
                 vmVars, fate>>

StopWrite(p) ==
  /\ Goto(p, "stopWrite", "stopInactive")
  /\ processes' = [processes EXCEPT ![creator[peer[p]]] = count[p] - 1]
  /\ UNCHANGED <<callVars, calls, heap, lockVars, creator, active, freed, fate>>

StopInactive(p) ==
  /\ Sound(p) /\ pc[p] = "stopInactive"
  /\ pc' = [pc EXCEPT ![p] = "idle", ![peer[p]] = "stopped"]
  /\ active' = [active EXCEPT ![peer[p]] = FALSE]
  /\ after' = [after EXCEPT ![p] = "idle"]
  /\ peer' = [peer EXCEPT ![p] = NoVM]
  /\ count' = [count EXCEPT ![p] = 0]
  /\ UNCHANGED <<code, kind, gcs, since, made, locked, calls, heap, lockVars, processes, creator,
                 freed, fate>>

\* What is done with the heap or the mutex of a VM that was terminated is undefined.
Dangling(p) ==
  /\ Running /\ \E h \in Uses(p) : freed[h]
  /\ fate' = "dangling"
  /\ UNCHANGED <<pc, callVars, calls, heap, lockVars, vmVars>>

-----------------------------------------------------------------------------
\* The program calls into the run time system.
Start(p) ==
  \/ \E n \in {call[2] : call \in AllocCalls} : Allocate(p, n)
  \/ Peek(p) \/ MakeCData(p) \/ ForceGC(p) \/ BigOperation(p)
  \/ \E q \in VM, k \in Kinds : SendStart(p, q, k)
  \/ \E c \in VM : Fork(p, c)
  \/ Stop(p)

AllocStep(p) ==
  AllocStart(p) \/ AllocLook(p) \/ AllocBump(p) \/ AllocCollect(p) \/ AllocGrow(p)

CollectStep(p) == GcStart(p) \/ Gc(p) \/ InsertOnly(p)

BracketStep(p) ==
  \/ RequireStart(p) \/ RequireCollect(p) \/ RequireRead(p) \/ RequireLock(p)
  \/ Done(p) \/ RunEnd(p)

SendStep(p) == SendLock(p) \/ SendUnlock(p) \/ SendCheck(p) \/ SendStore(p)

LifeStep(p) ==
  \/ ForkRead(p) \/ ForkWrite(p) \/ ForkStart(p) \/ ForkFails(p)
  \/ StopRead(p) \/ StopWrite(p) \/ StopInactive(p)

Step(p) ==
  \/ AllocStep(p) \/ CollectStep(p) \/ BracketStep(p) \/ SendStep(p) \/ LifeStep(p)
  \/ Dangling(p)

Next == \E p \in VM : Start(p) \/ Step(p)

\* Nothing is left to do: every thread is between two calls.
Finished ==
  /\ ~Running \/ \A p \in VM : pc[p] \in {"idle", "unborn", "stopped"}
  /\ UNCHANGED vars

Spec == Init /\ [][Next \/ Finished]_vars

(* Fairness: the operating system runs every thread that can run.            *)
FairSpec == Spec /\ \A p \in VM : WF_vars(Step(p))

-----------------------------------------------------------------------------
(* Invariants *)

TypeOK ==
  /\ pc \in [VM -> PC]
  /\ code \in [VM -> Seq(Items)]
  /\ after \in [VM -> {"idle", "sendUnlock", "sendUnlockAgain", "forkRead"}]
  /\ peer \in [VM -> VM \cup {NoVM}]
  /\ kind \in [VM -> Kinds]
  /\ gcs \in [VM -> Nat]
  /\ since \in [VM -> Nat]
  /\ made \in [VM -> SUBSET [on: VM, collections: Nat]]
  /\ locked \in [VM -> BOOLEAN]
  /\ count \in [VM -> Int]
  /\ calls \in [VM -> Nat]
  /\ heap \in [VM -> Heap]
  /\ holder \in [VM -> VM \cup {NoVM}]
  /\ depth \in [VM -> Nat]
  /\ processes \in [VM -> Int]
  /\ creator \in [VM -> VM \cup {NoVM}]
  /\ active \in [VM -> BOOLEAN]
  /\ freed \in [VM -> BOOLEAN]
  /\ fate \in {"run", "dangling"}

\* Between the look at the room of a heap and the use of it.
Inside(p, h) ==
  pc[p] \in {"bump", "collect", "grow", "gc", "requireCollect"} /\ Todo(p).on = h

\* Nobody allocates in a heap, or collects it, while somebody else does.  This
\* needs that an owner who is sent messages goes into its heap by iallocate with
\* the lock only (OwnersLock): MKB32, MKB64, c_heap_insert_if_needed and
\* idris_forceGC ask for none.
HeapExclusive ==
  \A h, p, q \in VM : Inside(p, h) /\ Inside(q, h) => p = q

\* The assertion of iallocate: heap.next never passes heap.end (the same is needed).
NextInHeap == \A h \in VM : heap[h].used <= heap[h].cap

\* A copy that a collection went over is copied again: what passes the test of
\* collections is in the heap as it was when the call began.
CopyNoticed ==
  \A p \in VM : pc[p] = "sendCheck" =>
    \/ CollectedSince(p)
    \/ \A c \in made[p] : c.on = peer[p] => c.collections = heap[peer[p]].collections

\* Between two calls a thread holds no alloc_lock: what idris_requireAlloc took,
\* idris_doneAlloc has given back.
LockGivenBack ==
  \A p, h \in VM : pc[p] \in {"idle", "stopped"} => holder[h] # p

\* The locks a thread waits for at an allocation or a send.
Wants(p, h) ==
  \/ pc[p] \in {"look", "requireLock"} /\ Todo(p).on = h /\ locked[p]
  \/ pc[p] \in {"sendLock", "sendLockAgain"} /\ peer[p] = h

\* No two threads wait for a lock the other one holds.
NoLockCycle ==
  \A p, q, g, h \in VM :
    ~(p # q /\ Wants(p, g) /\ holder[g] = q /\ Wants(q, h) /\ holder[h] = p)

\* When iallocate starts again from the top, the second collection has made
\* enough room, whatever survived it.
GrowMakesRoom ==
  [][\A p \in VM : pc[p] = "grow" /\ pc'[p] = "run" => Fits(Todo(p).on, Todo(p).n)']_vars

-----------------------------------------------------------------------------
(* The inductive invariants behind the proofs *)

Looked     == {"bump", "collect", "grow", "gc"}
Allocating == {"look"} \cup Looked
Requiring  == {"requireCollect", "requireRead", "requireLock"}
Resting    == {"idle", "unborn", "stopped"}
LifeSteps  == {"forkRead", "forkWrite", "forkStart", "stopRead", "stopWrite", "stopInactive"}
Forking(p) == (pc[p] \in ItemSteps /\ after[p] = "forkRead") \/ pc[p] \in LifeSteps
Sending(p) ==
  \/ pc[p] \in ItemSteps /\ Copying(p)
  \/ pc[p] \in {"sendLock", "sendLockAgain", "sendUnlock", "sendUnlockAgain", "sendCheck",
                "sendStore"}

\* A thread inside a call has the item and the VM its next step uses: a creator
\* the VM it has not started yet, a VM that stops itself.
FormOf(p) ==
  /\ pc[p] \in Allocating \cup Requiring => code[p] # <<>>
  /\ pc[p] \in Resting => after[p] = "idle"
  /\ pc[p] # "unborn" /\ p # Root => creator[p] \in VM
  /\ Sending(p) => peer[p] \in VM
  /\ Forking(p) =>
       /\ peer[p] \in VM /\ creator[peer[p]] \in VM
       /\ after[p] = "forkRead" =>
            peer[p] # p /\ pc[peer[p]] = "unborn" /\ creator[peer[p]] = p
       /\ after[p] # "forkRead" => peer[p] = p

\* A mutex is free when it was given back as often as it was taken.
LocksForm == \A h \in VM : holder[h] = NoVM <=> depth[h] = 0

WellFormed == (\A p \in VM : FormOf(p)) /\ LocksForm

TypeInv == TypeOK /\ WellFormed

(* The rest holds when no big integer is built or sent, no VM comes to its   *)
(* end, and who is sent messages works in its heap under the lock only: then *)
(* alloc_lock does what it is there for.                                     *)

Dests == {call[2] : call \in SendCalls}

OwnersLock ==
  /\ BigCalls = {} /\ MayStop = {} /\ \A call \in SendCalls : call[3] # "big"
  /\ \A call \in BareCalls : call[1] \notin Dests

\* The heap the items of the call of p are about.
Target(p) == IF after[p] = "idle" THEN p ELSE peer[p]

\* Only allocations and collections, all in one heap; an owner that is sent
\* messages asks for the lock.
CodeOf(p) ==
  /\ pc[p] \notin Requiring
  /\ pc[p] \in ItemSteps => \A i \in DOMAIN code[p] :
       /\ code[p][i].do \notin {"require", "done"} /\ code[p][i].on = Target(p)
       /\ after[p] = "idle" /\ p \in Dests => ~code[p][i].outer
       /\ code[p][i].do \in {"gc", "insert"} => code[p][i].outer
  /\ kind[p] # "big"
  /\ locked[p] => pc[p] \in Allocating \ {"gc"}

\* Who works in the heap of another VM: a sender in that of a VM that was
\* started, a creator in that of a VM that was not.
PeerOf(p) ==
  /\ Sending(p) => peer[p] # p /\ pc[peer[p]] # "unborn" /\ peer[p] \in Dests
  /\ Forking(p) => peer[p] # Root /\ after[p] = "forkRead"

\* A sender holds the lock of the receiver while it copies; an owner that took
\* its lock holds it.
LockOf(p) ==
  /\ Copying(p) /\ pc[p] \in ItemSteps =>
       /\ holder[peer[p]] = p /\ depth[peer[p]] >= 1
       /\ pc[p] \in Looked /\ locked[p] => depth[peer[p]] >= 2
  /\ after[p] = "idle" /\ pc[p] \in Looked /\ locked[p] => holder[p] = p

\* While a VM can be sent a message its counter is positive: that of main
\* because a child of it was started, that of a forked VM from the beginning.
Named(p) ==
  IF p = Root THEN \E c \in VM \ {Root} : pc[c] \notin {"unborn", "stopped"}
  ELSE creator[p] # NoVM
Increased(p) == pc[p] \in {"forkStart", "stopRead", "stopWrite"}

CountOf(p) ==
  /\ processes[p] >= 0
  /\ Named(p) => processes[p] >= 1
  /\ Increased(p) => processes[p] >= 1
  /\ Named(p) /\ Increased(p) => processes[p] >= 2
  /\ pc[p] \in {"forkWrite", "stopWrite"} => count[p] = processes[p]
  /\ pc[p] \in Allocating /\ after[p] = "idle" /\ ~locked[p] /\ p \in Dests
       => processes[p] <= 0

ThreadInv ==
  /\ \A p \in VM : CodeOf(p) /\ PeerOf(p) /\ LockOf(p) /\ CountOf(p)
  /\ pc[Root] # "unborn"

\* What the look at the room has found is still so when it is used.
RoomInv ==
  /\ \A h \in VM : heap[h].used < heap[h].cap /\ heap[h].cap <= heap[h].size
  /\ \A p \in VM : pc[p] = "bump" => Fits(Todo(p).on, Todo(p).n)

SharingInv == TypeInv /\ ThreadInv /\ RoomInv

-----------------------------------------------------------------------------
(* Liveness *)

\* Every call comes back: a request for memory is granted after finitely many
\* collections, and no lock is waited for in vain (FairSpec).
CallsReturn ==
  \A p \in VM :
    pc[p] \notin {"unborn", "idle", "stopped"} ~> (pc[p] \in {"idle", "stopped"} \/ ~Running)

-----------------------------------------------------------------------------
(* What comments and assertions of the code say, and the code does not do.   *)

\* Between idris_requireAlloc and idris_doneAlloc no collection happens.
RequireKeepsRoom ==
  \A p \in VM :
    (\E k \in DOMAIN code[p] : /\ code[p][k].do = "done"
                              /\ \A j \in 1 .. k : code[p][j].do # "require")
      => pc[p] # "collect"

\* A collection invalidates the copy, so the copy that is stored in the inbox
\* has not seen one.
StoredCopyValid ==
  \A p \in VM : pc[p] = "sendStore" =>
    \A c \in made[p] : c.on = peer[p] => c.collections = heap[peer[p]].collections

\* A structure is copied to the heap of another VM, all of it.
CopiedWhole == \A p \in VM : pc[p] = "sendStore" => \A c \in made[p] : c.on = peer[p]

\* doCopyTo never meets a value that a collection has moved away: the heap it
\* reads from is not collected meanwhile.
SourceStill ==
  \A p \in VM :
    Running /\ pc[p] \in ItemSteps /\ Copying(p)
      => since[p] = heap[p].collections

\* processes is the number of child processes (of a forked VM, one more).
Children(p) == {c \in VM : creator[c] = p /\ pc[c] # "stopped"}
ProcessesCounted ==
  (\A p \in VM : pc[p] \in {"idle", "unborn", "stopped"}) =>
    (Children(Root) = {} <=> processes[Root] = 0)
=============================================================================
