-------------------------- MODULE HeapSharingProofs --------------------------
(* Theorems about HeapSharing, for every set of VMs and calls, every size    *)
(* and every bound: what a copy finds of the heap it is in, and, in the      *)
(* second part, that idris_doneAlloc gives back what idris_requireAlloc      *)
(* took.                                                                     *)
EXTENDS HeapSharing, SequenceTheorems, TLAPS

USE DEF Goto, Sound, Running

-----------------------------------------------------------------------------
(* Items and heaps *)

LEMMA ListTypes ==
  ASSUME NEW S, NEW x1 \in S, NEW x2 \in S, NEW x3 \in S, NEW x4 \in S
  PROVE  /\ <<x1>> \in Seq(S)
         /\ <<x1, x2>> \in Seq(S)
         /\ <<x1, x2, x3, x4>> \in Seq(S)
  OBVIOUS

LEMMA ItemTypes ==
  ASSUME NEW p \in VM, NEW h \in VM, NEW n \in Nat, NEW k
  PROVE  /\ <<Cell(p, n, FALSE)>> \in Seq(Items)
         /\ CopyTo(p, h, k) \in Seq(Items)
         /\ <<RequireAlloc(p)>> \o MakeBig(p, p) \o <<DoneAlloc(p)>> \in Seq(Items)
  <1>1. Required \in Nat /\ 1 \in Nat /\ 2 \in Nat
    BY SizeAssumption
  <1>2. \A o \in BOOLEAN : Cell(h, 1, o) \in Items /\ Cell(h, 2, o) \in Items
                           /\ Cell(p, n, o) \in Items /\ Cell(p, 1, o) \in Items
    BY <1>1 DEF Cell, Items
  <1>3. \A v \in {p, h} : RequireAlloc(v) \in Items /\ DoneAlloc(v) \in Items
    BY <1>1 DEF RequireAlloc, DoneAlloc, Items
  <1>4. MakeBig(p, h) \in Seq(Items) /\ MakeBig(p, p) \in Seq(Items)
    BY <1>2, <1>3, ListTypes, Zenon DEF MakeBig
  <1>5. /\ <<Cell(h, 1, TRUE), Cell(h, 2, FALSE)>> \in Seq(Items)
        /\ <<Insert(h), Cell(h, 1, TRUE)>> \in Seq(Items)
    <2>1. Insert(h) \in Items
      BY DEF Insert, Items
    <2> QED
      BY <1>2, <2>1, ListTypes, Zenon
  <1>6. CopyTo(p, h, k) \in Seq(Items)
    BY <1>4, <1>5, Zenon DEF CopyTo
  <1>7. <<RequireAlloc(p)>> \in Seq(Items) /\ <<DoneAlloc(p)>> \in Seq(Items)
    BY <1>3, ListTypes, Zenon
  <1>8. <<RequireAlloc(p)>> \o MakeBig(p, p) \o <<DoneAlloc(p)>> \in Seq(Items)
    BY <1>4, <1>7
  <1>9. <<Cell(p, n, FALSE)>> \in Seq(Items)
    BY <1>2, ListTypes, Zenon
  <1> QED
    BY <1>6, <1>8, <1>9, Zenon

LEMMA BareTypes ==
  ASSUME NEW p \in VM
  PROVE  /\ <<Cell(p, 2, TRUE)>> \in Seq(Items)
         /\ <<Insert(p), Cell(p, 1, FALSE)>> \in Seq(Items)
         /\ <<Collection(p)>> \in Seq(Items)
  <1>1. \A o \in BOOLEAN : Cell(p, 2, o) \in Items /\ Cell(p, 1, o) \in Items
    BY DEF Cell, Items
  <1>2. Insert(p) \in Items /\ Collection(p) \in Items
    BY DEF Insert, Collection, Items
  <1> QED
    BY <1>1, <1>2, ListTypes, Zenon

LEMMA TodoType ==
  ASSUME TypeInv, NEW p \in VM, code[p] # <<>>
  PROVE  /\ Todo(p) \in Items /\ Todo(p).on \in VM /\ Todo(p).n \in Nat
         /\ Tail(code[p]) \in Seq(Items)
  <1>1. code[p] \in Seq(Items)
    BY DEF TypeInv, TypeOK
  <1>2. Todo(p) \in Items /\ Tail(code[p]) \in Seq(Items)
    BY <1>1 DEF Todo
  <1> QED
    BY <1>2 DEF Items

LEMMA CollectedType ==
  ASSUME heap \in [VM -> Heap], NEW h \in VM, NEW s \in Nat, Collected(h, s)
  PROVE  /\ heap' \in [VM -> Heap]
         /\ \A g \in VM : g # h => heap'[g] = heap[g]
         /\ heap'[h].used <= heap[h].used /\ heap'[h].used \in Nat
         /\ heap'[h].cap = s /\ heap'[h].size >= s
  <1>1. heap[h] \in Heap
    OBVIOUS
  <1>2. PICK live \in 0 .. heap[h].used :
          heap' = [heap EXCEPT ![h] =
            [used |-> live, cap |-> s,
             size |-> NextSize(s, live, heap[h].growth), growth |-> heap[h].growth,
             collections |-> IF heap[h].collections < MaxCollections
                             THEN heap[h].collections + 1 ELSE MaxCollections]]
    BY DEF Collected
  <1>3. /\ heap[h].used \in Nat /\ heap[h].growth \in Nat /\ heap[h].collections \in Nat
        /\ MaxCollections \in Nat /\ live \in Nat /\ live <= heap[h].used
    BY <1>1, <1>2, BoundAssumption DEF Heap
  <1>4. NextSize(s, live, heap[h].growth) \in Nat /\ NextSize(s, live, heap[h].growth) >= s
    BY <1>3 DEF NextSize
  <1> QED
    BY <1>2, <1>3, <1>4 DEF Heap

-----------------------------------------------------------------------------
(* Locks *)

LocksOK == holder \in [VM -> VM \cup {NoVM}] /\ depth \in [VM -> Nat] /\ LocksForm

LEMMA LockType ==
  ASSUME LocksOK, NEW p \in VM, NEW h \in VM, Lock(p, h)
  PROVE  LocksOK'
  BY RootAssumption DEF LocksOK, LocksForm, Lock

LEMMA UnlockType ==
  ASSUME LocksOK, NEW p \in VM, NEW h \in VM, Unlock(p, h)
  PROVE  LocksOK'
  <1>1. CASE holder[h] # p
    BY <1>1 DEF Unlock, LocksOK, LocksForm, lockVars
  <1>2. CASE holder[h] = p
    <2>1. depth[h] \in Nat /\ depth[h] # 0
      BY <1>2, RootAssumption DEF LocksOK, LocksForm
    <2> QED
      BY <1>2, <2>1, RootAssumption DEF LocksOK, LocksForm, Unlock
  <1> QED
    BY <1>1, <1>2

LEMMA SameLocksType ==
  ASSUME LocksOK, UNCHANGED lockVars
  PROVE  LocksOK'
  BY DEF LocksOK, LocksForm, lockVars

-----------------------------------------------------------------------------
(* Steps, by their shape *)

LEMMA StepNames ==
  /\ ItemSteps \cup LifeSteps \cup Resting \subseteq PC
  /\ {"sendLock", "sendUnlock", "sendCheck", "sendLockAgain", "sendUnlockAgain",
      "sendStore"} \subseteq PC
  /\ Allocating \cup Requiring \subseteq ItemSteps
  /\ "unborn" \in Resting /\ "unborn" \notin ItemSteps \cup LifeSteps
  /\ ItemSteps \cap Resting = {}
  BY DEF PC, ItemSteps, LifeSteps, Resting, Allocating, Looked, Requiring

\* What p does leaves the other threads as they were, if it starts and forks none.
LEMMA OthersKeepForm ==
  ASSUME TypeInv, NEW p \in VM, pc[p] # "unborn",
         pc' \in [VM -> PC], \A q \in VM : q # p => pc'[q] = pc[q],
         \A q \in VM : q # p =>
           code'[q] = code[q] /\ after'[q] = after[q] /\ peer'[q] = peer[q],
         creator' = creator
  PROVE  \A q \in VM : q # p => FormOf(q)'
  <1> SUFFICES ASSUME NEW q \in VM, q # p PROVE FormOf(q)'
    OBVIOUS
  <1>1. FormOf(q)
    BY DEF TypeInv, WellFormed
  <1>2. /\ pc'[q] = pc[q] /\ code'[q] = code[q] /\ after'[q] = after[q] /\ peer'[q] = peer[q]
        /\ creator'[q] = creator[q] /\ (Sending(q)' <=> Sending(q)) /\ (Forking(q)' <=> Forking(q))
    BY DEF Sending, Forking, Copying
  <1>3. Forking(q) /\ after[q] = "forkRead" => pc'[peer[q]] = "unborn"
    BY <1>1 DEF FormOf
  <1> QED
    BY <1>1, <1>2, <1>3 DEF FormOf

\* A step from one item to the next, or within one.
LEMMA ItemStepType ==
  ASSUME TypeInv, NEW p \in VM, NEW to \in ItemSteps,
         pc[p] \in ItemSteps, code[p] # <<>>, pc' = [pc EXCEPT ![p] = to],
         code' = code \/ (to = "run" /\ NextItem(p)),
         locked' \in [VM -> BOOLEAN],
         made' \in [VM -> SUBSET [on: VM, collections: Nat]],
         heap' \in [VM -> Heap], LocksOK',
         UNCHANGED <<after, peer, kind, gcs, since, count, calls, vmVars, fate>>
  PROVE  TypeInv'
  <1>1. FormOf(p) /\ TypeOK
    BY DEF TypeInv, WellFormed
  <1>2. to \in PC /\ to # "unborn" /\ to \notin Resting /\ pc[p] # "unborn" /\ pc[p] \notin Resting
    BY StepNames
  <1>3. pc' \in [VM -> PC] /\ \A q \in VM : q # p => pc'[q] = pc[q]
    BY <1>1, <1>2 DEF TypeOK
  <1>4. Tail(code[p]) \in Seq(Items)
    BY TodoType
  <1>5. code' \in [VM -> Seq(Items)] /\ \A q \in VM : q # p => code'[q] = code[q]
    <2>1. code \in [VM -> Seq(Items)]
      BY <1>1 DEF TypeOK
    <2>2. CASE code' = code
      BY <2>1, <2>2
    <2>3. CASE NextItem(p)
      <3>1. code' = [code EXCEPT ![p] = Tail(code[p])]
        BY <2>3 DEF NextItem
      <3> QED
        BY <1>4, <2>1, <3>1
    <2> QED
      BY <2>2, <2>3
  <1>6. TypeOK'
    BY <1>1, <1>3, <1>5 DEF TypeOK, vmVars, LocksOK
  <1>7. FormOf(p)'
    <2>1. pc'[p] = to
      BY <1>1 DEF TypeOK
    <2>2. to = "run" \/ code'[p] # <<>>
      OBVIOUS
    <2>3. (Sending(p)' => Sending(p)) /\ (Forking(p)' => Forking(p))
      BY <2>1, StepNames DEF Sending, Forking, Copying, ItemSteps, LifeSteps
    <2>4. Forking(p) /\ after[p] = "forkRead" => pc'[peer[p]] = pc[peer[p]]
      BY <1>1, <1>3 DEF FormOf
    <2>5. "run" \notin Allocating \cup Requiring
      BY DEF Allocating, Looked, Requiring
    <2> QED
      BY <1>1, <1>2, <2>1, <2>2, <2>3, <2>4, <2>5 DEF FormOf, vmVars
  <1>8. \A q \in VM : q # p => FormOf(q)'
    BY <1>2, <1>3, <1>5, OthersKeepForm DEF vmVars
  <1> QED
    BY <1>6, <1>7, <1>8 DEF TypeInv, WellFormed, LocksOK

-----------------------------------------------------------------------------
(* Types: the items of a call *)

\* The facts about the step of an item that ItemStepType asks for.
LEMMA ItemFacts ==
  ASSUME TypeInv, NEW p \in VM
  PROVE  /\ LocksOK
         /\ pc[p] \in Allocating \cup Requiring => code[p] # <<>>
         /\ heap \in [VM -> Heap] /\ locked \in [VM -> BOOLEAN]
         /\ made \in [VM -> SUBSET [on: VM, collections: Nat]]
         /\ locked' = [locked EXCEPT ![p] = FALSE] => locked' \in [VM -> BOOLEAN]
  BY DEF TypeInv, TypeOK, WellFormed, FormOf, LocksOK

LEMMA HeapTypes ==
  ASSUME TypeInv, NEW h \in VM
  PROVE  /\ heap[h] \in Heap /\ heap[h].used \in Nat /\ heap[h].cap \in Nat
         /\ heap[h].size \in Nat /\ heap[h].growth \in Nat /\ heap[h].collections \in Nat
  <1>1. heap[h] \in Heap
    BY DEF TypeInv, TypeOK
  <1> QED BY <1>1 DEF Heap

LEMMA AllocStartType ==
  ASSUME TypeInv, NEW p \in VM, AllocStart(p)
  PROVE  TypeInv'
  <1>1. /\ pc[p] = "run" /\ code[p] # <<>> /\ pc' = [pc EXCEPT ![p] = "look"]
        /\ locked' = [locked EXCEPT ![p] = Locks(p)] /\ UNCHANGED <<code, made, heap, lockVars>>
        /\ UNCHANGED <<after, peer, kind, gcs, since, count, calls, vmVars, fate>>
    BY DEF AllocStart
  <1>2. locked' \in [VM -> BOOLEAN]
    BY <1>1, ItemFacts DEF Locks
  <1>3. "run" \in ItemSteps /\ "look" \in ItemSteps
    BY DEF ItemSteps
  <1> QED
    BY <1>1, <1>2, <1>3, ItemFacts, SameLocksType, ItemStepType

LEMMA AllocLookType ==
  ASSUME TypeInv, NEW p \in VM, AllocLook(p)
  PROVE  TypeInv'
  <1>1. /\ pc[p] = "look" /\ LockIfWanted(p)
        /\ UNCHANGED <<code, locked, made, heap>>
        /\ UNCHANGED <<after, peer, kind, gcs, since, count, calls, vmVars, fate>>
    BY DEF AllocLook, callVars
  <1>2. PICK to \in {"bump", "collect"} : pc' = [pc EXCEPT ![p] = to]
    BY DEF AllocLook
  <1>3. code[p] # <<>>
    BY <1>1, ItemFacts DEF Allocating
  <1>4. LocksOK'
    BY <1>1, <1>3, ItemFacts, TodoType, LockType, SameLocksType DEF LockIfWanted
  <1>5. "look" \in ItemSteps /\ to \in ItemSteps
    BY DEF ItemSteps
  <1> QED
    BY <1>1, <1>2, <1>3, <1>4, <1>5, ItemFacts, ItemStepType

LEMMA AllocBumpType ==
  ASSUME TypeInv, NEW p \in VM, AllocBump(p)
  PROVE  TypeInv'
  <1> DEFINE h == Todo(p).on
             n == Todo(p).n
             cells == IF Copying(p) THEN {[on |-> h, collections |-> heap[h].collections]} ELSE {}
  <1>1. /\ pc[p] = "bump" /\ pc' = [pc EXCEPT ![p] = "run"] /\ NextItem(p)
        /\ heap' = [heap EXCEPT ![h].used = @ + n]
        /\ made' = [made EXCEPT ![p] = @ \cup cells] /\ AllocUnlock(p)
        /\ UNCHANGED <<after, peer, kind, gcs, since, count, calls, vmVars, fate>>
    BY DEF AllocBump
  <1>2. code[p] # <<>>
    BY <1>1, ItemFacts DEF Allocating, Looked
  <1>3. h \in VM /\ n \in Nat
    BY <1>2, TodoType
  <1>4. LocksOK' /\ locked' \in [VM -> BOOLEAN]
    BY <1>1, <1>3, ItemFacts, UnlockType, SameLocksType DEF AllocUnlock
  <1> HIDE DEF n
  <1>5. heap[h].used + n \in Nat
    BY <1>3, HeapTypes
  <1>6. heap' \in [VM -> Heap]
    <2>1. [heap[h] EXCEPT !.used = @ + n] \in Heap
      BY <1>3, <1>5, HeapTypes DEF Heap
    <2> QED
      BY <1>1, <1>3, <2>1, ItemFacts
  <1>7. made' \in [VM -> SUBSET [on: VM, collections: Nat]]
    <2>1. cells \in SUBSET [on: VM, collections: Nat]
      BY <1>3, HeapTypes
    <2> HIDE DEF cells
    <2> QED
      BY <1>1, <2>1, ItemFacts
  <1>8. "run" \in ItemSteps /\ "bump" \in ItemSteps
    BY DEF ItemSteps
  <1> QED
    BY <1>1, <1>2, <1>4, <1>6, <1>7, <1>8, ItemStepType

LEMMA AllocCollectType ==
  ASSUME TypeInv, NEW p \in VM, AllocCollect(p)
  PROVE  TypeInv'
  <1> DEFINE h == Todo(p).on
             s == IF Todo(p).n > heap[h].size THEN heap[h].size + Todo(p).n ELSE heap[h].size
  <1>1. /\ pc[p] = "collect" /\ pc' = [pc EXCEPT ![p] = "grow"] /\ Collected(h, s)
        /\ UNCHANGED <<code, locked, made, lockVars>>
        /\ UNCHANGED <<after, peer, kind, gcs, since, count, calls, vmVars, fate>>
    BY DEF AllocCollect, callVars
  <1>2. code[p] # <<>>
    BY <1>1, ItemFacts DEF Allocating, Looked
  <1>3. h \in VM /\ s \in Nat
    BY <1>2, TodoType, HeapTypes
  <1> HIDE DEF s
  <1>4. heap' \in [VM -> Heap]
    BY <1>1, <1>3, ItemFacts, CollectedType
  <1>5. "collect" \in ItemSteps /\ "grow" \in ItemSteps
    BY DEF ItemSteps
  <1> QED
    BY <1>1, <1>2, <1>4, <1>5, ItemFacts, SameLocksType, ItemStepType

LEMMA AllocGrowType ==
  ASSUME TypeInv, NEW p \in VM, AllocGrow(p)
  PROVE  TypeInv'
  <1> DEFINE h == Todo(p).on
             s == GrownSize(h, Todo(p).n)
  <1>1. /\ pc[p] = "grow" /\ pc' = [pc EXCEPT ![p] = "run"] /\ AllocUnlock(p)
        /\ heap' = heap \/ Collected(h, s)
        /\ UNCHANGED <<code, made>>
        /\ UNCHANGED <<after, peer, kind, gcs, since, count, calls, vmVars, fate>>
    BY DEF AllocGrow
  <1>2. code[p] # <<>>
    BY <1>1, ItemFacts DEF Allocating, Looked
  <1>3. h \in VM /\ s \in Nat
    BY <1>2, TodoType, HeapTypes DEF GrownSize
  <1> HIDE DEF s
  <1>4. heap' \in [VM -> Heap]
    BY <1>1, <1>3, ItemFacts, CollectedType
  <1>5. LocksOK' /\ locked' \in [VM -> BOOLEAN]
    BY <1>1, <1>3, ItemFacts, UnlockType, SameLocksType DEF AllocUnlock
  <1>6. "grow" \in ItemSteps /\ "run" \in ItemSteps
    BY DEF ItemSteps
  <1> QED
    BY <1>1, <1>2, <1>4, <1>5, <1>6, ItemFacts, ItemStepType

LEMMA GcStartType ==
  ASSUME TypeInv, NEW p \in VM, GcStart(p)
  PROVE  TypeInv'
  <1>1. /\ pc[p] = "run" /\ code[p] # <<>> /\ pc' = [pc EXCEPT ![p] = "gc"]
        /\ UNCHANGED <<code, locked, made, heap, lockVars>>
        /\ UNCHANGED <<after, peer, kind, gcs, since, count, calls, vmVars, fate>>
    BY DEF GcStart, callVars
  <1>2. "run" \in ItemSteps /\ "gc" \in ItemSteps
    BY DEF ItemSteps
  <1> QED
    BY <1>1, <1>2, ItemFacts, SameLocksType, ItemStepType

LEMMA GcType ==
  ASSUME TypeInv, NEW p \in VM, Gc(p)
  PROVE  TypeInv'
  <1> DEFINE h == Todo(p).on
  <1>1. /\ pc[p] = "gc" /\ pc' = [pc EXCEPT ![p] = "run"] /\ NextItem(p)
        /\ Collected(h, heap[h].size)
        /\ UNCHANGED <<locked, made, lockVars>>
        /\ UNCHANGED <<after, peer, kind, gcs, since, count, calls, vmVars, fate>>
    BY DEF Gc
  <1>2. code[p] # <<>>
    BY <1>1, ItemFacts DEF Allocating, Looked
  <1>3. h \in VM /\ heap[h].size \in Nat
    BY <1>2, TodoType, HeapTypes
  <1>4. heap' \in [VM -> Heap]
    BY <1>1, <1>3, ItemFacts, CollectedType
  <1>5. "gc" \in ItemSteps /\ "run" \in ItemSteps
    BY DEF ItemSteps
  <1> QED
    BY <1>1, <1>2, <1>4, <1>5, ItemFacts, SameLocksType, ItemStepType

LEMMA InsertOnlyType ==
  ASSUME TypeInv, NEW p \in VM, InsertOnly(p)
  PROVE  TypeInv'
  <1>1. /\ pc[p] = "run" /\ code[p] # <<>> /\ pc' = [pc EXCEPT ![p] = "run"] /\ NextItem(p)
        /\ UNCHANGED <<locked, made, heap, lockVars>>
        /\ UNCHANGED <<after, peer, kind, gcs, since, count, calls, vmVars, fate>>
    BY DEF InsertOnly
  <1>2. "run" \in ItemSteps
    BY DEF ItemSteps
  <1> QED
    BY <1>1, <1>2, ItemFacts, SameLocksType, ItemStepType

LEMMA RequireStartType ==
  ASSUME TypeInv, NEW p \in VM, RequireStart(p)
  PROVE  TypeInv'
  <1>1. /\ pc[p] = "run" /\ code[p] # <<>>
        /\ UNCHANGED <<code, locked, made, heap, lockVars>>
        /\ UNCHANGED <<after, peer, kind, gcs, since, count, calls, vmVars, fate>>
    BY DEF RequireStart, callVars
  <1>2. PICK to \in {"requireRead", "requireCollect"} : pc' = [pc EXCEPT ![p] = to]
    BY DEF RequireStart
  <1>3. "run" \in ItemSteps /\ to \in ItemSteps
    BY DEF ItemSteps
  <1> QED
    BY <1>1, <1>2, <1>3, ItemFacts, SameLocksType, ItemStepType

LEMMA RequireCollectType ==
  ASSUME TypeInv, NEW p \in VM, RequireCollect(p)
  PROVE  TypeInv'
  <1> DEFINE h == Todo(p).on
  <1>1. /\ pc[p] = "requireCollect" /\ pc' = [pc EXCEPT ![p] = "requireRead"]
        /\ Collected(h, heap[h].size)
        /\ UNCHANGED <<code, locked, made, lockVars>>
        /\ UNCHANGED <<after, peer, kind, gcs, since, count, calls, vmVars, fate>>
    BY DEF RequireCollect, callVars
  <1>2. code[p] # <<>>
    BY <1>1, ItemFacts DEF Requiring
  <1>3. h \in VM /\ heap[h].size \in Nat
    BY <1>2, TodoType, HeapTypes
  <1>4. heap' \in [VM -> Heap]
    BY <1>1, <1>3, ItemFacts, CollectedType
  <1>5. "requireCollect" \in ItemSteps /\ "requireRead" \in ItemSteps
    BY DEF ItemSteps
  <1> QED
    BY <1>1, <1>2, <1>4, <1>5, ItemFacts, SameLocksType, ItemStepType

LEMMA RequireReadType ==
  ASSUME TypeInv, NEW p \in VM, RequireRead(p)
  PROVE  TypeInv'
  <1>1. /\ pc[p] = "requireRead" /\ pc' = [pc EXCEPT ![p] = "requireLock"]
        /\ locked' = [locked EXCEPT ![p] = processes[Todo(p).on] > 0]
        /\ UNCHANGED <<code, made, heap, lockVars>>
        /\ UNCHANGED <<after, peer, kind, gcs, since, count, calls, vmVars, fate>>
    BY DEF RequireRead
  <1>2. code[p] # <<>>
    BY <1>1, ItemFacts DEF Requiring
  <1>3. locked' \in [VM -> BOOLEAN]
    <2> DEFINE lock == processes[Todo(p).on] > 0
    <2>1. lock \in BOOLEAN
      OBVIOUS
    <2>2. locked' = [locked EXCEPT ![p] = lock]
      BY <1>1
    <2> HIDE DEF lock
    <2> QED BY <2>1, <2>2, ItemFacts, Zenon
  <1>4. "requireRead" \in ItemSteps /\ "requireLock" \in ItemSteps
    BY DEF ItemSteps
  <1> QED
    BY <1>1, <1>2, <1>3, <1>4, ItemFacts, SameLocksType, ItemStepType

LEMMA RequireLockType ==
  ASSUME TypeInv, NEW p \in VM, RequireLock(p)
  PROVE  TypeInv'
  <1>1. /\ pc[p] = "requireLock" /\ pc' = [pc EXCEPT ![p] = "run"] /\ NextItem(p)
        /\ LockIfWanted(p) /\ locked' = [locked EXCEPT ![p] = FALSE]
        /\ UNCHANGED <<made, heap>>
        /\ UNCHANGED <<after, peer, kind, gcs, since, count, calls, vmVars, fate>>
    BY DEF RequireLock
  <1>2. code[p] # <<>>
    BY <1>1, ItemFacts DEF Requiring
  <1>3. LocksOK'
    BY <1>1, <1>2, ItemFacts, TodoType, LockType, SameLocksType DEF LockIfWanted
  <1>4. "requireLock" \in ItemSteps /\ "run" \in ItemSteps
    BY DEF ItemSteps
  <1> QED
    BY <1>1, <1>2, <1>3, <1>4, ItemFacts, ItemStepType

LEMMA DoneType ==
  ASSUME TypeInv, NEW p \in VM, Done(p)
  PROVE  TypeInv'
  <1>1. /\ pc[p] = "run" /\ pc' = [pc EXCEPT ![p] = "run"] /\ code[p] # <<>> /\ NextItem(p)
        /\ GivesLockBack(p) /\ UNCHANGED <<locked, made, heap>>
        /\ UNCHANGED <<after, peer, kind, gcs, since, count, calls, vmVars, fate>>
    BY DEF Done
  <1>2. LocksOK'
    BY <1>1, ItemFacts, TodoType, UnlockType, SameLocksType DEF GivesLockBack
  <1>3. "run" \in ItemSteps
    BY DEF ItemSteps
  <1> QED
    BY <1>1, <1>2, <1>3, ItemFacts, ItemStepType

-----------------------------------------------------------------------------
(* Types: the start of a call, a send, the life of a VM *)

\* A step of p that writes nothing of the other threads.
LEMMA CallStepType ==
  ASSUME TypeInv, NEW p \in VM, TypeOK', LocksForm', FormOf(p)', pc[p] # "unborn",
         \A q \in VM : q # p => /\ pc'[q] = pc[q] /\ code'[q] = code[q]
                                /\ after'[q] = after[q] /\ peer'[q] = peer[q],
         creator' = creator
  PROVE  TypeInv'
  <1>1. pc' \in [VM -> PC]
    BY DEF TypeOK
  <1>2. \A q \in VM : q # p => FormOf(q)'
    BY <1>1, OthersKeepForm
  <1> QED
    BY <1>2 DEF TypeInv, WellFormed

\* What a thread with nothing to do is.
LEMMA IdleForm ==
  ASSUME TypeInv, NEW p \in VM, pc[p] = "idle"
  PROVE  after[p] = "idle" /\ (p # Root => creator[p] \in VM)
  BY DEF TypeInv, WellFormed, FormOf, Resting

\* A value is to be built: the call starts with its first item.
LEMMA BeginType ==
  ASSUME TypeInv, NEW p \in VM, NEW items \in Seq(Items), Begin(p),
         code' = [code EXCEPT ![p] = items],
         UNCHANGED <<after, peer, kind, gcs, since, made, locked, count, heap, lockVars, vmVars,
                     fate>>
  PROVE  TypeInv'
  <1>1. /\ pc[p] = "idle" /\ pc' = [pc EXCEPT ![p] = "run"] /\ calls' = [calls EXCEPT ![p] = @ + 1]
        /\ TypeOK /\ LocksForm
    BY DEF Begin, TypeInv, WellFormed
  <1>2. calls' \in [VM -> Nat]
    <2>1. calls \in [VM -> Nat]
      BY <1>1 DEF TypeOK
    <2> QED BY <1>1, <2>1
  <1>3. TypeOK'
    BY <1>1, <1>2 DEF TypeOK, PC, lockVars, vmVars
  <1>4. LocksForm'
    BY <1>1 DEF LocksForm, lockVars
  <1>5. FormOf(p)'
    <2>1. pc'[p] = "run" /\ after'[p] = "idle" /\ (p # Root => creator'[p] \in VM)
      BY <1>1, IdleForm DEF TypeOK, vmVars
    <2> QED
      BY <2>1 DEF FormOf, Allocating, Looked, Requiring, Resting, Sending, Forking, Copying,
                  LifeSteps
  <1>6. pc[p] # "unborn" /\ creator' = creator
    BY <1>1 DEF vmVars
  <1>7. \A q \in VM : q # p => /\ pc'[q] = pc[q] /\ code'[q] = code[q]
                               /\ after'[q] = after[q] /\ peer'[q] = peer[q]
    BY <1>1 DEF TypeOK
  <1> QED
    BY <1>3, <1>4, <1>5, <1>6, <1>7, CallStepType

LEMMA AllocateType ==
  ASSUME TypeInv, NEW p \in VM, NEW n, Allocate(p, n)
  PROVE  TypeInv'
  <1>1. n \in Nat
    BY AllocAssumption DEF Allocate
  <1> QED
    BY <1>1, ItemTypes, BeginType DEF Allocate

LEMMA BareType ==
  ASSUME TypeInv, NEW p \in VM, Peek(p) \/ MakeCData(p) \/ ForceGC(p)
  PROVE  TypeInv'
  BY BareTypes, BeginType DEF Peek, MakeCData, ForceGC

LEMMA BigOperationType ==
  ASSUME TypeInv, NEW p \in VM, BigOperation(p)
  PROVE  TypeInv'
  <1>1. <<RequireAlloc(p)>> \o MakeBig(p, p) \o <<DoneAlloc(p)>> \in Seq(Items)
    BY ItemTypes
  <1> QED
    BY <1>1, BeginType DEF BigOperation

LEMMA SendStartType ==
  ASSUME TypeInv, NEW p \in VM, NEW q \in VM, NEW k \in Kinds, SendStart(p, q, k)
  PROVE  TypeInv'
  <1>1. /\ pc[p] = "idle" /\ pc' = [pc EXCEPT ![p] = "sendLock"]
        /\ calls' = [calls EXCEPT ![p] = @ + 1] /\ peer' = [peer EXCEPT ![p] = q]
        /\ kind' = [kind EXCEPT ![p] = k] /\ gcs' = [gcs EXCEPT ![p] = heap[q].collections]
        /\ UNCHANGED <<code, after, since, made, locked, count, heap, holder, depth, processes,
                       creator, active, freed, fate>>
        /\ TypeOK /\ LocksForm
    BY DEF SendStart, TypeInv, WellFormed, lockVars, vmVars
  <1>2. calls' \in [VM -> Nat] /\ gcs' \in [VM -> Nat]
    <2>1. calls \in [VM -> Nat] /\ gcs \in [VM -> Nat] /\ heap[q].collections \in Nat
      BY <1>1, HeapTypes DEF TypeOK
    <2> QED BY <1>1, <2>1
  <1>3. TypeOK'
    BY <1>1, <1>2 DEF TypeOK, PC
  <1>4. FormOf(p)'
    <2>1. pc'[p] = "sendLock" /\ peer'[p] = q /\ (p # Root => creator'[p] \in VM)
      BY <1>1, IdleForm DEF TypeOK
    <2> QED
      BY <2>1 DEF FormOf, Allocating, Looked, Requiring, Resting, Forking, ItemSteps, LifeSteps
  <1>5. LocksForm' /\ pc[p] # "unborn"
    BY <1>1 DEF LocksForm
  <1>6. \A r \in VM : r # p => /\ pc'[r] = pc[r] /\ code'[r] = code[r]
                               /\ after'[r] = after[r] /\ peer'[r] = peer[r]
    BY <1>1 DEF TypeOK
  <1> QED
    BY <1>1, <1>3, <1>4, <1>5, <1>6, CallStepType

LEMMA SendLockType ==
  ASSUME TypeInv, NEW p \in VM, SendLock(p)
  PROVE  TypeInv'
  <1>1. /\ pc[p] \in {"sendLock", "sendLockAgain"} /\ pc' = [pc EXCEPT ![p] = "run"]
        /\ Lock(p, peer[p]) /\ code' = [code EXCEPT ![p] = CopyTo(p, peer[p], kind[p])]
        /\ since' = [since EXCEPT ![p] = heap[p].collections] /\ made' = [made EXCEPT ![p] = {}]
        /\ UNCHANGED <<peer, kind, gcs, locked, count, calls, heap, processes, creator, active,
                       freed, fate>>
        /\ TypeOK /\ FormOf(p)
    BY DEF SendLock, TypeInv, WellFormed, vmVars
  <1>2. PICK a \in {"sendUnlock", "sendUnlockAgain"} : after' = [after EXCEPT ![p] = a]
    BY DEF SendLock
  <1>3. peer[p] \in VM /\ (p # Root => creator[p] \in VM)
    BY <1>1 DEF FormOf, Sending
  <1>4. LocksOK'
    BY <1>1, <1>3, ItemFacts, LockType
  <1>5. CopyTo(p, peer[p], kind[p]) \in Seq(Items)
    <2>1. \A n \in Nat : \A k : CopyTo(p, peer[p], k) \in Seq(Items)
      BY <1>3, ItemTypes
    <2> QED BY <2>1
  <1>6. since' \in [VM -> Nat] /\ made' \in [VM -> SUBSET [on: VM, collections: Nat]]
    <2>1. heap[p].collections \in Nat /\ since \in [VM -> Nat]
          /\ made \in [VM -> SUBSET [on: VM, collections: Nat]]
      BY <1>1, HeapTypes DEF TypeOK
    <2> QED BY <1>1, <2>1
  <1>7. TypeOK'
    <2>1. /\ pc' \in [VM -> PC] /\ code' \in [VM -> Seq(Items)]
          /\ after' \in [VM -> {"idle", "sendUnlock", "sendUnlockAgain", "forkRead"}]
      BY <1>1, <1>2, <1>5 DEF TypeOK, PC
    <2> QED
      BY <1>1, <1>4, <1>6, <2>1 DEF TypeOK, LocksOK
  <1>8. FormOf(p)'
    <2>1. pc'[p] = "run" /\ peer'[p] \in VM /\ after'[p] # "forkRead" /\ creator' = creator
      BY <1>1, <1>2, <1>3 DEF TypeOK
    <2> QED
      BY <1>3, <2>1 DEF FormOf, Allocating, Looked, Requiring, Resting, Forking, LifeSteps
  <1>9. pc[p] # "unborn" /\ \A r \in VM : r # p => /\ pc'[r] = pc[r] /\ code'[r] = code[r]
                                                  /\ after'[r] = after[r] /\ peer'[r] = peer[r]
    BY <1>1, <1>2 DEF TypeOK
  <1> QED
    BY <1>1, <1>4, <1>7, <1>8, <1>9, CallStepType DEF LocksOK

\* A step that only goes on in the same call: what p then is, it was before.
LEMMA GoOnType ==
  ASSUME TypeInv, NEW p \in VM, NEW to, TypeOK', LocksForm',
         pc' = [pc EXCEPT ![p] = to], pc[p] # "unborn", to # "unborn",
         to \notin Allocating \cup Requiring, to \in Resting => after[p] = "idle",
         Sending(p)' => Sending(p), Forking(p)' => Forking(p),
         UNCHANGED <<code, after, peer, creator>>
  PROVE  TypeInv'
  <1>1. TypeOK /\ FormOf(p)
    BY DEF TypeInv, WellFormed
  <1>2. pc'[p] = to /\ \A q \in VM : q # p => pc'[q] = pc[q]
    BY <1>1 DEF TypeOK
  <1>3. FormOf(p)'
    BY <1>1, <1>2 DEF FormOf
  <1> QED
    BY <1>2, <1>3, CallStepType

LEMMA RunEndType ==
  ASSUME TypeInv, NEW p \in VM, RunEnd(p)
  PROVE  TypeInv'
  <1>1. /\ pc[p] = "run" /\ pc' = [pc EXCEPT ![p] = after[p]] /\ TypeOK /\ LocksForm
        /\ UNCHANGED <<code, after, peer, kind, gcs, since, made, locked, count, calls, heap,
                       holder, depth, processes, creator, active, freed, fate>>
    BY DEF RunEnd, callVars, lockVars, vmVars, TypeInv, WellFormed
  <1>2. after[p] \in {"idle", "sendUnlock", "sendUnlockAgain", "forkRead"}
    BY <1>1 DEF TypeOK
  <1>3. TypeOK' /\ LocksForm'
    BY <1>1, <1>2 DEF TypeOK, PC, LocksForm
  <1>4. pc'[p] = after[p] /\ after' = after /\ pc[p] \in ItemSteps
    BY <1>1 DEF TypeOK, ItemSteps
  <1>5. (Sending(p)' => Sending(p)) /\ (Forking(p)' => Forking(p))
    BY <1>2, <1>4 DEF Sending, Forking, Copying, ItemSteps, LifeSteps
  <1>6. /\ after[p] # "unborn" /\ after[p] \notin Allocating \cup Requiring
        /\ (after[p] \in Resting => after[p] = "idle")
    BY <1>2 DEF Allocating, Looked, Requiring, Resting
  <1> QED
    BY <1>1, <1>3, <1>5, <1>6, GoOnType

LEMMA SendUnlockType ==
  ASSUME TypeInv, NEW p \in VM, SendUnlock(p)
  PROVE  TypeInv'
  <1>1. /\ pc[p] \in {"sendUnlock", "sendUnlockAgain"} /\ Unlock(p, peer[p]) /\ TypeOK /\ FormOf(p)
        /\ UNCHANGED <<code, after, peer, kind, gcs, since, made, locked, count, calls, heap,
                       processes, creator, active, freed, fate>>
    BY DEF SendUnlock, callVars, vmVars, TypeInv, WellFormed
  <1>2. PICK to \in {"sendCheck", "sendStore"} : pc' = [pc EXCEPT ![p] = to]
    BY DEF SendUnlock
  <1>3. Sending(p) /\ peer[p] \in VM
    BY <1>1 DEF Sending, FormOf
  <1>4. LocksOK'
    BY <1>3, <1>1, ItemFacts, UnlockType
  <1>5. pc'[p] = to /\ pc' \in [VM -> PC]
    BY <1>1, <1>2 DEF TypeOK, PC
  <1>6. TypeOK' /\ LocksForm'
    BY <1>1, <1>4, <1>5 DEF TypeOK, LocksOK
  <1>7. ~Forking(p)'
    BY <1>5 DEF Forking, ItemSteps, LifeSteps
  <1>8. to # "unborn" /\ to \notin Allocating \cup Requiring \cup Resting /\ pc[p] # "unborn"
    BY <1>1 DEF Allocating, Looked, Requiring, Resting
  <1> QED
    BY <1>1, <1>2, <1>3, <1>6, <1>7, <1>8, GoOnType

LEMMA SendCheckType ==
  ASSUME TypeInv, NEW p \in VM, SendCheck(p)
  PROVE  TypeInv'
  <1>1. /\ pc[p] = "sendCheck" /\ TypeOK /\ LocksForm
        /\ UNCHANGED <<code, after, peer, kind, gcs, since, made, locked, count, calls, heap,
                       holder, depth, processes, creator, active, freed, fate>>
    BY DEF SendCheck, callVars, lockVars, vmVars, TypeInv, WellFormed
  <1>2. PICK to \in {"sendLockAgain", "sendStore"} : pc' = [pc EXCEPT ![p] = to]
    BY DEF SendCheck
  <1>3. pc'[p] = to /\ pc' \in [VM -> PC]
    BY <1>1, <1>2 DEF TypeOK, PC
  <1>4. TypeOK' /\ LocksForm'
    BY <1>1, <1>3 DEF TypeOK, LocksForm
  <1>5. Sending(p) /\ ~Forking(p)'
    BY <1>1, <1>3 DEF Sending, Forking, ItemSteps, LifeSteps
  <1>6. to # "unborn" /\ to \notin Allocating \cup Requiring \cup Resting /\ pc[p] # "unborn"
    BY <1>1 DEF Allocating, Looked, Requiring, Resting
  <1> QED
    BY <1>1, <1>2, <1>4, <1>5, <1>6, GoOnType

LEMMA SendStoreType ==
  ASSUME TypeInv, NEW p \in VM, SendStore(p)
  PROVE  TypeInv'
  <1>1. /\ pc[p] = "sendStore" /\ pc' = [pc EXCEPT ![p] = "idle"]
        /\ after' = [after EXCEPT ![p] = "idle"] /\ peer' = [peer EXCEPT ![p] = NoVM]
        /\ kind' = [kind EXCEPT ![p] = "small"] /\ gcs' = [gcs EXCEPT ![p] = 0]
        /\ since' = [since EXCEPT ![p] = 0] /\ made' = [made EXCEPT ![p] = {}]
        /\ count' = [count EXCEPT ![p] = 0]
        /\ UNCHANGED <<code, locked, calls, heap, holder, depth, processes, creator, active,
                       freed, fate>>
        /\ TypeOK /\ LocksForm /\ FormOf(p)
    BY DEF SendStore, Return, lockVars, vmVars, TypeInv, WellFormed
  <1>2. TypeOK' /\ LocksForm'
    <2>1. /\ pc' \in [VM -> PC] /\ kind' \in [VM -> Kinds]
          /\ after' \in [VM -> {"idle", "sendUnlock", "sendUnlockAgain", "forkRead"}]
      BY <1>1 DEF TypeOK, PC, Kinds
    <2>2. /\ gcs' \in [VM -> Nat] /\ since' \in [VM -> Nat] /\ count' \in [VM -> Int]
          /\ peer' \in [VM -> VM \cup {NoVM}]
          /\ made' \in [VM -> SUBSET [on: VM, collections: Nat]]
      BY <1>1 DEF TypeOK
    <2> QED
      BY <1>1, <2>1, <2>2 DEF TypeOK, LocksForm
  <1>3. pc[p] # "unborn" /\ pc'[p] = "idle" /\ after'[p] = "idle" /\ creator' = creator
    BY <1>1 DEF TypeOK
  <1>4. FormOf(p)'
    BY <1>1, <1>3 DEF FormOf, Allocating, Looked, Requiring, Resting, Sending, Forking, ItemSteps,
       LifeSteps
  <1>5. \A r \in VM : r # p => /\ pc'[r] = pc[r] /\ code'[r] = code[r]
                               /\ after'[r] = after[r] /\ peer'[r] = peer[r]
    BY <1>1 DEF TypeOK
  <1> QED
    BY <1>2, <1>3, <1>4, <1>5, CallStepType

LEMMA LifeGoOnType ==
  ASSUME TypeInv, NEW p \in VM,
         ForkRead(p) \/ ForkWrite(p) \/ ForkFails(p) \/ StopRead(p) \/ StopWrite(p)
  PROVE  TypeInv'
  <1>1. /\ pc[p] \in LifeSteps /\ TypeOK /\ LocksForm /\ FormOf(p)
        /\ UNCHANGED <<code, after, peer, kind, gcs, since, made, locked, calls, heap,
                       holder, depth, creator, active, fate>>
    BY DEF ForkRead, ForkWrite, ForkFails, StopRead, StopWrite, LifeSteps, callVars, lockVars,
       vmVars, TypeInv, WellFormed
  <1>2. PICK to \in LifeSteps : pc' = [pc EXCEPT ![p] = to]
    BY DEF ForkRead, ForkWrite, ForkFails, StopRead, StopWrite, LifeSteps
  <1>3. Forking(p) /\ peer[p] \in VM /\ creator[peer[p]] \in VM
    BY <1>1 DEF Forking, FormOf
  <1>4. pc'[p] = to /\ pc' \in [VM -> PC] /\ to \in PC
    BY <1>1, <1>2, StepNames DEF TypeOK
  <1>5. count' \in [VM -> Int] /\ processes' \in [VM -> Int] /\ freed' \in [VM -> BOOLEAN]
    <2>1. /\ count \in [VM -> Int] /\ processes \in [VM -> Int] /\ freed \in [VM -> BOOLEAN]
          /\ count[p] + 1 \in Int /\ count[p] - 1 \in Int
      BY <1>1 DEF TypeOK
    <2>2. CASE ForkRead(p)
      BY <2>1, <2>2 DEF ForkRead, vmVars
    <2>3. CASE ForkWrite(p)
      BY <2>1, <2>3 DEF ForkWrite, callVars
    <2>4. CASE ForkFails(p)
      BY <1>3, <2>1, <2>4 DEF ForkFails, Free, callVars
    <2>5. CASE StopRead(p)
      BY <1>3, <2>1, <2>5 DEF StopRead, vmVars
    <2>6. CASE StopWrite(p)
      BY <1>3, <2>1, <2>6 DEF StopWrite, callVars
    <2> QED
      BY <2>2, <2>3, <2>4, <2>5, <2>6
  <1>6. TypeOK' /\ LocksForm'
    BY <1>1, <1>4, <1>5 DEF TypeOK, LocksForm
  <1>7. /\ pc[p] # "unborn" /\ to # "unborn" /\ to \notin Allocating \cup Requiring \cup Resting
        /\ to \notin ItemSteps
    BY <1>1 DEF LifeSteps, Allocating, Looked, Requiring, Resting, ItemSteps
  <1>8. ~Sending(p)'
    BY <1>4, <1>7 DEF Sending, LifeSteps
  <1> QED
    BY <1>1, <1>2, <1>3, <1>6, <1>7, <1>8, GoOnType

LEMMA StopType ==
  ASSUME TypeInv, NEW p \in VM, Stop(p)
  PROVE  TypeInv'
  <1>1. /\ p \in MayStop /\ pc[p] = "idle" /\ pc' = [pc EXCEPT ![p] = "stopRead"]
        /\ peer' = [peer EXCEPT ![p] = p] /\ freed' = [freed EXCEPT ![p] = TRUE]
        /\ UNCHANGED <<code, after, kind, gcs, since, made, locked, count, calls, heap,
                       holder, depth, processes, creator, active, fate>>
        /\ TypeOK /\ LocksForm
    BY DEF Stop, Free, lockVars, TypeInv, WellFormed
  <1>2. TypeOK' /\ LocksForm'
    BY <1>1 DEF TypeOK, PC, LocksForm
  <1>3. p # Root
    BY <1>1, StopAssumption
  <1>4. /\ pc[p] # "unborn" /\ pc'[p] = "stopRead" /\ after'[p] = "idle" /\ peer'[p] = p
        /\ creator' = creator /\ creator[p] \in VM
    BY <1>1, <1>3, IdleForm DEF TypeOK
  <1>5. FormOf(p)'
    BY <1>4 DEF FormOf, Allocating, Looked, Requiring, Resting, Sending, Forking, ItemSteps
  <1>6. \A r \in VM : r # p => /\ pc'[r] = pc[r] /\ code'[r] = code[r]
                               /\ after'[r] = after[r] /\ peer'[r] = peer[r]
    BY <1>1 DEF TypeOK
  <1> QED
    BY <1>2, <1>4, <1>5, <1>6, CallStepType

\* The new VM had no creator, so nobody else is starting it.
LEMMA ForkType ==
  ASSUME TypeInv, NEW p \in VM, NEW c \in VM, Fork(p, c)
  PROVE  TypeInv'
  <1>1. /\ pc[c] = "unborn" /\ creator[c] = NoVM /\ c # p
        /\ pc[p] = "idle" /\ pc' = [pc EXCEPT ![p] = "run"] /\ calls' = [calls EXCEPT ![p] = @ + 1]
        /\ heap' = [heap EXCEPT ![c] = NewHeap(heap[p].size)]
        /\ processes' = [processes EXCEPT ![c] = 1] /\ creator' = [creator EXCEPT ![c] = p]
        /\ peer' = [peer EXCEPT ![p] = c] /\ after' = [after EXCEPT ![p] = "forkRead"]
        /\ code' = [code EXCEPT ![p] = CopyTo(p, c, "small")]
        /\ UNCHANGED <<kind, gcs, since, made, locked, count, holder, depth, active, freed, fate>>
        /\ TypeOK /\ LocksForm /\ \A q \in VM : FormOf(q)
    BY ForkAssumption DEF Fork, Begin, lockVars, TypeInv, WellFormed
  <1>2. TypeOK'
    <2>1. CopyTo(p, c, "small") \in Seq(Items)
      <3>1. \A n \in Nat : \A k : CopyTo(p, c, k) \in Seq(Items)
        BY ItemTypes
      <3> QED BY <3>1
    <2>2. NewHeap(heap[p].size) \in Heap
      BY HeapTypes DEF NewHeap, Heap
    <2>3. calls' \in [VM -> Nat]
      <3>1. calls \in [VM -> Nat]
        BY <1>1 DEF TypeOK
      <3> QED BY <1>1, <3>1
    <2>4. /\ pc' \in [VM -> PC]
          /\ after' \in [VM -> {"idle", "sendUnlock", "sendUnlockAgain", "forkRead"}]
      BY <1>1 DEF TypeOK, PC
    <2>5. code' \in [VM -> Seq(Items)] /\ heap' \in [VM -> Heap]
      <3>1. code \in [VM -> Seq(Items)] /\ heap \in [VM -> Heap]
        BY <1>1 DEF TypeOK
      <3> QED BY <1>1, <2>1, <2>2, <3>1
    <2>6. /\ peer' \in [VM -> VM \cup {NoVM}] /\ creator' \in [VM -> VM \cup {NoVM}]
          /\ processes' \in [VM -> Int]
      BY <1>1 DEF TypeOK
    <2> QED
      BY <1>1, <2>3, <2>4, <2>5, <2>6 DEF TypeOK
  <1>3. LocksForm'
    BY <1>1 DEF LocksForm
  <1>4. /\ pc'[p] = "run" /\ after'[p] = "forkRead" /\ peer'[p] = c /\ pc'[c] = "unborn"
        /\ creator'[c] = p /\ (p # Root => creator'[p] \in VM)
    BY <1>1, IdleForm DEF TypeOK
  <1>5. FormOf(p)'
    BY <1>1, <1>4 DEF FormOf, Allocating, Looked, Requiring, Resting, Sending, Copying
  <1>6. ASSUME NEW q \in VM, q # p
        PROVE  FormOf(q)'
    <2>1. /\ pc'[q] = pc[q] /\ code'[q] = code[q] /\ after'[q] = after[q] /\ peer'[q] = peer[q]
          /\ (Sending(q)' <=> Sending(q)) /\ (Forking(q)' <=> Forking(q))
      BY <1>1, <1>6 DEF TypeOK, Sending, Forking, Copying
    <2>2. \A r \in VM : creator[r] \in VM => creator'[r] = creator[r]
      BY <1>1, RootAssumption DEF TypeOK
    <2>3. \A r \in VM : pc[r] = "unborn" => pc'[r] = "unborn"
      BY <1>1 DEF TypeOK
    <2>4. FormOf(q)
      BY <1>1
    <2> QED
      BY <2>1, <2>2, <2>3, <2>4 DEF FormOf
  <1> QED
    BY <1>2, <1>3, <1>5, <1>6 DEF TypeInv, WellFormed

\* The VM that is started, or comes to its end, is that of the thread or the
\* one that only this thread has.
LEMMA LifeEndType ==
  ASSUME TypeInv, NEW p \in VM, NEW to \in {"idle", "stopped"}, pc[p] \in LifeSteps,
         pc' = [pc EXCEPT ![p] = "idle", ![peer[p]] = to],
         after' = [after EXCEPT ![p] = "idle"], peer' = [peer EXCEPT ![p] = NoVM],
         count' = [count EXCEPT ![p] = 0], active' \in [VM -> BOOLEAN],
         UNCHANGED <<code, kind, gcs, since, made, locked, calls, heap, lockVars, processes,
                     creator, freed, fate>>
  PROVE  TypeInv'
  <1> DEFINE c == peer[p]
  <1>1. TypeOK /\ LocksForm /\ \A q \in VM : FormOf(q)
    BY DEF TypeInv, WellFormed
  <1>2. /\ c \in VM /\ creator[c] \in VM /\ Forking(p) /\ pc[p] \notin Resting
        /\ (after[p] = "forkRead" => c # p /\ pc[c] = "unborn" /\ creator[c] = p)
        /\ (after[p] # "forkRead" => c = p)
    BY <1>1 DEF FormOf, Forking, LifeSteps, Resting
  <1>3. after[c] = "idle" \/ c = p
    BY <1>1, <1>2 DEF FormOf, Resting
  <1>4. c \in VM /\ pc' = [pc EXCEPT ![p] = "idle", ![c] = to] /\ pc[p] # "unborn"
    BY <1>2 DEF Resting
  <1> HIDE DEF c
  <1>5. TypeOK'
    <2>1. /\ peer' \in [VM -> VM \cup {NoVM}] /\ count' \in [VM -> Int]
          /\ after' \in [VM -> {"idle", "sendUnlock", "sendUnlockAgain", "forkRead"}]
      BY <1>1 DEF TypeOK
    <2>2. pc' \in [VM -> PC]
      <3>1. pc \in [VM -> PC] /\ "idle" \in PC /\ to \in PC
        BY <1>1 DEF TypeOK, PC
      <3> QED BY <1>4, <3>1
    <2> QED
      BY <1>1, <2>1, <2>2 DEF TypeOK, lockVars
  <1>6. LocksForm'
    BY <1>1 DEF LocksForm, lockVars
  <1>7. /\ pc'[c] = to /\ (p # c => pc'[p] = "idle")
        /\ \A q \in VM : q # p /\ q # c => pc'[q] = pc[q]
        /\ after'[p] = "idle" /\ \A q \in VM : q # p => after'[q] = after[q] /\ peer'[q] = peer[q]
    BY <1>1, <1>4 DEF TypeOK
  <1>8. \A q \in {p, c} : /\ pc'[q] \in {"idle", "stopped"} /\ after'[q] = "idle"
                          /\ (q # Root => creator'[q] \in VM)
    <2>1. p # Root => creator[p] \in VM
      BY <1>1, <1>4 DEF FormOf
    <2> QED
      BY <1>2, <1>3, <1>7, <2>1 DEF c
  <1>9. \A q \in {p, c} : FormOf(q)'
    BY <1>8 DEF FormOf, Allocating, Looked, Requiring, Resting, Sending, Forking, ItemSteps,
       LifeSteps
  <1>10. ASSUME NEW q \in VM, q # p, q # c
         PROVE  FormOf(q)'
    <2>1. /\ pc'[q] = pc[q] /\ code'[q] = code[q] /\ after'[q] = after[q] /\ peer'[q] = peer[q]
          /\ creator' = creator
          /\ (Sending(q)' <=> Sending(q)) /\ (Forking(q)' <=> Forking(q)) /\ FormOf(q)
      BY <1>1, <1>7, <1>10 DEF Sending, Forking, Copying
    <2>2. \A r \in VM : pc[r] = "unborn" /\ creator[r] = q => pc'[r] = "unborn"
      <3>1. \A r \in VM : pc[r] = "unborn" /\ creator[r] = q => r # p /\ r # c
        BY <1>2, <1>4, <1>10 DEF c
      <3> QED
        BY <1>7, <3>1
    <2> QED
      BY <2>1, <2>2 DEF FormOf
  <1> QED
    BY <1>5, <1>6, <1>9, <1>10 DEF TypeInv, WellFormed

LEMMA ForkStartType ==
  ASSUME TypeInv, NEW p \in VM, ForkStart(p)
  PROVE  TypeInv'
  <1>1. /\ pc[p] \in LifeSteps /\ pc' = [pc EXCEPT ![p] = "idle", ![peer[p]] = "idle"]
        /\ after' = [after EXCEPT ![p] = "idle"] /\ peer' = [peer EXCEPT ![p] = NoVM]
        /\ count' = [count EXCEPT ![p] = 0]
        /\ UNCHANGED <<code, kind, gcs, since, made, locked, calls, heap, lockVars, processes,
                       creator, active, freed, fate>>
    BY DEF ForkStart, LifeSteps, vmVars
  <1>2. active' \in [VM -> BOOLEAN]
    BY <1>1 DEF TypeInv, TypeOK
  <1> QED
    BY <1>1, <1>2, LifeEndType

LEMMA StopInactiveType ==
  ASSUME TypeInv, NEW p \in VM, StopInactive(p)
  PROVE  TypeInv'
  <1>1. /\ pc[p] \in LifeSteps /\ pc' = [pc EXCEPT ![p] = "idle", ![peer[p]] = "stopped"]
        /\ after' = [after EXCEPT ![p] = "idle"] /\ peer' = [peer EXCEPT ![p] = NoVM]
        /\ count' = [count EXCEPT ![p] = 0] /\ active' = [active EXCEPT ![peer[p]] = FALSE]
        /\ UNCHANGED <<code, kind, gcs, since, made, locked, calls, heap, lockVars, processes,
                       creator, freed, fate>>
    BY DEF StopInactive, LifeSteps
  <1>2. active' \in [VM -> BOOLEAN]
    BY <1>1 DEF TypeInv, TypeOK
  <1> QED
    BY <1>1, <1>2, LifeEndType

-----------------------------------------------------------------------------
(* TypeInv is an invariant                                                   *)

LEMMA InitTypeInv == Init => TypeInv
  <1> SUFFICES ASSUME Init PROVE TypeInv
    OBVIOUS
  <1>1. NewHeap(HeapSize) \in Heap /\ <<>> \in Seq(Items)
    BY SizeAssumption DEF NewHeap, Heap
  <1>2. TypeOK
    BY <1>1 DEF Init, TypeOK, PC, Kinds
  <1>3. \A p \in VM : pc[p] \in {"idle", "unborn"} /\ after[p] = "idle" /\ (p # Root => pc[p] = "unborn")
    BY DEF Init
  <1>4. \A p \in VM : FormOf(p)
    BY <1>3 DEF FormOf, Allocating, Looked, Requiring, Sending, Forking, ItemSteps, LifeSteps
  <1>5. LocksForm
    BY DEF Init, LocksForm
  <1> QED
    BY <1>2, <1>4, <1>5 DEF TypeInv, WellFormed

\* A step that changes at most fate.
LEMMA StutterType ==
  ASSUME TypeInv, UNCHANGED <<pc, callVars, calls, heap, lockVars, vmVars>>,
         fate' \in {"run", "dangling"}
  PROVE  TypeInv'
  <1>1. UNCHANGED <<pc, code, after, peer, kind, gcs, since, made, locked, count, calls, heap,
                    holder, depth, processes, creator, active, freed>>
    BY DEF callVars, lockVars, vmVars
  <1>2. TypeOK' /\ LocksForm'
    BY <1>1 DEF TypeInv, TypeOK, WellFormed, LocksForm
  <1>3. \A p \in VM : FormOf(p)'
    BY <1>1 DEF TypeInv, WellFormed, FormOf, Sending, Forking, Copying
  <1> QED
    BY <1>2, <1>3 DEF TypeInv, WellFormed

LEMMA StartTypeInv ==
  ASSUME TypeInv, NEW p \in VM, Start(p)
  PROVE  TypeInv'
  BY AllocateType, BareType, BigOperationType, SendStartType, ForkType, StopType DEF Start

LEMMA StepTypeInv ==
  ASSUME TypeInv, NEW p \in VM, Step(p)
  PROVE  TypeInv'
  <1>1. CASE AllocStep(p)
    BY <1>1, AllocStartType, AllocLookType, AllocBumpType, AllocCollectType, AllocGrowType
       DEF AllocStep
  <1>2. CASE BracketStep(p)
    BY <1>2, RequireStartType, RequireCollectType, RequireReadType, RequireLockType, DoneType,
       RunEndType DEF BracketStep
  <1>3. CASE SendStep(p)
    BY <1>3, SendLockType, SendUnlockType, SendCheckType, SendStoreType DEF SendStep
  <1>4. CASE LifeStep(p)
    BY <1>4, LifeGoOnType, ForkStartType, StopInactiveType DEF LifeStep
  <1>5. CASE Dangling(p)
    BY <1>5, StutterType DEF Dangling
  <1>6. CASE CollectStep(p)
    BY <1>6, GcStartType, GcType, InsertOnlyType DEF CollectStep
  <1> QED
    BY <1>1, <1>2, <1>3, <1>4, <1>5, <1>6 DEF Step

LEMMA NextTypeInv ==
  ASSUME TypeInv, [Next \/ Finished]_vars
  PROVE  TypeInv'
  <1>1. CASE Next
    BY <1>1, StartTypeInv, StepTypeInv DEF Next
  <1>2. CASE Finished \/ UNCHANGED vars
    <2>1. UNCHANGED vars
      BY <1>2 DEF Finished
    <2>2. fate' \in {"run", "dangling"} /\ UNCHANGED <<pc, callVars, calls, heap, lockVars, vmVars>>
      BY <2>1 DEF vars, TypeInv, TypeOK
    <2> QED
      BY <2>2, StutterType
  <1> QED
    BY <1>1, <1>2

\* Every variable keeps its type, whatever is allocated, sent, forked or
\* stopped: no heap size and no lock depth becomes negative, and a thread
\* inside a call always has the item and the VM its next step uses.
THEOREM SharingTypes == Spec => []TypeOK
  <1>1. TypeInv => TypeOK
    BY DEF TypeInv
  <1> QED
    BY <1>1, InitTypeInv, NextTypeInv, PTL DEF Spec

-----------------------------------------------------------------------------
(* One thread in a heap                                                      *)

\* What the first item of a call is about.
LEMMA TodoTarget ==
  ASSUME TypeInv, ThreadInv, NEW p \in VM, pc[p] \in ItemSteps, code[p] # <<>>
  PROVE  /\ Todo(p).do \notin {"require", "done"} /\ Todo(p).on = Target(p)
         /\ after[p] = "idle" /\ p \in Dests => ~Todo(p).outer
         /\ Todo(p).do \in {"gc", "insert"} => Todo(p).outer
  <1>1. code[p] \in Seq(Items)
    BY DEF TypeInv, TypeOK
  <1>2. 1 \in DOMAIN code[p] /\ Todo(p) = code[p][1]
    BY <1>1 DEF Todo
  <1> QED
    BY <1>2 DEF ThreadInv, CodeOf

\* Who looked at the room of a heap: its owner, a sender, or a creator.
LEMMA WhoLooks ==
  ASSUME TypeInv, ThreadInv, NEW p \in VM, pc[p] \in Looked
  PROVE  LET h == Todo(p).on IN
         /\ h \in VM /\ pc[p] \notin Resting
         /\ \/ after[p] = "idle" /\ h = p /\ pc[h] # "unborn"
               /\ (holder[p] = p \/ p \notin Dests \/ processes[p] <= 0)
            \/ after[p] = "forkRead" /\ pc[h] = "unborn" /\ creator[h] = p
            \/ Copying(p) /\ pc[h] # "unborn" /\ holder[h] = p /\ h # p /\ h \in Dests
  <1>1. pc[p] \in Allocating /\ pc[p] \in ItemSteps /\ pc[p] \notin Resting /\ pc[p] # "unborn"
    BY DEF Looked, Allocating, ItemSteps, Resting
  <1>2. FormOf(p) /\ CodeOf(p) /\ PeerOf(p) /\ LockOf(p) /\ CountOf(p)
    BY DEF TypeInv, WellFormed, ThreadInv
  <1>3. code[p] # <<>>
    BY <1>1, <1>2 DEF FormOf
  <1>4. Todo(p).on = Target(p) /\ Todo(p).on \in VM
    BY <1>1, <1>3, TodoTarget, TodoType
  <1>5. after[p] \in {"idle", "sendUnlock", "sendUnlockAgain", "forkRead"}
    BY DEF TypeInv, TypeOK
  <1>6. CASE after[p] = "idle"
    BY <1>1, <1>2, <1>4, <1>6 DEF Target, LockOf, CountOf
  <1>7. CASE after[p] = "forkRead"
    BY <1>1, <1>2, <1>4, <1>7 DEF Target, FormOf, Forking
  <1>8. CASE Copying(p)
    BY <1>1, <1>2, <1>4, <1>8 DEF Target, PeerOf, LockOf, Sending, Copying
  <1> QED
    BY <1>1, <1>4, <1>5, <1>6, <1>7, <1>8 DEF Copying

\* A VM whose heap a sender is in is one that can be sent to.
LEMMA TargetNamed ==
  ASSUME TypeInv, ThreadInv, NEW p \in VM, NEW h \in VM, h # p, pc[h] # "unborn",
         pc[p] \notin Resting
  PROVE  processes[h] >= 1
  <1>1. CASE h = Root
    <2>1. pc[p] \notin {"unborn", "stopped"}
      BY DEF Resting
    <2> QED
      BY <1>1, <2>1 DEF ThreadInv, CountOf, Named
  <1>2. CASE h # Root
    <2>1. creator[h] # NoVM
      BY <1>2, RootAssumption DEF TypeInv, WellFormed, FormOf
    <2> QED
      BY <1>2, <2>1 DEF ThreadInv, CountOf, Named
  <1> QED
    BY <1>1, <1>2

LEMMA Exclusion ==
  ASSUME TypeInv, ThreadInv, NEW p \in VM, NEW q \in VM, pc[p] \in Looked, pc[q] \in Looked,
         Todo(p).on = Todo(q).on
  PROVE  p = q
  <1> DEFINE h == Todo(p).on
  <1>1. h \in VM /\ h = Todo(q).on /\ processes[h] \in Int
    BY WhoLooks DEF TypeInv, TypeOK
  <1> HIDE DEF h
  <1>2. ASSUME NEW r \in VM, NEW o \in VM, pc[r] \in Looked, pc[o] \in Looked,
               Todo(r).on = h, Todo(o).on = h, after[o] = "idle", after[r] # "idle"
        PROVE  FALSE
    <2>1. /\ h = o /\ pc[h] # "unborn"
          /\ (holder[o] = o \/ o \notin Dests \/ processes[o] <= 0)
      BY <1>2, WhoLooks DEF Copying
    <2>2. pc[r] \notin Resting /\ Copying(r) /\ holder[h] = r /\ h # r /\ h \in Dests
      BY <1>2, <2>1, WhoLooks
    <2>3. processes[h] >= 1
      BY <1>1, <2>1, <2>2, TargetNamed
    <2> QED
      BY <1>1, <2>1, <2>2, <2>3
  <1>3. CASE after[p] = "idle" /\ after[q] = "idle"
    BY <1>1, <1>3, WhoLooks DEF Copying, h
  <1>4. CASE after[p] = "idle" /\ after[q] # "idle"
    BY <1>1, <1>2, <1>4 DEF h
  <1>5. CASE after[p] # "idle" /\ after[q] = "idle"
    BY <1>1, <1>2, <1>5 DEF h
  <1>6. CASE after[p] # "idle" /\ after[q] # "idle"
    BY <1>1, <1>6, WhoLooks DEF h
  <1> QED
    BY <1>3, <1>4, <1>5, <1>6

LEMMA InvExclusive ==
  ASSUME TypeInv, ThreadInv
  PROVE  HeapExclusive
  <1> SUFFICES ASSUME NEW h \in VM, NEW p \in VM, NEW q \in VM, Inside(p, h), Inside(q, h)
               PROVE  p = q
    BY DEF HeapExclusive
  <1>1. pc[p] \notin Requiring /\ pc[q] \notin Requiring
    BY DEF ThreadInv, CodeOf
  <1>2. pc[p] \in Looked /\ pc[q] \in Looked
    BY <1>1 DEF Inside, Looked, Requiring
  <1> QED
    BY <1>2, Exclusion DEF Inside

-----------------------------------------------------------------------------
(* A step of p, seen by the others                                           *)

\* What p writes belongs to p, except heaps and locks nobody else holds.
OnlyOf(p) ==
  /\ UNCHANGED creator
  /\ \A q \in VM : q # p =>
       /\ code'[q] = code[q] /\ after'[q] = after[q] /\ peer'[q] = peer[q]
       /\ kind'[q] = kind[q] /\ locked'[q] = locked[q] /\ count'[q] = count[q]
       /\ processes'[q] = processes[q]
  /\ \A h \in VM : holder[h] \notin {NoVM, p} => holder'[h] = holder[h] /\ depth'[h] = depth[h]

OwnInv(p) == CodeOf(p) /\ PeerOf(p) /\ LockOf(p) /\ CountOf(p)

LEMMA LockKept ==
  ASSUME TypeInv, NEW p \in VM, NEW h \in VM, NEW g \in VM, holder[g] \notin {NoVM, p},
         Lock(p, h) \/ Unlock(p, h) \/ UNCHANGED lockVars
  PROVE  holder'[g] = holder[g] /\ depth'[g] = depth[g]
  <1>1. holder \in [VM -> VM \cup {NoVM}] /\ depth \in [VM -> Nat]
    BY DEF TypeInv, TypeOK
  <1>2. CASE Lock(p, h)
    <2>1. g # h
      BY <1>2 DEF Lock
    <2> QED
      BY <1>1, <1>2, <2>1 DEF Lock
  <1>3. CASE Unlock(p, h)
    <2>1. CASE holder[h] # p
      BY <1>3, <2>1 DEF Unlock, lockVars
    <2>2. CASE holder[h] = p
      BY <1>1, <1>3, <2>2 DEF Unlock
    <2> QED
      BY <2>1, <2>2
  <1>4. CASE UNCHANGED lockVars
    BY <1>4 DEF lockVars
  <1> QED
    BY <1>2, <1>3, <1>4

\* The counter of q is as it was, and so is what it stands for.
LEMMA CountKept ==
  ASSUME NEW q \in VM, CountOf(q), processes'[q] = processes[q], Named(q)' => Named(q),
         Increased(q)' => Increased(q),
         pc'[q] \in {"forkWrite", "stopWrite"} =>
           pc[q] \in {"forkWrite", "stopWrite"} /\ count'[q] = count[q],
         pc'[q] \in Allocating /\ after'[q] = "idle" /\ ~locked'[q] /\ q \in Dests
           => processes[q] <= 0
  PROVE  CountOf(q)'
  BY DEF CountOf

LEMMA NamedKept ==
  ASSUME TypeInv, NEW p \in VM, NEW to, pc' = [pc EXCEPT ![p] = to],
         pc[p] \notin {"unborn", "stopped"}, creator' = creator, NEW q \in VM
  PROVE  Named(q)' => Named(q)
  <1>1. \A c \in VM : pc'[c] \notin {"unborn", "stopped"} => pc[c] \notin {"unborn", "stopped"}
    BY DEF TypeInv, TypeOK
  <1> QED
    BY <1>1 DEF Named

\* q goes on as it was.
LEMMA SameThread ==
  ASSUME TypeInv, ThreadInv, NEW q \in VM,
         pc'[q] = pc[q], code'[q] = code[q], after'[q] = after[q], peer'[q] = peer[q],
         kind'[q] = kind[q], locked'[q] = locked[q], count'[q] = count[q],
         processes'[q] = processes[q], Named(q)' => Named(q),
         \A r \in VM : pc[r] # "unborn" => pc'[r] # "unborn",
         \A h \in VM : holder[h] = q => holder'[h] = q /\ depth'[h] = depth[h]
  PROVE  OwnInv(q)'
  <1>1. /\ CodeOf(q) /\ PeerOf(q) /\ LockOf(q) /\ CountOf(q) /\ (Sending(q) => peer[q] \in VM)
    BY DEF ThreadInv, TypeInv, WellFormed, FormOf
  <1>2. /\ (Sending(q)' <=> Sending(q)) /\ (Forking(q)' <=> Forking(q))
        /\ (Copying(q)' <=> Copying(q)) /\ (Increased(q)' <=> Increased(q))
        /\ Target(q)' = Target(q)
    BY DEF Sending, Forking, Copying, Increased, Target
  <1>3. CodeOf(q)'
    BY <1>1, <1>2 DEF CodeOf
  <1>4. PeerOf(q)'
    BY <1>1, <1>2 DEF PeerOf
  <1>5. LockOf(q)'
    <2>1. Copying(q) /\ pc[q] \in ItemSteps => peer[q] \in VM
      BY <1>1 DEF Sending
    <2> QED
      BY <1>1, <1>2, <2>1 DEF LockOf
  <1>6. CountOf(q)'
    <2>1. pc[q] \in Allocating /\ after[q] = "idle" /\ ~locked[q] /\ q \in Dests
            => processes[q] <= 0
      BY <1>1 DEF CountOf
    <2> QED
      BY <1>1, <1>2, <2>1, CountKept
  <1> QED
    BY <1>3, <1>4, <1>5, <1>6 DEF OwnInv

LEMMA ThreadStep ==
  ASSUME TypeInv, ThreadInv, NEW p \in VM, NEW to, pc' = [pc EXCEPT ![p] = to],
         pc[p] \notin {"unborn", "stopped"}, to # "unborn", OnlyOf(p), OwnInv(p)'
  PROVE  ThreadInv'
  <1>1. pc \in [VM -> PC] /\ pc'[p] = to /\ \A q \in VM : q # p => pc'[q] = pc[q]
    BY DEF TypeInv, TypeOK
  <1>2. \A q \in VM : pc[q] # "unborn" => pc'[q] # "unborn"
    BY <1>1
  <1>3. ASSUME NEW q \in VM, q # p
        PROVE  OwnInv(q)'
    <2>1. /\ pc'[q] = pc[q] /\ code'[q] = code[q] /\ after'[q] = after[q] /\ peer'[q] = peer[q]
          /\ kind'[q] = kind[q] /\ locked'[q] = locked[q] /\ count'[q] = count[q]
          /\ processes'[q] = processes[q] /\ creator' = creator
      BY <1>1, <1>3 DEF OnlyOf
    <2>2. \A h \in VM : holder[h] = q => holder'[h] = q /\ depth'[h] = depth[h]
      BY <1>3, RootAssumption DEF OnlyOf
    <2>3. Named(q)' => Named(q)
      BY <2>1, NamedKept
    <2> QED
      BY <1>2, <2>1, <2>2, <2>3, SameThread
  <1>4. pc'[Root] # "unborn"
    BY <1>2, RootAssumption DEF ThreadInv
  <1> QED
    BY <1>3, <1>4 DEF ThreadInv, OwnInv

-----------------------------------------------------------------------------
(* ThreadInv: the steps of iallocate *)

LEMMA AllocNames ==
  /\ Allocating \subseteq ItemSteps /\ "run" \in ItemSteps /\ "run" \notin Allocating
  /\ "look" \in Allocating /\ "look" \notin Looked /\ Looked \subseteq Allocating
  /\ "bump" \in Looked /\ "collect" \in Looked /\ "grow" \in Looked /\ "gc" \in Looked
  /\ ItemSteps \cap {"forkWrite", "forkStart", "stopRead", "stopWrite", "unborn", "stopped"} = {}
  /\ ({"run"} \cup Allocating) \cap Requiring = {}
  BY DEF Allocating, Looked, ItemSteps, Requiring

LEMMA AllocThread ==
  ASSUME TypeInv, ThreadInv, NEW p \in VM, NEW to \in {"run"} \cup Allocating,
         pc[p] \in {"run"} \cup Allocating, code[p] # <<>>, pc' = [pc EXCEPT ![p] = to],
         code' = code \/ (to = "run" /\ NextItem(p)),
         UNCHANGED <<after, peer, kind, count, vmVars>>,
         \A q \in VM : q # p => locked'[q] = locked[q],
         locked'[p] => to \in Allocating \ {"gc"},
         to \in Allocating /\ after[p] = "idle" /\ ~locked'[p] /\ p \in Dests => processes[p] <= 0,
         Lock(p, Todo(p).on) \/ Unlock(p, Todo(p).on) \/ UNCHANGED lockVars,
         LockOf(p)'
  PROVE  ThreadInv'
  <1>1. /\ pc'[p] = to /\ to \in ItemSteps /\ pc[p] \in ItemSteps /\ to # "unborn"
        /\ pc[p] \notin {"unborn", "stopped"}
    BY AllocNames DEF TypeInv, TypeOK
  <1>2. CodeOf(p) /\ PeerOf(p) /\ CountOf(p)
    BY DEF ThreadInv
  <1>3. code[p] \in Seq(Items) /\ code \in [VM -> Seq(Items)] /\ pc \in [VM -> PC]
    BY DEF TypeInv, TypeOK
  <1>4. Todo(p).on \in VM
    BY TodoType
  <1>5. OnlyOf(p)
    <2>1. \A q \in VM : q # p => code'[q] = code[q]
      BY <1>3 DEF NextItem
    <2>2. \A h \in VM : holder[h] \notin {NoVM, p} => holder'[h] = holder[h] /\ depth'[h] = depth[h]
      BY <1>4, LockKept
    <2> QED
      BY <2>1, <2>2 DEF OnlyOf, vmVars
  <1>6. CodeOf(p)'
    <2>1. Target(p)' = Target(p) /\ after' = after /\ kind' = kind
      BY DEF Target
    <2>2. CASE code' = code
      BY <1>1, <1>2, <2>1, <2>2, AllocNames DEF CodeOf
    <2>3. CASE NextItem(p)
      <3>1. code'[p] = Tail(code[p])
        BY <1>3, <2>3 DEF NextItem
      <3>2. \A i \in DOMAIN Tail(code[p]) : i + 1 \in DOMAIN code[p] /\ Tail(code[p])[i] = code[p][i + 1]
        BY <1>3
      <3> QED
        BY <1>1, <1>2, <2>1, <3>1, <3>2, AllocNames DEF CodeOf
    <2> QED
      BY <2>2, <2>3
  <1>7. PeerOf(p)'
    <2>1. (Sending(p)' => Sending(p)) /\ (Forking(p)' => Forking(p)) /\ peer' = peer /\ after' = after
      BY <1>1 DEF Sending, Forking, Copying, ItemSteps, LifeSteps
    <2>2. Sending(p) => peer[p] \in VM
      BY DEF TypeInv, WellFormed, FormOf
    <2> QED
      BY <1>2, <1>3, <2>1, <2>2 DEF PeerOf
  <1>8. CountOf(p)'
    <2>1. /\ Named(p)' => Named(p)
      BY <1>1, NamedKept DEF vmVars
    <2>2. ~Increased(p)' /\ pc'[p] \notin {"forkWrite", "stopWrite"}
      BY <1>1, AllocNames DEF Increased
    <2> QED
      BY <1>1, <1>2, <2>1, <2>2, CountKept DEF vmVars
  <1> QED
    BY <1>1, <1>5, <1>6, <1>7, <1>8, ThreadStep DEF OwnInv

LEMMA AllocStartThread ==
  ASSUME TypeInv, ThreadInv, NEW p \in VM, AllocStart(p)
  PROVE  ThreadInv'
  <1>1. /\ pc[p] = "run" /\ code[p] # <<>> /\ pc' = [pc EXCEPT ![p] = "look"]
        /\ locked' = [locked EXCEPT ![p] = Locks(p)] /\ UNCHANGED <<code, holder, depth>>
        /\ UNCHANGED <<after, peer, kind, count, vmVars>>
    BY DEF AllocStart, lockVars
  <1>2. /\ locked'[p] = Locks(p) /\ (\A q \in VM : q # p => locked'[q] = locked[q])
        /\ pc'[p] = "look"
    BY <1>1 DEF TypeInv, TypeOK
  <1>3. after[p] = "idle" /\ ~locked'[p] /\ p \in Dests => processes[p] <= 0
    <2>1. after[p] = "idle" /\ p \in Dests => Todo(p).on = p /\ ~Todo(p).outer
      BY <1>1, TodoTarget, AllocNames DEF Target
    <2>2. processes[p] \in Int
      BY DEF TypeInv, TypeOK
    <2>3. ~locked'[p] => ~Locks(p)
      BY <1>2, Zenon
    <2>4. after[p] = "idle" /\ ~Locks(p) /\ p \in Dests => processes[p] <= 0
      BY <2>1, <2>2 DEF Locks
    <2> QED
      BY <2>3, <2>4
  <1>4. LockOf(p)'
    <2>1. LockOf(p) /\ pc'[p] \in ItemSteps /\ pc[p] \in ItemSteps /\ (Copying(p)' <=> Copying(p))
      BY <1>1, <1>2, AllocNames DEF ThreadInv, Copying
    <2> QED
      BY <1>1, <1>2, <2>1, AllocNames DEF LockOf
  <1> QED
    BY <1>1, <1>2, <1>3, <1>4, AllocThread, AllocNames DEF lockVars

LEMMA AllocLookThread ==
  ASSUME TypeInv, ThreadInv, NEW p \in VM, AllocLook(p)
  PROVE  ThreadInv'
  <1>1. /\ pc[p] = "look" /\ LockIfWanted(p) /\ UNCHANGED <<code, locked>>
        /\ UNCHANGED <<after, peer, kind, count, vmVars>>
    BY DEF AllocLook, callVars
  <1>2. PICK to \in {"bump", "collect"} : pc' = [pc EXCEPT ![p] = to]
    BY DEF AllocLook
  <1>3. pc'[p] = to /\ code[p] # <<>> /\ to \in Looked /\ pc[p] \in ItemSteps
    BY <1>1, <1>2, ItemFacts, AllocNames DEF TypeInv, TypeOK
  <1>4. LockOf(p) /\ CountOf(p)
    BY DEF ThreadInv
  <1>5. Todo(p).on = Target(p) /\ Todo(p).on \in VM
    BY <1>3, TodoTarget, TodoType
  <1>6. LockOf(p)'
    <2>1. (Copying(p)' <=> Copying(p)) /\ (after[p] = "idle" => ~Copying(p))
      BY <1>1 DEF Copying
    <2>2. CASE ~locked[p]
      BY <1>1, <1>3, <1>4, <2>1, <2>2 DEF LockOf, LockIfWanted, lockVars
    <2>3. CASE locked[p]
      <3>1. /\ holder'[Target(p)] = p /\ depth'[Target(p)] = depth[Target(p)] + 1
            /\ depth[Target(p)] \in Nat
        BY <1>1, <1>5, <2>3 DEF LockIfWanted, Lock, TypeInv, TypeOK
      <3>2. CASE Copying(p)
        <4>1. Target(p) = peer[p]
          BY <2>1, <3>2 DEF Target
        <4>2. depth[peer[p]] >= 1
          BY <1>3, <1>4, <3>2 DEF LockOf
        <4> QED
          BY <1>1, <2>1, <3>1, <3>2, <4>1, <4>2 DEF LockOf
      <3>3. CASE ~Copying(p)
        BY <1>1, <2>1, <3>1, <3>3 DEF LockOf, Target
      <3> QED
        BY <3>2, <3>3
    <2> QED
      BY <2>2, <2>3
  <1>7. after[p] = "idle" /\ ~locked[p] /\ p \in Dests => processes[p] <= 0
    BY <1>1, <1>4, AllocNames DEF CountOf
  <1> QED
    BY <1>1, <1>2, <1>3, <1>6, <1>7, AllocThread, AllocNames DEF LockIfWanted

\* Giving the lock back at the end of iallocate.
LEMMA AllocUnlockThread ==
  ASSUME TypeInv, ThreadInv, NEW p \in VM, pc[p] \in Looked, pc' = [pc EXCEPT ![p] = "run"],
         AllocUnlock(p), code' = code \/ NextItem(p),
         UNCHANGED <<after, peer, kind, count, vmVars>>
  PROVE  ThreadInv'
  <1>1. pc'[p] = "run" /\ code[p] # <<>> /\ pc[p] \in ItemSteps /\ pc[p] \in Allocating
    BY ItemFacts, AllocNames DEF TypeInv, TypeOK
  <1>2. locked'[p] = FALSE /\ \A q \in VM : q # p => locked'[q] = locked[q]
    BY DEF AllocUnlock, TypeInv, TypeOK
  <1>3. Todo(p).on = Target(p) /\ Todo(p).on \in VM
    BY <1>1, TodoTarget, TodoType
  <1>4. LockOf(p)
    BY DEF ThreadInv
  <1>5. LockOf(p)'
    <2>1. Copying(p)' <=> Copying(p)
      BY DEF Copying
    <2>2. CASE ~locked[p]
      BY <1>1, <1>2, <1>4, <2>1, <2>2, AllocNames DEF LockOf, AllocUnlock, lockVars
    <2>3. CASE locked[p] /\ Copying(p)
      <3>1. Target(p) = peer[p] /\ holder[peer[p]] = p /\ depth[peer[p]] >= 2
        BY <1>1, <1>4, <2>3 DEF Target, LockOf, Copying
      <3>2. depth[peer[p]] \in Nat /\ peer[p] \in VM
        BY <1>3, <3>1 DEF TypeInv, TypeOK
      <3>3. depth'[peer[p]] = depth[peer[p]] - 1 /\ holder'[peer[p]] = p
        BY <1>3, <2>3, <3>1, <3>2 DEF AllocUnlock, Unlock, TypeInv, TypeOK
      <3> QED
        BY <1>1, <1>2, <3>1, <3>2, <3>3, AllocNames DEF LockOf
    <2>4. CASE ~Copying(p)
      BY <1>1, <1>2, <2>1, <2>4, AllocNames DEF LockOf
    <2> QED
      BY <2>2, <2>3, <2>4
  <1> QED
    BY <1>1, <1>2, <1>5, AllocThread, AllocNames DEF AllocUnlock

LEMMA AllocCollectThread ==
  ASSUME TypeInv, ThreadInv, NEW p \in VM, AllocCollect(p)
  PROVE  ThreadInv'
  <1>1. /\ pc[p] = "collect" /\ pc' = [pc EXCEPT ![p] = "grow"] /\ UNCHANGED <<code, locked>>
        /\ UNCHANGED <<after, peer, kind, count, vmVars, lockVars>>
    BY DEF AllocCollect, callVars
  <1>2. pc'[p] = "grow" /\ code[p] # <<>>
    BY <1>1, ItemFacts, AllocNames DEF TypeInv, TypeOK
  <1>3. LockOf(p) /\ CountOf(p)
    BY DEF ThreadInv
  <1>4. LockOf(p)'
    BY <1>1, <1>2, <1>3, AllocNames DEF LockOf, Copying, lockVars
  <1>5. after[p] = "idle" /\ ~locked[p] /\ p \in Dests => processes[p] <= 0
    BY <1>1, <1>3, AllocNames DEF CountOf
  <1> QED
    BY <1>1, <1>2, <1>4, <1>5, AllocThread, AllocNames

LEMMA AllocStepThread ==
  ASSUME TypeInv, ThreadInv, NEW p \in VM, AllocStep(p)
  PROVE  ThreadInv'
  <1>1. CASE AllocStart(p)
    BY <1>1, AllocStartThread
  <1>2. CASE AllocLook(p)
    BY <1>2, AllocLookThread
  <1>3. CASE AllocBump(p)
    BY <1>3, AllocUnlockThread, AllocNames DEF AllocBump
  <1>4. CASE AllocCollect(p)
    BY <1>4, AllocCollectThread
  <1>5. CASE AllocGrow(p)
    BY <1>5, AllocUnlockThread, AllocNames DEF AllocGrow
  <1> QED
    BY <1>1, <1>2, <1>3, <1>4, <1>5 DEF AllocStep

\* An owner that is sent messages has no such item.
LEMMA CollectStepThread ==
  ASSUME TypeInv, ThreadInv, NEW p \in VM, CollectStep(p)
  PROVE  ThreadInv'
  <1>1. /\ pc[p] \in {"run", "gc"} /\ code[p] # <<>>
        /\ UNCHANGED <<after, peer, kind, locked, count, vmVars, lockVars>>
    BY ItemFacts, AllocNames DEF CollectStep, GcStart, Gc, InsertOnly, callVars
  <1>2. PICK to \in {"run", "gc"} :
          /\ pc' = [pc EXCEPT ![p] = to]
          /\ code' = code \/ (to = "run" /\ NextItem(p))
          /\ to = "gc" => Todo(p).do \in {"gc", "insert"}
    BY DEF CollectStep, GcStart, Gc, InsertOnly, callVars
  <1>3. pc'[p] = to /\ pc[p] \in ItemSteps
    BY <1>1, <1>2, AllocNames DEF TypeInv, TypeOK
  <1>4. to = "gc" => ~(after[p] = "idle" /\ p \in Dests)
    BY <1>1, <1>2, <1>3, TodoTarget
  <1>5. LockOf(p) /\ CodeOf(p)
    BY DEF ThreadInv
  <1>6. ~locked[p]
    BY <1>1, <1>5, AllocNames DEF CodeOf
  <1>7. ~locked'[p]
    BY <1>1, <1>6
  <1>8. LockOf(p)'
    BY <1>1, <1>2, <1>3, <1>5, <1>7, AllocNames DEF LockOf, Copying, lockVars
  <1> QED
    BY <1>1, <1>2, <1>4, <1>7, <1>8, AllocThread, AllocNames

-----------------------------------------------------------------------------
(* ThreadInv: the other steps of a call                                      *)

\* What OwnersLock excludes.
LEMMA OwnersLockSteps ==
  ASSUME OwnersLock, TypeInv, ThreadInv, NEW p \in VM
  PROVE  /\ ~BigOperation(p) /\ ~Stop(p)
         /\ ~RequireStart(p) /\ ~RequireCollect(p) /\ ~RequireRead(p) /\ ~RequireLock(p)
         /\ ~Done(p)
  <1>1. ~BigOperation(p) /\ ~Stop(p)
    BY DEF OwnersLock, BigOperation, Stop
  <1>2. pc[p] \notin Requiring
    BY DEF ThreadInv, CodeOf
  <1>3. pc[p] = "run" /\ code[p] # <<>> => Todo(p).do \notin {"require", "done"}
    BY TodoTarget, AllocNames
  <1> QED
    BY <1>1, <1>2, <1>3 DEF RequireStart, RequireCollect, RequireRead, RequireLock, Done, Requiring

\* Outside of iallocate the variables of a call are easy to see.
LEMMA CallThread ==
  ASSUME TypeInv, ThreadInv, NEW p \in VM, NEW to, pc' = [pc EXCEPT ![p] = to],
         pc[p] \notin Allocating \cup {"unborn", "stopped"},
         to \notin Allocating \cup Requiring \cup {"unborn"},
         to = "run" => \A i \in DOMAIN code'[p] :
           /\ code'[p][i].do \notin {"require", "done"} /\ code'[p][i].on = Target(p)'
           /\ after'[p] = "idle" /\ p \in Dests => ~code'[p][i].outer
           /\ code'[p][i].do \in {"gc", "insert"} => code'[p][i].outer,
         kind'[p] # "big", locked' = locked, PeerOf(p)', OnlyOf(p),
         to = "run" /\ Copying(p)' => holder'[peer'[p]] = p /\ depth'[peer'[p]] >= 1,
         CountOf(p)'
  PROVE  ThreadInv'
  <1>1. pc'[p] = to /\ ~locked'[p] /\ to \notin Looked
    BY AllocNames DEF TypeInv, TypeOK, ThreadInv, CodeOf
  <1>2. to \in ItemSteps => to = "run"
    BY DEF ItemSteps, Allocating, Looked, Requiring
  <1>3. CodeOf(p)' /\ LockOf(p)'
    BY <1>1, <1>2 DEF CodeOf, LockOf
  <1> QED
    BY <1>3, ThreadStep DEF OwnInv

\* The counter stays as it is.
LEMMA SameCount ==
  ASSUME TypeInv, ThreadInv, NEW p \in VM, NEW to, pc' = [pc EXCEPT ![p] = to],
         pc[p] \notin {"unborn", "stopped"},
         to \notin Allocating \cup {"forkWrite", "forkStart", "stopRead", "stopWrite"},
         processes' = processes, creator' = creator
  PROVE  CountOf(p)'
  <1>1. pc'[p] = to
    BY DEF TypeInv, TypeOK
  <1>2. Named(p)' => Named(p)
    BY NamedKept
  <1> QED
    BY <1>1, <1>2, CountKept DEF ThreadInv, Increased

LEMMA RunEndThread ==
  ASSUME TypeInv, ThreadInv, NEW p \in VM, RunEnd(p)
  PROVE  ThreadInv'
  <1>1. /\ pc[p] = "run" /\ pc' = [pc EXCEPT ![p] = after[p]] /\ code' = code
        /\ UNCHANGED <<after, peer, kind, locked, count, processes, creator, holder, depth>>
    BY DEF RunEnd, callVars, lockVars, vmVars
  <1>2. after[p] \in {"idle", "sendUnlock", "sendUnlockAgain", "forkRead"} /\ pc'[p] = after[p]
    BY <1>1 DEF TypeInv, TypeOK
  <1>3. /\ after[p] \notin Allocating \cup Requiring \cup {"unborn", "run"} /\ pc[p] \in ItemSteps
        /\ after[p] \notin {"forkWrite", "forkStart", "stopRead", "stopWrite"}
        /\ pc[p] \notin Allocating \cup {"unborn", "stopped"}
    BY <1>1, <1>2 DEF Allocating, Looked, Requiring, ItemSteps
  <1>4. PeerOf(p)'
    <2>1. (Sending(p)' => Sending(p)) /\ (Forking(p)' => Forking(p))
      BY <1>1, <1>2, <1>3 DEF Sending, Forking, Copying, ItemSteps, LifeSteps
    <2>2. \A r \in VM : pc[r] # "unborn" => pc'[r] # "unborn"
      BY <1>1, <1>3 DEF TypeInv, TypeOK
    <2>3. PeerOf(p) /\ (Sending(p) => peer[p] \in VM)
      BY DEF ThreadInv, TypeInv, WellFormed, FormOf
    <2> QED
      BY <1>1, <2>1, <2>2, <2>3 DEF PeerOf
  <1>5. OnlyOf(p) /\ kind'[p] # "big"
    BY <1>1 DEF OnlyOf, ThreadInv, CodeOf
  <1>6. CountOf(p)'
    BY <1>1, <1>3, SameCount
  <1> QED
    BY <1>1, <1>3, <1>4, <1>5, <1>6, CallThread

\* A call starts with items in the heap of p.
LEMMA BeginThread ==
  ASSUME TypeInv, ThreadInv, NEW p \in VM, NEW items, Begin(p),
         code' = [code EXCEPT ![p] = items],
         \A i \in DOMAIN items :
           /\ items[i].do \notin {"require", "done"} /\ items[i].on = p
           /\ p \in Dests => ~items[i].outer
           /\ items[i].do \in {"gc", "insert"} => items[i].outer,
         UNCHANGED <<after, peer, kind, locked, count, lockVars, vmVars>>
  PROVE  ThreadInv'
  <1>1. /\ pc[p] = "idle" /\ pc' = [pc EXCEPT ![p] = "run"]
        /\ UNCHANGED <<after, peer, kind, locked, count, processes, creator, holder, depth>>
    BY DEF Begin, lockVars, vmVars
  <1>2. after[p] = "idle" /\ pc'[p] = "run" /\ code'[p] = items
        /\ \A q \in VM : q # p => code'[q] = code[q]
    BY <1>1, IdleForm DEF TypeInv, TypeOK
  <1>3. \A i \in DOMAIN code'[p] :
          /\ code'[p][i].do \notin {"require", "done"} /\ code'[p][i].on = p
          /\ p \in Dests => ~code'[p][i].outer
          /\ code'[p][i].do \in {"gc", "insert"} => code'[p][i].outer
    BY <1>2
  <1>4. PeerOf(p)'
    BY <1>1, <1>2 DEF PeerOf, Sending, Forking, Copying, ItemSteps, LifeSteps
  <1>5. OnlyOf(p) /\ kind'[p] # "big" /\ Target(p)' = p /\ ~Copying(p)'
    BY <1>1, <1>2 DEF OnlyOf, ThreadInv, CodeOf, Target, Copying
  <1>6. pc[p] \notin Allocating \cup {"unborn", "stopped"} /\ "run" \notin Requiring
    BY <1>1 DEF Allocating, Looked, Requiring
  <1>7. CountOf(p)'
    BY <1>1, <1>6, SameCount, AllocNames
  <1> QED
    BY <1>1, <1>3, <1>4, <1>5, <1>6, <1>7, CallThread, AllocNames

LEMMA AllocateThread ==
  ASSUME TypeInv, ThreadInv, NEW p \in VM, NEW n, Allocate(p, n)
  PROVE  ThreadInv'
  <1> DEFINE items == <<Cell(p, n, FALSE)>>
  <1>1. \A i \in DOMAIN items :
          items[i].do = "alloc" /\ items[i].on = p /\ ~items[i].outer
    BY DEF Cell
  <1>2. /\ Begin(p) /\ code' = [code EXCEPT ![p] = items]
        /\ UNCHANGED <<after, peer, kind, locked, count, lockVars, vmVars>>
    BY DEF Allocate
  <1> HIDE DEF items
  <1> QED
    BY <1>1, <1>2, BeginThread

\* Who works without the lock is not sent messages.
LEMMA BareThread ==
  ASSUME OwnersLock, TypeInv, ThreadInv, NEW p \in VM, Peek(p) \/ MakeCData(p) \/ ForceGC(p)
  PROVE  ThreadInv'
  <1>1. p \notin Dests
    BY DEF OwnersLock, Peek, MakeCData, ForceGC
  <1>2. PICK items \in {<<Cell(p, 2, TRUE)>>, <<Insert(p), Cell(p, 1, FALSE)>>, <<Collection(p)>>} :
          code' = [code EXCEPT ![p] = items]
    BY DEF Peek, MakeCData, ForceGC
  <1>3. \A i \in DOMAIN items :
          /\ items[i].do \notin {"require", "done"} /\ items[i].on = p
          /\ items[i].do \in {"gc", "insert"} => items[i].outer
    BY DEF Cell, Insert, Collection
  <1>4. Begin(p) /\ UNCHANGED <<after, peer, kind, locked, count, lockVars, vmVars>>
    BY DEF Peek, MakeCData, ForceGC
  <1> QED
    BY <1>1, <1>2, <1>3, <1>4, BeginThread

LEMMA SendStartThread ==
  ASSUME OwnersLock, TypeInv, ThreadInv, NEW p \in VM, NEW q \in VM, NEW k \in Kinds,
         SendStart(p, q, k)
  PROVE  ThreadInv'
  <1>1. /\ <<p, q, k>> \in SendCalls /\ pc[q] # "unborn"
        /\ pc[p] = "idle" /\ pc' = [pc EXCEPT ![p] = "sendLock"]
        /\ peer' = [peer EXCEPT ![p] = q] /\ kind' = [kind EXCEPT ![p] = k]
        /\ UNCHANGED <<code, after, locked, count, processes, creator, holder, depth>>
    BY DEF SendStart, lockVars, vmVars
  <1>2. k # "big" /\ q # p /\ q \in Dests
    BY <1>1, SendAssumption DEF OwnersLock, Dests
  <1>3. /\ pc'[p] = "sendLock" /\ peer'[p] = q /\ kind'[p] = k /\ pc'[q] # "unborn"
        /\ \A r \in VM : r # p => peer'[r] = peer[r] /\ kind'[r] = kind[r]
    BY <1>1, <1>2 DEF TypeInv, TypeOK
  <1>4. PeerOf(p)'
    BY <1>2, <1>3 DEF PeerOf, Forking, ItemSteps, LifeSteps
  <1>5. OnlyOf(p)
    BY <1>1, <1>3 DEF OnlyOf
  <1>6. pc[p] \notin Allocating \cup {"unborn", "stopped"} /\ "sendLock" \notin Allocating \cup Requiring
    BY <1>1 DEF Allocating, Looked, Requiring
  <1>7. CountOf(p)'
    BY <1>1, <1>6, SameCount
  <1> QED
    BY <1>1, <1>2, <1>3, <1>4, <1>5, <1>6, <1>7, CallThread

LEMMA SendLockThread ==
  ASSUME TypeInv, ThreadInv, NEW p \in VM, SendLock(p)
  PROVE  ThreadInv'
  <1>1. /\ pc[p] \in {"sendLock", "sendLockAgain"} /\ pc' = [pc EXCEPT ![p] = "run"]
        /\ Lock(p, peer[p]) /\ code' = [code EXCEPT ![p] = CopyTo(p, peer[p], kind[p])]
        /\ UNCHANGED <<peer, kind, locked, count, processes, creator>>
    BY DEF SendLock, vmVars
  <1>2. PICK a \in {"sendUnlock", "sendUnlockAgain"} : after' = [after EXCEPT ![p] = a]
    BY DEF SendLock
  <1>3. /\ Sending(p) /\ peer[p] \in VM /\ peer[p] # p /\ pc[peer[p]] # "unborn"
        /\ kind[p] \in Kinds \ {"big"} /\ peer[p] \in Dests
    BY <1>1 DEF Sending, TypeInv, TypeOK, WellFormed, FormOf, ThreadInv, PeerOf, CodeOf
  <1>4. /\ pc'[p] = "run" /\ after'[p] = a /\ pc'[peer[p]] # "unborn"
        /\ code'[p] \in {<<Cell(peer[p], 1, TRUE), Cell(peer[p], 2, FALSE)>>,
                         <<Insert(peer[p]), Cell(peer[p], 1, TRUE)>>}
        /\ \A q \in VM : q # p => code'[q] = code[q] /\ after'[q] = after[q]
    BY <1>1, <1>2, <1>3 DEF TypeInv, TypeOK, CopyTo, Kinds
  <1>5. \A i \in DOMAIN code'[p] :
          /\ code'[p][i].do \notin {"require", "done"} /\ code'[p][i].on = peer[p]
          /\ code'[p][i].do \in {"gc", "insert"} => code'[p][i].outer
    BY <1>4 DEF Cell, Insert
  <1>6. PeerOf(p)'
    BY <1>1, <1>3, <1>4 DEF PeerOf, Forking, LifeSteps
  <1>7. OnlyOf(p)
    BY <1>1, <1>3, <1>4, LockKept DEF OnlyOf
  <1>8. holder'[peer[p]] = p /\ depth'[peer[p]] >= 1
    BY <1>1, <1>3 DEF Lock, TypeInv, TypeOK
  <1>9. /\ pc[p] \notin Allocating \cup {"unborn", "stopped"} /\ "run" \notin Requiring
        /\ Target(p)' = peer[p] /\ after'[p] # "idle" /\ peer'[p] = peer[p] /\ kind'[p] # "big"
    BY <1>1, <1>3, <1>4 DEF Allocating, Looked, Requiring, Target
  <1>10. CountOf(p)'
    BY <1>1, <1>9, SameCount, AllocNames
  <1> QED
    BY <1>1, <1>5, <1>6, <1>7, <1>8, <1>9, <1>10, CallThread, AllocNames

LEMMA SendUnlockThread ==
  ASSUME TypeInv, ThreadInv, NEW p \in VM, SendUnlock(p) \/ SendCheck(p)
  PROVE  ThreadInv'
  <1>1. /\ pc[p] \in {"sendUnlock", "sendUnlockAgain", "sendCheck"}
        /\ (Unlock(p, peer[p]) \/ UNCHANGED lockVars)
        /\ UNCHANGED <<code, after, peer, kind, locked, count, processes, creator>>
    BY DEF SendUnlock, SendCheck, callVars, vmVars
  <1>2. PICK to \in {"sendCheck", "sendStore", "sendLockAgain"} : pc' = [pc EXCEPT ![p] = to]
    BY DEF SendUnlock, SendCheck
  <1>3. /\ Sending(p) /\ peer[p] \in VM /\ PeerOf(p) /\ kind[p] # "big"
    BY <1>1 DEF Sending, TypeInv, WellFormed, FormOf, ThreadInv, CodeOf
  <1>4. /\ pc'[p] = to /\ (pc[peer[p]] # "unborn" => pc'[peer[p]] # "unborn")
        /\ pc[p] \notin Allocating \cup {"unborn", "stopped"} /\ to \notin Allocating \cup Requiring
    BY <1>1, <1>2, <1>3 DEF TypeInv, TypeOK, Allocating, Looked, Requiring
  <1>5. PeerOf(p)'
    BY <1>1, <1>3, <1>4 DEF PeerOf, Forking, ItemSteps, LifeSteps
  <1>6. OnlyOf(p)
    BY <1>1, <1>3, LockKept DEF OnlyOf
  <1>7. CountOf(p)'
    BY <1>1, <1>2, <1>4, SameCount
  <1> QED
    BY <1>1, <1>2, <1>3, <1>4, <1>5, <1>6, <1>7, CallThread

LEMMA SendStoreThread ==
  ASSUME TypeInv, ThreadInv, NEW p \in VM, SendStore(p)
  PROVE  ThreadInv'
  <1>1. /\ pc[p] = "sendStore" /\ pc' = [pc EXCEPT ![p] = "idle"]
        /\ after' = [after EXCEPT ![p] = "idle"] /\ peer' = [peer EXCEPT ![p] = NoVM]
        /\ kind' = [kind EXCEPT ![p] = "small"] /\ count' = [count EXCEPT ![p] = 0]
        /\ UNCHANGED <<code, locked, processes, creator, holder, depth>>
    BY DEF SendStore, Return, lockVars, vmVars
  <1>2. /\ pc'[p] = "idle" /\ kind'[p] = "small"
        /\ \A q \in VM : q # p => /\ after'[q] = after[q] /\ peer'[q] = peer[q]
                                  /\ kind'[q] = kind[q] /\ count'[q] = count[q]
    BY <1>1 DEF TypeInv, TypeOK
  <1>3. PeerOf(p)' /\ OnlyOf(p)
    BY <1>1, <1>2 DEF PeerOf, Sending, Forking, ItemSteps, LifeSteps, OnlyOf
  <1>4. /\ pc[p] \notin Allocating \cup {"unborn", "stopped"}
        /\ "idle" \notin Allocating \cup Requiring
    BY <1>1 DEF Allocating, Looked, Requiring
  <1>5. CountOf(p)'
    BY <1>1, <1>4, SameCount
  <1> QED
    BY <1>1, <1>2, <1>3, <1>4, <1>5, CallThread

\* What p knows of the VM it is starting.
LEMMA ForkingPeer ==
  ASSUME TypeInv, ThreadInv, NEW p \in VM, pc[p] \in LifeSteps
  PROVE  /\ peer[p] \in VM \ {p, Root} /\ pc[peer[p]] = "unborn" /\ creator[peer[p]] = p
         /\ after[p] = "forkRead" /\ ~locked[p] /\ kind[p] # "big" /\ CountOf(p)
         /\ pc[p] \notin ItemSteps \cup Resting
  <1>1. Forking(p) /\ pc[p] \notin ItemSteps \cup Resting /\ pc[p] \notin Allocating
    BY DEF Forking, LifeSteps, ItemSteps, Resting, Allocating, Looked
  <1> QED
    BY <1>1 DEF ThreadInv, CodeOf, PeerOf, TypeInv, WellFormed, FormOf

LEMMA LifeGoOnThread ==
  ASSUME TypeInv, ThreadInv, NEW p \in VM,
         ForkRead(p) \/ ForkWrite(p) \/ ForkFails(p) \/ StopRead(p) \/ StopWrite(p)
  PROVE  ThreadInv'
  <1>1. /\ pc[p] \in LifeSteps /\ UNCHANGED <<code, after, peer, kind, locked, holder, depth, creator>>
    BY DEF ForkRead, ForkWrite, ForkFails, StopRead, StopWrite, LifeSteps, callVars, lockVars, vmVars
  <1>2. PICK to \in LifeSteps : pc' = [pc EXCEPT ![p] = to]
    BY DEF ForkRead, ForkWrite, ForkFails, StopRead, StopWrite, LifeSteps
  <1>3. /\ creator[peer[p]] = p /\ after[p] = "forkRead" /\ kind[p] # "big" /\ peer[p] # Root
        /\ CountOf(p)
    BY <1>1, ForkingPeer
  <1>4. /\ pc'[p] = to /\ to \notin ItemSteps \cup Resting /\ pc[p] \notin ItemSteps \cup Resting
        /\ count \in [VM -> Int] /\ processes \in [VM -> Int]
    BY <1>1, <1>2 DEF TypeInv, TypeOK, LifeSteps, ItemSteps, Resting
  <1>5. PeerOf(p)'
    <2>1. ~Sending(p)'
      BY <1>2, <1>4 DEF Sending, LifeSteps
    <2> QED
      BY <1>1, <1>3, <2>1 DEF PeerOf
  <1>6. /\ to \notin Allocating \cup Requiring \cup {"unborn", "run"}
        /\ pc[p] \notin Allocating \cup {"unborn", "stopped"}
    BY <1>4, AllocNames DEF Resting, Requiring, ItemSteps
  <1>7. Named(p)' => Named(p)
    BY <1>1, <1>2, <1>6, NamedKept
  <1>8. /\ \A q \in VM : q # p => count'[q] = count[q] /\ processes'[q] = processes[q]
        /\ CountOf(p)'
    <2>1. CASE ForkRead(p)
      <3>1. count' = [count EXCEPT ![p] = processes[p]] /\ processes' = processes /\ to = "forkWrite"
        BY <1>2, <1>4, <2>1 DEF ForkRead, vmVars, TypeInv, TypeOK
      <3> QED
        BY <1>3, <1>4, <1>6, <1>7, <3>1 DEF CountOf, Increased
    <2>2. CASE ForkWrite(p)
      <3>1. /\ processes' = [processes EXCEPT ![p] = count[p] + 1] /\ count' = count
            /\ pc[p] = "forkWrite" /\ to = "forkStart"
        BY <1>2, <1>4, <2>2 DEF ForkWrite, callVars, TypeInv, TypeOK
      <3> QED
        BY <1>3, <1>4, <1>6, <1>7, <3>1 DEF CountOf, Increased
    <2>3. CASE ForkFails(p)
      <3>1. /\ processes' = processes /\ count' = count /\ pc[p] = "forkStart" /\ to = "stopRead"
        BY <1>2, <1>4, <2>3 DEF ForkFails, callVars, TypeInv, TypeOK
      <3> QED
        BY <1>3, <1>4, <1>6, <1>7, <3>1 DEF CountOf, Increased
    <2>4. CASE StopRead(p)
      <3>1. /\ count' = [count EXCEPT ![p] = processes[p]] /\ processes' = processes
            /\ pc[p] = "stopRead" /\ to = "stopWrite"
        BY <1>2, <1>3, <1>4, <2>4 DEF StopRead, vmVars, TypeInv, TypeOK
      <3> QED
        BY <1>3, <1>4, <1>6, <1>7, <3>1 DEF CountOf, Increased
    <2>5. CASE StopWrite(p)
      <3>1. /\ processes' = [processes EXCEPT ![p] = count[p] - 1] /\ count' = count
            /\ pc[p] = "stopWrite" /\ to = "stopInactive"
        BY <1>2, <1>3, <1>4, <2>5 DEF StopWrite, callVars, TypeInv, TypeOK
      <3> QED
        BY <1>3, <1>4, <1>6, <1>7, <3>1 DEF CountOf, Increased
    <2> QED
      BY <2>1, <2>2, <2>3, <2>4, <2>5
  <1>9. OnlyOf(p)
    BY <1>1, <1>8 DEF OnlyOf
  <1> QED
    BY <1>1, <1>2, <1>3, <1>5, <1>6, <1>8, <1>9, CallThread

\* A thread between two calls has nothing to keep but its counter.
LEMMA RestingOwn ==
  ASSUME NEW p \in VM, pc'[p] \in Resting, kind'[p] # "big", ~locked'[p],
         CountOf(p)'
  PROVE  OwnInv(p)'
  <1>1. pc'[p] \notin ItemSteps \cup LifeSteps \cup Requiring \cup Looked /\ ~Sending(p)'
    BY DEF Resting, ItemSteps, LifeSteps, Requiring, Looked, Sending
  <1> QED
    BY <1>1 DEF OwnInv, CodeOf, PeerOf, LockOf, Forking, Sending

LEMMA LifeEndThread ==
  ASSUME TypeInv, ThreadInv, NEW p \in VM, pc[p] \in LifeSteps,
         NEW to \in {"idle", "stopped"}, to = "stopped" \/ Increased(p),
         pc' = [pc EXCEPT ![p] = "idle", ![peer[p]] = to],
         after' = [after EXCEPT ![p] = "idle"], peer' = [peer EXCEPT ![p] = NoVM],
         count' = [count EXCEPT ![p] = 0],
         UNCHANGED <<code, kind, locked, holder, depth, processes, creator>>
  PROVE  ThreadInv'
  <1>1. PICK c \in VM : c = peer[p] /\ c \notin {p, Root} /\ pc[c] = "unborn"
    BY ForkingPeer
  <1>2. /\ ~locked[p] /\ kind[p] # "big" /\ CountOf(p) /\ pc[p] \notin Resting
    BY ForkingPeer
  <1>3. /\ pc'[p] = "idle" /\ pc'[c] = to /\ \A q \in VM : q # p /\ q # c => pc'[q] = pc[q]
        /\ \A q \in VM : q # p => after'[q] = after[q] /\ peer'[q] = peer[q] /\ count'[q] = count[q]
    BY <1>1 DEF TypeInv, TypeOK
  <1>4. \A q \in VM : q # Root => (Named(q)' <=> Named(q))
    BY DEF Named
  <1>5. {"idle", "stopped"} \cap (Allocating \cup LifeSteps) = {}
    BY DEF Allocating, Looked, LifeSteps
  <1>6. OwnInv(p)'
    <2>1. Named(p)' => processes[p] >= 1
      <3>1. CASE Increased(p)
        BY <1>2, <3>1 DEF CountOf
      <3>2. CASE to = "stopped"
        <4>1. \A r \in VM : pc'[r] \notin {"unborn", "stopped"} => pc[r] \notin {"unborn", "stopped"}
          BY <1>2, <1>3, <3>2 DEF Resting
        <4>2. Named(p)' => Named(p)
          BY <4>1 DEF Named
        <4> QED
          BY <1>2, <4>2 DEF CountOf
      <3> QED
        BY <3>1, <3>2
    <2>2. CountOf(p)'
      BY <1>2, <1>3, <1>5, <2>1 DEF CountOf, Increased
    <2> QED
      BY <1>2, <1>3, <2>2, RestingOwn DEF Resting
  <1>7. OwnInv(c)'
    <2>1. CountOf(c) /\ ~locked[c] /\ kind[c] # "big"
      BY <1>1 DEF ThreadInv, CodeOf, Allocating, Looked
    <2>2. CountOf(c)'
      BY <1>1, <1>3, <1>4, <1>5, <2>1, CountKept DEF Increased
    <2> QED
      BY <1>3, <2>1, <2>2, RestingOwn DEF Resting
  <1>8. ASSUME NEW q \in VM, q # p, q # c
        PROVE  OwnInv(q)'
    <2>1. Named(q)' => Named(q)
      <3>1. CASE q = Root
        <4>1. p \in VM \ {Root} /\ pc[p] \notin {"unborn", "stopped"}
          BY <1>2, <1>8, <3>1 DEF Resting
        <4> QED
          BY <3>1, <4>1 DEF Named
      <3> QED
        BY <1>4, <3>1
    <2>2. \A r \in VM : pc[r] # "unborn" => pc'[r] # "unborn"
      BY <1>3
    <2> QED
      BY <1>3, <1>8, <2>1, <2>2, SameThread
  <1>9. pc'[Root] # "unborn"
    BY <1>1, <1>3, RootAssumption DEF ThreadInv
  <1> QED
    BY <1>6, <1>7, <1>8, <1>9 DEF ThreadInv, OwnInv

LEMMA ForkThread ==
  ASSUME TypeInv, ThreadInv, NEW p \in VM, NEW c \in VM, Fork(p, c)
  PROVE  ThreadInv'
  <1>1. /\ pc[c] = "unborn" /\ creator[c] = NoVM /\ c # p /\ c # Root
        /\ pc[p] = "idle" /\ pc' = [pc EXCEPT ![p] = "run"]
        /\ processes' = [processes EXCEPT ![c] = 1] /\ creator' = [creator EXCEPT ![c] = p]
        /\ peer' = [peer EXCEPT ![p] = c] /\ after' = [after EXCEPT ![p] = "forkRead"]
        /\ code' = [code EXCEPT ![p] = CopyTo(p, c, "small")]
        /\ UNCHANGED <<kind, locked, count, holder, depth>>
    BY ForkAssumption DEF Fork, Begin, lockVars
  <1>2. /\ pc'[p] = "run" /\ after'[p] = "forkRead" /\ peer'[p] = c
        /\ code'[p] = <<Cell(c, 1, TRUE), Cell(c, 2, FALSE)>>
        /\ processes'[c] = 1
        /\ \A q \in VM : q # p => /\ pc'[q] = pc[q] /\ code'[q] = code[q] /\ after'[q] = after[q]
                                  /\ peer'[q] = peer[q]
        /\ \A q \in VM : q # c => processes'[q] = processes[q] /\ creator'[q] = creator[q]
    BY <1>1 DEF TypeInv, TypeOK, CopyTo
  <1>3. \A i \in DOMAIN code'[p] : code'[p][i].do = "alloc" /\ code'[p][i].on = c
    BY <1>2 DEF Cell
  <1>4. \A q \in VM : q # c => (Named(q)' => Named(q))
    <2>1. \A r \in VM : pc'[r] \notin {"unborn", "stopped"} => pc[r] \notin {"unborn", "stopped"}
      BY <1>1, <1>2
    <2> QED
      BY <1>2, <2>1 DEF Named
  <1>5. \A r \in VM : pc[r] # "unborn" => pc'[r] # "unborn"
    BY <1>1, <1>2
  <1>6. OwnInv(p)'
    <2>1. CodeOf(p) /\ CountOf(p) /\ ~locked[p] /\ "run" \notin Requiring \cup Looked \cup Allocating
      BY <1>1 DEF ThreadInv, CodeOf, Requiring, Allocating, Looked
    <2>2. CodeOf(p)'
      BY <1>1, <1>2, <1>3, <2>1 DEF CodeOf, Target
    <2>3. PeerOf(p)' /\ LockOf(p)'
      BY <1>1, <1>2, <2>1 DEF PeerOf, LockOf, Sending, Copying
    <2>4. CountOf(p)'
      BY <1>1, <1>2, <1>4, <2>1, CountKept DEF Increased
    <2> QED
      BY <2>2, <2>3, <2>4 DEF OwnInv
  <1>7. OwnInv(c)'
    <2>1. CodeOf(c) /\ ~locked[c] /\ kind[c] # "big"
      BY <1>1, AllocNames DEF ThreadInv, CodeOf, Allocating, Looked
    <2>2. "unborn" \notin Allocating /\ pc'[c] = "unborn"
      BY <1>1, <1>2 DEF Allocating, Looked
    <2>3. CountOf(c)'
      BY <1>2, <2>2 DEF CountOf, Increased
    <2> QED
      BY <1>1, <2>1, <2>2, <2>3, RestingOwn DEF Resting
  <1>8. ASSUME NEW q \in VM, q # p, q # c
        PROVE  OwnInv(q)'
    BY <1>1, <1>2, <1>4, <1>5, <1>8, SameThread
  <1>9. pc'[Root] # "unborn"
    BY <1>5, RootAssumption DEF ThreadInv
  <1> QED
    BY <1>6, <1>7, <1>8, <1>9 DEF ThreadInv, OwnInv

LEMMA NextThread ==
  ASSUME OwnersLock, TypeInv, ThreadInv, [Next \/ Finished]_vars
  PROVE  ThreadInv'
  <1>1. ASSUME UNCHANGED <<pc, callVars, calls, heap, lockVars, vmVars>>
        PROVE  ThreadInv'
    <2>1. UNCHANGED <<pc, code, after, peer, kind, locked, count, holder, depth, processes, creator>>
      BY <1>1 DEF callVars, lockVars, vmVars
    <2>2. \A q \in VM : OwnInv(q)'
      <3> SUFFICES ASSUME NEW q \in VM PROVE OwnInv(q)'
        OBVIOUS
      <3>1. Named(q)' => Named(q)
        BY <2>1 DEF Named
      <3> QED
        BY <2>1, <3>1, SameThread
    <2> QED
      BY <2>1, <2>2 DEF ThreadInv, OwnInv
  <1>2. CASE Finished \/ UNCHANGED vars
    BY <1>1, <1>2 DEF Finished, vars
  <1>3. ASSUME NEW p \in VM, Start(p)
        PROVE  ThreadInv'
    BY <1>3, OwnersLockSteps, AllocateThread, BareThread, SendStartThread, ForkThread DEF Start
  <1>4. ASSUME NEW p \in VM, Step(p)
        PROVE  ThreadInv'
    <2>1. CASE AllocStep(p)
      BY <2>1, AllocStepThread
    <2>2. CASE BracketStep(p)
      BY <2>2, OwnersLockSteps, RunEndThread DEF BracketStep
    <2>3. CASE SendStep(p)
      BY <2>3, SendLockThread, SendUnlockThread, SendStoreThread DEF SendStep
    <2>4. CASE ForkStart(p)
      <3>1. pc[p] \in LifeSteps /\ Increased(p)
        BY <2>4 DEF ForkStart, LifeSteps, Increased
      <3> QED
        BY <2>4, <3>1, LifeEndThread DEF ForkStart, lockVars, vmVars
    <2>5. CASE StopInactive(p)
      <3>1. pc[p] \in LifeSteps
        BY <2>5 DEF StopInactive, LifeSteps
      <3> QED
        BY <2>5, <3>1, LifeEndThread DEF StopInactive, lockVars
    <2>6. CASE ForkRead(p) \/ ForkWrite(p) \/ ForkFails(p) \/ StopRead(p) \/ StopWrite(p)
      BY <2>6, LifeGoOnThread
    <2>7. CASE Dangling(p)
      BY <1>1, <2>7 DEF Dangling
    <2>8. CASE CollectStep(p)
      BY <2>8, CollectStepThread
    <2> QED
      BY <1>4, <2>1, <2>2, <2>3, <2>4, <2>5, <2>6, <2>7, <2>8 DEF Step, LifeStep
  <1> QED
    BY <1>2, <1>3, <1>4 DEF Next

-----------------------------------------------------------------------------
(* RoomInv                                                                   *)

RoomOf(h) == heap[h].used < heap[h].cap /\ heap[h].cap <= heap[h].size

\* A step that touches no heap, and finds the room it goes on with.
LEMMA SameRoom ==
  ASSUME RoomInv, heap' = heap,
         \A q \in VM : pc'[q] = "bump" =>
           \/ pc[q] = "bump" /\ code'[q] = code[q]
           \/ code'[q] = code[q] /\ Fits(Todo(q).on, Todo(q).n)
  PROVE  RoomInv'
  <1> SUFFICES ASSUME NEW q \in VM, pc'[q] = "bump"
               PROVE  Fits(Todo(q).on, Todo(q).n)'
    BY DEF RoomInv
  <1>1. code'[q] = code[q] /\ Fits(Todo(q).on, Todo(q).n)
    BY DEF RoomInv
  <1> QED
    BY <1>1 DEF Fits, Todo

\* A step of the one thread that looked at the room of h.
LEMMA OneRoom ==
  ASSUME TypeInv, ThreadInv, RoomInv, NEW p \in VM, NEW h \in VM, pc[p] \in Looked,
         h = Todo(p).on, pc' = [pc EXCEPT ![p] = "run"] \/ pc' = [pc EXCEPT ![p] = "grow"],
         \A q \in VM : q # p => code'[q] = code[q],
         \A g \in VM : g # h => heap'[g] = heap[g],
         heap'[h].used < heap'[h].cap, heap'[h].cap <= heap'[h].size
  PROVE  RoomInv'
  <1>1. \A g \in VM : heap'[g].used < heap'[g].cap /\ heap'[g].cap <= heap'[g].size
    BY DEF RoomInv
  <1>2. ASSUME NEW q \in VM, pc'[q] = "bump"
        PROVE  Fits(Todo(q).on, Todo(q).n)'
    <2>1. q # p /\ pc[q] = "bump" /\ code'[q] = code[q]
      BY <1>2 DEF TypeInv, TypeOK
    <2>2. pc[q] \in Looked
      BY <2>1, AllocNames
    <2>3. Todo(q).on # h /\ Todo(q).on \in VM
      BY <2>1, <2>2, Exclusion, WhoLooks
    <2>4. Fits(Todo(q).on, Todo(q).n)
      BY <2>1 DEF RoomInv
    <2> QED
      BY <2>1, <2>3, <2>4 DEF Fits, Todo
  <1> QED
    BY <1>1, <1>2 DEF RoomInv

LEMMA AllocBumpRoom ==
  ASSUME TypeInv, ThreadInv, RoomInv, NEW p \in VM, AllocBump(p)
  PROVE  RoomInv'
  <1>1. /\ pc[p] = "bump" /\ pc' = [pc EXCEPT ![p] = "run"] /\ NextItem(p)
        /\ heap' = [heap EXCEPT ![Todo(p).on].used = @ + Todo(p).n]
    BY DEF AllocBump
  <1>2. Todo(p).on \in VM /\ pc[p] \in Looked
    BY <1>1, WhoLooks, AllocNames
  <1>3. PICK h \in VM : h = Todo(p).on
    BY <1>2
  <1>4. PICK n : n = Todo(p).n
    OBVIOUS
  <1>5. heap[h].used + n < heap[h].cap /\ heap[h].cap <= heap[h].size
    BY <1>1, <1>3, <1>4 DEF RoomInv, Fits
  <1>6. heap \in [VM -> Heap] /\ heap[h] \in Heap /\ code \in [VM -> Seq(Items)]
    BY DEF TypeInv, TypeOK
  <1>7. /\ heap'[h] = [heap[h] EXCEPT !.used = @ + n]
        /\ \A g \in VM : g # h => heap'[g] = heap[g]
    BY <1>1, <1>3, <1>4, <1>6
  <1>8. /\ heap'[h].used = heap[h].used + n /\ heap'[h].cap = heap[h].cap
        /\ heap'[h].size = heap[h].size
    BY <1>6, <1>7 DEF Heap
  <1>9. \A q \in VM : q # p => code'[q] = code[q]
    BY <1>1, <1>6 DEF NextItem
  <1> QED
    <2>1. heap'[h].used < heap'[h].cap /\ heap'[h].cap <= heap'[h].size
      BY <1>5, <1>8
    <2>2. pc' = [pc EXCEPT ![p] = "run"] /\ \A g \in VM : g # h => heap'[g] = heap[g]
      BY <1>1, <1>7
    <2> QED
      BY <1>2, <1>3, <1>9, <2>1, <2>2, OneRoom

\* A collection leaves room, for whatever survives fitted before.
LEMMA CollectRoom ==
  ASSUME TypeInv, ThreadInv, RoomInv, NEW p \in VM, pc[p] \in Looked,
         NEW h \in VM, h = Todo(p).on, NEW s \in Nat, heap[h].size <= s, Collected(h, s),
         pc' = [pc EXCEPT ![p] = "run"] \/ pc' = [pc EXCEPT ![p] = "grow"],
         \A q \in VM : q # p => code'[q] = code[q]
  PROVE  RoomInv'
  <1>1. heap \in [VM -> Heap]
    BY DEF TypeInv, TypeOK
  <1>2. /\ \A g \in VM : g # h => heap'[g] = heap[g]
        /\ heap'[h].used <= heap[h].used /\ heap'[h].used \in Nat
        /\ heap'[h].cap = s /\ heap'[h].size >= s
    BY <1>1, CollectedType
  <1>3. heap' \in [VM -> Heap] /\ heap'[h].size \in Nat
    BY <1>1, CollectedType DEF Heap
  <1>4. heap[h].used < heap[h].cap /\ heap[h].cap <= heap[h].size
    BY DEF RoomInv
  <1>5. heap[h].used \in Nat /\ heap[h].cap \in Nat /\ heap[h].size \in Nat
    BY HeapTypes
  <1>6. heap'[h].used < heap'[h].cap /\ heap'[h].cap <= heap'[h].size
    BY <1>2, <1>3, <1>4, <1>5
  <1> QED
    BY <1>2, <1>6, OneRoom

LEMMA AllocStepRoom ==
  ASSUME TypeInv, ThreadInv, RoomInv, NEW p \in VM, AllocStep(p)
  PROVE  RoomInv'
  <1>0. pc \in [VM -> PC]
    BY DEF TypeInv, TypeOK
  <1>1. CASE AllocStart(p)
    <2>1. heap' = heap /\ code' = code /\ pc' = [pc EXCEPT ![p] = "look"]
      BY <1>1 DEF AllocStart
    <2>2. \A q \in VM : pc'[q] = "bump" => pc[q] = "bump"
      BY <1>0, <2>1
    <2> QED
      BY <2>1, <2>2, SameRoom
  <1>2. CASE AllocLook(p)
    <2>1. /\ heap' = heap /\ code' = code
          /\ pc' = [pc EXCEPT ![p] = IF Fits(Todo(p).on, Todo(p).n) THEN "bump" ELSE "collect"]
      BY <1>2 DEF AllocLook, callVars
    <2>2. \A q \in VM : pc'[q] = "bump" => pc[q] = "bump" \/ Fits(Todo(q).on, Todo(q).n)
      BY <1>0, <2>1
    <2> QED
      BY <2>1, <2>2, SameRoom
  <1>3. CASE AllocBump(p)
    BY <1>3, AllocBumpRoom
  <1>4. CASE AllocCollect(p)
    <2>1. pc[p] = "collect" /\ code' = code /\ pc' = [pc EXCEPT ![p] = "grow"]
      BY <1>4 DEF AllocCollect, callVars
    <2>2. pc[p] \in Looked /\ Todo(p).on \in VM /\ code[p] # <<>>
      BY <2>1, WhoLooks, AllocNames, ItemFacts
    <2>3. PICK h \in VM : h = Todo(p).on
      BY <2>2
    <2>4. PICK s : s = IF Todo(p).n > heap[h].size THEN heap[h].size + Todo(p).n ELSE heap[h].size
      OBVIOUS
    <2>5. Collected(h, s)
      BY <1>4, <2>3, <2>4 DEF AllocCollect
    <2>6. s \in Nat /\ heap[h].size <= s
      BY <2>2, <2>4, TodoType, HeapTypes
    <2> QED
      BY <2>1, <2>2, <2>3, <2>5, <2>6, CollectRoom
  <1>5. CASE AllocGrow(p)
    <2>1. pc[p] = "grow" /\ code' = code /\ pc' = [pc EXCEPT ![p] = "run"]
      BY <1>5 DEF AllocGrow
    <2>2. pc[p] \in Looked /\ Todo(p).on \in VM /\ code[p] # <<>>
      BY <2>1, WhoLooks, AllocNames, ItemFacts
    <2>3. PICK h \in VM : h = Todo(p).on
      BY <2>2
    <2>4. PICK s : s = GrownSize(h, Todo(p).n)
      OBVIOUS
    <2>5. heap' = heap \/ Collected(h, s)
      BY <1>5, <2>3, <2>4 DEF AllocGrow
    <2>6. s \in Nat /\ heap[h].size <= s
      BY <2>2, <2>4, TodoType, HeapTypes DEF GrownSize
    <2>7. CASE heap' = heap
      <3>1. \A q \in VM : pc'[q] = "bump" => pc[q] = "bump"
        BY <1>0, <2>1
      <3> QED
        BY <2>1, <2>7, <3>1, SameRoom
    <2>8. CASE Collected(h, s)
      BY <2>1, <2>2, <2>3, <2>6, <2>8, CollectRoom
    <2> QED
      BY <2>5, <2>7, <2>8
  <1> QED
    BY <1>1, <1>2, <1>3, <1>4, <1>5 DEF AllocStep

\* A collection that no allocation asks for leaves room as any other does.
LEMMA CollectStepRoom ==
  ASSUME TypeInv, ThreadInv, RoomInv, NEW p \in VM, CollectStep(p)
  PROVE  RoomInv'
  <1>0. pc \in [VM -> PC] /\ code \in [VM -> Seq(Items)]
    BY DEF TypeInv, TypeOK
  <1>1. CASE GcStart(p) \/ InsertOnly(p)
    <2>1. heap' = heap /\ \A q \in VM : q # p => code'[q] = code[q]
      BY <1>0, <1>1 DEF GcStart, InsertOnly, NextItem, callVars
    <2>2. PICK to \in {"gc", "run"} : pc' = [pc EXCEPT ![p] = to]
      BY <1>1 DEF GcStart, InsertOnly
    <2>3. \A q \in VM : pc'[q] = "bump" => q # p /\ pc[q] = "bump"
      BY <1>0, <2>2
    <2> QED
      BY <2>1, <2>3, SameRoom
  <1>2. CASE Gc(p)
    <2>1. pc[p] = "gc" /\ pc' = [pc EXCEPT ![p] = "run"] /\ \A q \in VM : q # p => code'[q] = code[q]
      BY <1>0, <1>2 DEF Gc, NextItem
    <2>2. pc[p] \in Looked /\ Todo(p).on \in VM
      BY <2>1, WhoLooks, AllocNames
    <2>3. PICK h \in VM : h = Todo(p).on
      BY <2>2
    <2>4. PICK s \in Nat : s = heap[h].size
      BY HeapTypes
    <2>5. Collected(h, s) /\ heap[h].size <= s
      BY <1>2, <2>3, <2>4 DEF Gc
    <2> QED
      BY <2>1, <2>2, <2>3, <2>5, CollectRoom
  <1> QED
    BY <1>1, <1>2 DEF CollectStep

\* Nobody is in the heap of a VM that is new.
LEMMA ForkRoom ==
  ASSUME TypeInv, ThreadInv, RoomInv, NEW p \in VM, NEW c \in VM, Fork(p, c)
  PROVE  RoomInv'
  <1>1. /\ pc[c] = "unborn" /\ creator[c] = NoVM /\ pc' = [pc EXCEPT ![p] = "run"]
        /\ heap' = [heap EXCEPT ![c] = NewHeap(heap[p].size)]
        /\ code' = [code EXCEPT ![p] = CopyTo(p, c, "small")]
    BY DEF Fork, Begin
  <1>2. /\ pc \in [VM -> PC] /\ code \in [VM -> Seq(Items)] /\ heap \in [VM -> Heap]
    BY DEF TypeInv, TypeOK
  <1>3. /\ heap'[c] = NewHeap(heap[p].size) /\ \A g \in VM : g # c => heap'[g] = heap[g]
    BY <1>1, <1>2
  <1>4. heap[p].used < heap[p].cap /\ heap[p].cap <= heap[p].size
    BY DEF RoomInv
  <1>5. heap'[c].used < heap'[c].cap /\ heap'[c].cap <= heap'[c].size
    BY <1>3, <1>4, HeapTypes DEF NewHeap
  <1>6. \A g \in VM : heap'[g].used < heap'[g].cap /\ heap'[g].cap <= heap'[g].size
    BY <1>3, <1>5 DEF RoomInv
  <1>7. ASSUME NEW q \in VM, pc'[q] = "bump"
        PROVE  Fits(Todo(q).on, Todo(q).n)'
    <2>1. q # p /\ pc[q] = "bump" /\ code'[q] = code[q]
      BY <1>1, <1>2, <1>7
    <2>2. Todo(q).on \in VM /\ Todo(q).on # c
      BY <1>1, <2>1, WhoLooks, AllocNames, RootAssumption
    <2>3. Fits(Todo(q).on, Todo(q).n)
      BY <2>1 DEF RoomInv
    <2> QED
      BY <1>3, <2>1, <2>2, <2>3 DEF Fits, Todo
  <1> QED
    BY <1>6, <1>7 DEF RoomInv

LEMMA NextRoom ==
  ASSUME OwnersLock, TypeInv, ThreadInv, RoomInv, [Next \/ Finished]_vars
  PROVE  RoomInv'
  <1>0. pc \in [VM -> PC] /\ code \in [VM -> Seq(Items)]
    BY DEF TypeInv, TypeOK
  <1>1. ASSUME NEW p \in VM, heap' = heap, \A q \in VM : q # p => code'[q] = code[q],
               \A q \in VM : pc'[q] = "bump" => q # p /\ pc[q] = "bump"
        PROVE  RoomInv'
    BY <1>1, SameRoom
  <1>2. CASE Finished \/ UNCHANGED vars
    BY <1>2, SameRoom DEF Finished, vars, callVars
  <1>3. ASSUME NEW p \in VM, Start(p)
        PROVE  RoomInv'
    <2>1. CASE (\E n : Allocate(p, n)) \/ Peek(p) \/ MakeCData(p) \/ ForceGC(p)
      <3>1. /\ pc' = [pc EXCEPT ![p] = "run"] /\ heap' = heap
            /\ \E items : code' = [code EXCEPT ![p] = items]
        BY <2>1 DEF Allocate, Peek, MakeCData, ForceGC, Begin
      <3> QED
        BY <1>0, <1>1, <3>1
    <2>2. CASE \E q \in VM, k \in Kinds : SendStart(p, q, k)
      <3>1. /\ pc' = [pc EXCEPT ![p] = "sendLock"] /\ heap' = heap /\ code' = code
        BY <2>2 DEF SendStart
      <3> QED
        BY <1>0, <1>1, <3>1
    <2>3. CASE \E c \in VM : Fork(p, c)
      BY <2>3, ForkRoom
    <2> QED
      BY <1>3, <2>1, <2>2, <2>3, OwnersLockSteps DEF Start
  <1>4. ASSUME NEW p \in VM, Step(p)
        PROVE  RoomInv'
    <2>1. CASE AllocStep(p)
      BY <2>1, AllocStepRoom
    <2>2. CASE RunEnd(p)
      <3>1. /\ pc' = [pc EXCEPT ![p] = after[p]] /\ heap' = heap /\ code' = code
            /\ after[p] \in {"idle", "sendUnlock", "sendUnlockAgain", "forkRead"}
        BY <2>2 DEF RunEnd, callVars, TypeInv, TypeOK
      <3> QED
        BY <1>0, <1>1, <3>1
    <2>3. CASE SendLock(p)
      <3>1. /\ pc' = [pc EXCEPT ![p] = "run"] /\ heap' = heap
            /\ code' = [code EXCEPT ![p] = CopyTo(p, peer[p], kind[p])]
        BY <2>3 DEF SendLock
      <3> QED
        BY <1>0, <1>1, <3>1
    <2>4. CASE SendUnlock(p) \/ SendCheck(p) \/ SendStore(p)
      <3>1. heap' = heap /\ code' = code
        BY <2>4 DEF SendUnlock, SendCheck, SendStore, Return, callVars
      <3>2. PICK to \in {"sendCheck", "sendStore", "sendLockAgain", "idle"} :
              pc' = [pc EXCEPT ![p] = to]
        BY <2>4 DEF SendUnlock, SendCheck, SendStore, Return
      <3> QED
        BY <1>0, <1>1, <3>1, <3>2
    <2>5. CASE ForkRead(p) \/ ForkWrite(p) \/ ForkFails(p) \/ StopRead(p) \/ StopWrite(p)
      <3>1. heap' = heap /\ code' = code
        BY <2>5 DEF ForkRead, ForkWrite, ForkFails, StopRead, StopWrite, callVars
      <3>2. PICK to \in {"forkWrite", "forkStart", "stopRead", "stopWrite", "stopInactive"} :
              pc' = [pc EXCEPT ![p] = to]
        BY <2>5 DEF ForkRead, ForkWrite, ForkFails, StopRead, StopWrite
      <3> QED
        BY <1>0, <1>1, <3>1, <3>2
    <2>6. CASE ForkStart(p) \/ StopInactive(p)
      <3>1. heap' = heap /\ code' = code /\ pc[p] \in LifeSteps
        BY <2>6 DEF ForkStart, StopInactive, LifeSteps
      <3>2. PICK to \in {"idle", "stopped"} : pc' = [pc EXCEPT ![p] = "idle", ![peer[p]] = to]
        BY <2>6 DEF ForkStart, StopInactive
      <3>3. PICK c \in VM : c = peer[p] /\ c # p
        BY <3>1, ForkingPeer
      <3>4. \A q \in VM : pc'[q] = "bump" => q # p /\ pc[q] = "bump"
        BY <1>0, <3>2, <3>3
      <3> QED
        BY <1>1, <3>1, <3>4
    <2>7. CASE Dangling(p)
      BY <2>7, SameRoom DEF Dangling, callVars
    <2>8. CASE CollectStep(p)
      BY <2>8, CollectStepRoom
    <2> QED
      BY <1>4, <2>1, <2>2, <2>3, <2>4, <2>5, <2>6, <2>7, <2>8, OwnersLockSteps
         DEF Step, BracketStep, SendStep, LifeStep
  <1> QED
    BY <1>2, <1>3, <1>4 DEF Next

-----------------------------------------------------------------------------
(* Where no big integer is built or sent, no VM comes to its end, and who is *)
(* sent messages works in its heap under the lock only                       *)

LEMMA InitSharing == Init => ThreadInv /\ RoomInv
  <1> SUFFICES ASSUME Init PROVE ThreadInv /\ RoomInv
    OBVIOUS
  <1>1. \A p \in VM : /\ pc[p] \in {"idle", "unborn"} /\ after[p] = "idle" /\ code[p] = <<>>
                      /\ kind[p] = "small" /\ ~locked[p] /\ processes[p] = 0
                      /\ creator[p] = NoVM /\ (p # Root => pc[p] = "unborn")
    BY DEF Init
  <1>2. \A p \in VM : pc[p] \notin Requiring \cup ItemSteps \cup LifeSteps \cup Looked \cup Allocating
    BY <1>1 DEF Requiring, ItemSteps, LifeSteps, Looked, Allocating
  <1>3. \A p \in VM : CodeOf(p) /\ PeerOf(p) /\ LockOf(p)
    BY <1>1, <1>2 DEF CodeOf, PeerOf, LockOf, Sending, Forking
  <1>4. \A p \in VM : CountOf(p)
    <2> SUFFICES ASSUME NEW p \in VM PROVE CountOf(p)
      OBVIOUS
    <2>1. ~Named(p)
      BY <1>1 DEF Named
    <2>2. ~Increased(p) /\ pc[p] \notin {"forkWrite", "stopWrite"}
      BY <1>1 DEF Increased
    <2> QED
      BY <1>1, <1>2, <2>1, <2>2 DEF CountOf
  <1>5. pc[Root] # "unborn"
    BY RootAssumption DEF Init
  <1>6. RoomInv
    BY <1>1, SizeAssumption DEF Init, RoomInv, NewHeap
  <1> QED
    BY <1>3, <1>4, <1>5, <1>6 DEF ThreadInv

LEMMA SharingInductive ==
  ASSUME OwnersLock
  PROVE  Spec => []SharingInv
  <1>1. Init => SharingInv
    BY InitTypeInv, InitSharing DEF SharingInv
  <1>2. SharingInv /\ [Next \/ Finished]_vars => SharingInv'
    BY NextTypeInv, NextThread, NextRoom DEF SharingInv
  <1> QED
    BY <1>1, <1>2, PTL DEF Spec

\* alloc_lock does what it is there for: between the look at the room of a heap
\* and the use of it no other thread looks, allocates or collects, although the
\* owner takes the lock only while its counter of processes is positive.  An
\* owner that also goes into its heap without the lock (a word it peeks, C data,
\* idris_forceGC) must not be one that is sent messages.
THEOREM OneInHeap ==
  ASSUME OwnersLock
  PROVE  Spec => []HeapExclusive
  <1>1. SharingInv => HeapExclusive
    BY InvExclusive DEF SharingInv
  <1> QED
    BY <1>1, SharingInductive, PTL

\* The assertion of iallocate holds: next never passes the end of the heap,
\* whatever survives the collections, if the owner of a heap that others copy
\* to never goes into it without the lock.
THEOREM NextStaysInHeap ==
  ASSUME OwnersLock
  PROVE  Spec => []NextInHeap
  <1>1. SharingInv => NextInHeap
    <2> SUFFICES ASSUME SharingInv, NEW h \in VM PROVE heap[h].used <= heap[h].cap
      BY DEF NextInHeap
    <2>1. heap[h].used < heap[h].cap /\ heap[h].used \in Nat /\ heap[h].cap \in Nat
      BY HeapTypes DEF SharingInv, RoomInv
    <2> QED
      BY <2>1
  <1> QED
    BY <1>1, SharingInductive, PTL

-----------------------------------------------------------------------------
(* What the second collection of iallocate leaves                            *)

\* Only the last step of a call of idris_gc goes from there back to the top.
LEMMA OnlyGrowStarts ==
  ASSUME TypeInv, NEW q \in VM, [Next \/ Finished]_vars, pc[q] = "grow", pc'[q] = "run"
  PROVE  AllocGrow(q)
  <1>1. pc \in [VM -> PC] /\ pc'[q] # pc[q]
    BY DEF TypeInv, TypeOK
  <1>2. Next
    BY <1>1 DEF Finished, vars
  <1>3. PICK p \in VM : Start(p) \/ Step(p)
    BY <1>2 DEF Next
  <1>4. ASSUME Start(p) PROVE FALSE
    <2>1. pc[p] = "idle" /\ \E to : pc' = [pc EXCEPT ![p] = to]
      BY <1>4 DEF Start, Allocate, Peek, MakeCData, ForceGC, BigOperation, SendStart, Fork, Stop,
                  Begin
    <2> QED
      BY <1>1, <2>1
  <1>5. ASSUME ForkStart(p) \/ StopInactive(p) PROVE FALSE
    <2>1. pc[p] # "grow" /\ \E to \in {"idle", "stopped"} :
            pc' = [pc EXCEPT ![p] = "idle", ![peer[p]] = to]
      BY <1>5 DEF ForkStart, StopInactive
    <2> QED
      BY <1>1, <2>1
  <1>6. ASSUME Dangling(p) PROVE FALSE
    BY <1>1, <1>6 DEF Dangling
  <1>7. ASSUME AllocStart(p) \/ AllocLook(p) \/ AllocBump(p) \/ AllocCollect(p)
               \/ CollectStep(p) \/ BracketStep(p) \/ SendStep(p)
               \/ ForkRead(p) \/ ForkWrite(p) \/ ForkFails(p) \/ StopRead(p) \/ StopWrite(p)
        PROVE  FALSE
    <2>1. pc[p] # "grow" /\ \E to : pc' = [pc EXCEPT ![p] = to]
      <3>1. CASE AllocStart(p) \/ AllocLook(p) \/ AllocBump(p) \/ AllocCollect(p)
        BY <3>1 DEF AllocStart, AllocLook, AllocBump, AllocCollect
      <3>2. CASE BracketStep(p)
        BY <3>2 DEF BracketStep, RequireStart, RequireCollect, RequireRead, RequireLock, Done, RunEnd
      <3>3. CASE SendStep(p)
        BY <3>3 DEF SendStep, SendLock, SendUnlock, SendCheck, SendStore, Return
      <3>4. CASE ForkRead(p) \/ ForkWrite(p) \/ ForkFails(p) \/ StopRead(p) \/ StopWrite(p)
        BY <3>4 DEF ForkRead, ForkWrite, ForkFails, StopRead, StopWrite
      <3>5. CASE CollectStep(p)
        BY <3>5 DEF CollectStep, GcStart, Gc, InsertOnly
      <3> QED
        BY <1>7, <3>1, <3>2, <3>3, <3>4, <3>5
    <2> QED
      BY <1>1, <2>1
  <1>8. AllocGrow(p)
    BY <1>3, <1>4, <1>5, <1>6, <1>7 DEF Step, AllocStep, LifeStep
  <1>9. p = q
    <2>1. pc' = [pc EXCEPT ![p] = "run"]
      BY <1>8 DEF AllocGrow
    <2> QED
      BY <1>1, <2>1
  <1> QED
    BY <1>8, <1>9

\* Whatever survived, a heap that was grown for n has room for n.
LEMMA GrownHasRoom ==
  ASSUME TypeInv, RoomInv, NEW h \in VM, NEW n \in Nat, Collected(h, GrownSize(h, n))
  PROVE  Fits(h, n)'
  <1>1. /\ heap[h].used \in Nat /\ heap[h].size \in Nat /\ heap[h].growth \in Nat
        /\ heap[h].cap \in Nat
    BY HeapTypes
  <1>2. heap[h].used < heap[h].size
    BY <1>1 DEF RoomInv
  <1>3. GrownSize(h, n) \in Nat /\ GrownSize(h, n) = heap[h].size + n + heap[h].growth
    BY <1>1 DEF GrownSize
  <1>4. /\ heap'[h].used <= heap[h].used /\ heap'[h].used \in Nat
        /\ heap'[h].cap = GrownSize(h, n)
    BY <1>3, CollectedType, ItemFacts
  <1> QED
    BY <1>1, <1>2, <1>3, <1>4 DEF Fits

\* The retry of iallocate finds the room its second collection was to make,
\* whatever survived it: the loop does not start over for the same reason, if
\* nobody is in the heap meanwhile.
THEOREM RetryHasRoom ==
  ASSUME OwnersLock
  PROVE  Spec => GrowMakesRoom
  <1> DEFINE Grown == \A p \in VM :
               pc[p] = "grow" /\ pc'[p] = "run" => Fits(Todo(p).on, Todo(p).n)'
  <1>1. SharingInv /\ [Next \/ Finished]_vars => [Grown]_vars
    <2> SUFFICES ASSUME SharingInv, [Next \/ Finished]_vars, NEW p \in VM,
                        pc[p] = "grow", pc'[p] = "run"
                 PROVE  Fits(Todo(p).on, Todo(p).n)'
      OBVIOUS
    <2>1. AllocGrow(p) /\ TypeInv /\ RoomInv
      BY OnlyGrowStarts DEF SharingInv
    <2>2. code[p] # <<>>
      BY <2>1, ItemFacts DEF Allocating, Looked
    <2>3. PICK h \in VM, n \in Nat : h = Todo(p).on /\ n = Todo(p).n
      BY <2>1, <2>2, TodoType
    <2>4. /\ code' = code
          /\ IF Fits(h, n) THEN UNCHANGED heap ELSE Collected(h, GrownSize(h, n))
      BY <2>1, <2>3 DEF AllocGrow
    <2>5. Fits(h, n)'
      BY <2>1, <2>4, GrownHasRoom DEF Fits
    <2>6. h = Todo(p)'.on /\ n = Todo(p)'.n
      BY <2>3, <2>4 DEF Todo
    <2> QED
      BY <2>5, <2>6 DEF Fits
  <1> QED
    BY <1>1, SharingInductive, PTL DEF Spec, GrowMakesRoom

-----------------------------------------------------------------------------
(* The collections a sender counts: no assumption on who calls what          *)

\* Who sends has a receiver that was started; the cells its call has made in
\* that heap were made after the count of the collections was read.
CopyOf(p) ==
  /\ Sending(p) => pc[peer[p]] # "unborn" /\ gcs[p] <= heap[peer[p]].collections
  /\ \A c \in made[p] :
       /\ Sending(p)
       /\ c.on = peer[p] =>
            gcs[p] <= c.collections /\ c.collections <= heap[peer[p]].collections

Counted == \A h \in VM : heap[h].collections <= MaxCollections

CopyInv == TypeInv /\ Counted /\ \A p \in VM : CopyOf(p)

\* What a step does to the counters: none of a VM that was started goes down,
\* and no VM that was started is unborn again.
CountsGrow ==
  \A h \in VM : pc[h] # "unborn" =>
    heap[h].collections <= heap'[h].collections /\ pc'[h] # "unborn"

LEMMA CollectedCounts ==
  ASSUME TypeInv, Counted, NEW h \in VM, NEW s \in Nat, Collected(h, s)
  PROVE  /\ Counted'
         /\ \A g \in VM : heap[g].collections <= heap'[g].collections
  <1>1. PICK live \in 0 .. heap[h].used :
          heap' = [heap EXCEPT ![h] =
            [used |-> live, cap |-> s,
             size |-> NextSize(s, live, heap[h].growth), growth |-> heap[h].growth,
             collections |-> IF heap[h].collections < MaxCollections
                             THEN heap[h].collections + 1 ELSE MaxCollections]]
    BY DEF Collected
  <1>2. heap \in [VM -> Heap] /\ MaxCollections \in Nat
    BY ItemFacts, BoundAssumption
  <1>3. \A g \in VM : heap[g].collections \in Nat /\ heap[g].collections <= MaxCollections
    BY HeapTypes DEF Counted
  <1>4. /\ heap'[h].collections = IF heap[h].collections < MaxCollections
                                  THEN heap[h].collections + 1 ELSE MaxCollections
        /\ \A g \in VM : g # h => heap'[g] = heap[g]
    BY <1>1, <1>2
  <1>5. \A g \in VM : heap[g].collections <= heap'[g].collections
                      /\ heap'[g].collections <= MaxCollections
    BY <1>2, <1>3, <1>4
  <1> QED
    BY <1>5 DEF Counted

LEMMA SameCounts ==
  ASSUME TypeInv, Counted, \A h \in VM : heap'[h].collections = heap[h].collections
  PROVE  Counted' /\ \A g \in VM : heap[g].collections <= heap'[g].collections
  BY HeapTypes DEF Counted

\* The step of p leaves the call of another thread as it was, or meets it
\* between two calls.
LEMMA OtherCopy ==
  ASSUME CopyInv, NEW q \in VM, CountsGrow, TypeInv',
         made'[q] = made[q], gcs'[q] = gcs[q], after'[q] = after[q], peer'[q] = peer[q],
         (Sending(q) <=> Sending(q)')
  PROVE  CopyOf(q)'
  <1>1. CopyOf(q)
    BY DEF CopyInv
  <1>2. CASE ~Sending(q)
    <2>1. made'[q] = {}
      BY <1>1, <1>2 DEF CopyOf
    <2> QED
      BY <1>2, <2>1 DEF CopyOf
  <1>3. CASE Sending(q)
    <2>1. PICK r \in VM : r = peer[q]
      BY <1>3 DEF CopyInv, TypeInv, WellFormed, FormOf
    <2>2. /\ heap[r].collections \in Nat /\ heap'[r].collections \in Nat
          /\ heap[r].collections <= heap'[r].collections
          /\ pc'[r] # "unborn" /\ gcs[q] \in Nat
      <3>1. pc[r] # "unborn"
        BY <1>1, <1>3, <2>1 DEF CopyOf
      <3>2. heap'[r] \in Heap
        BY DEF TypeInv, TypeOK
      <3>3. heap'[r].collections \in Nat
        BY <3>2 DEF Heap
      <3>4. gcs[q] \in Nat
        BY DEF CopyInv, TypeInv, TypeOK
      <3> QED
        BY <3>1, <3>3, <3>4, HeapTypes DEF CountsGrow, CopyInv
    <2>3. \A c \in made[q] : c.collections \in Nat
      BY DEF CopyInv, TypeInv, TypeOK
    <2>4. (gcs[q] <= heap[r].collections)
          /\ \A c \in made[q] : c.on = r =>
               gcs[q] <= c.collections /\ c.collections <= heap[r].collections
      BY <1>1, <1>3, <2>1 DEF CopyOf
    <2>5. (gcs[q] <= heap'[r].collections)
          /\ \A c \in made[q] : c.on = r =>
               gcs[q] <= c.collections /\ c.collections <= heap'[r].collections
      BY <2>2, <2>3, <2>4
    <2> QED
      BY <1>3, <2>1, <2>2, <2>5 DEF CopyOf
  <1> QED
    BY <1>2, <1>3

\* The steps in which no call begins or ends, and that make no cell.
LEMMA CallCopy ==
  ASSUME CopyInv, TypeInv', NEW p \in VM, NEW to, pc' = [pc EXCEPT ![p] = to], to # "unborn",
         UNCHANGED <<after, peer, gcs, made>>, (Sending(p) <=> Sending(p)'),
         \A h \in VM : pc[h] # "unborn" => heap[h].collections <= heap'[h].collections
  PROVE  \A q \in VM : CopyOf(q)'
  <1>1. pc \in [VM -> PC]
    BY DEF CopyInv, TypeInv, TypeOK
  <1>2. CountsGrow
    BY <1>1 DEF CountsGrow
  <1>3. \A q \in VM : Sending(q) <=> Sending(q)'
    BY <1>1 DEF Sending, Copying
  <1> QED
    BY <1>2, <1>3, OtherCopy

\* The same for the calls that change what the thread remembers of its own.
LEMMA OthersCopy ==
  ASSUME CopyInv, TypeInv', NEW p \in VM, NEW to, pc' = [pc EXCEPT ![p] = to], to # "unborn",
         NEW a, NEW b, NEW c, NEW d,
         after' = [after EXCEPT ![p] = a], peer' = [peer EXCEPT ![p] = b],
         gcs' = [gcs EXCEPT ![p] = c], made' = [made EXCEPT ![p] = d],
         \A h \in VM : pc[h] # "unborn" => heap[h].collections <= heap'[h].collections,
         CopyOf(p)'
  PROVE  \A q \in VM : CopyOf(q)'
  <1>1. /\ pc \in [VM -> PC] /\ DOMAIN after = VM /\ DOMAIN peer = VM /\ DOMAIN gcs = VM
        /\ DOMAIN made = VM
    BY DEF CopyInv, TypeInv, TypeOK
  <1>2. CountsGrow
    BY <1>1 DEF CountsGrow
  <1>3. ASSUME NEW q \in VM, q # p PROVE CopyOf(q)'
    <2>1. /\ pc'[q] = pc[q] /\ after'[q] = after[q] /\ peer'[q] = peer[q] /\ gcs'[q] = gcs[q]
          /\ made'[q] = made[q]
      BY <1>1, <1>3
    <2>2. Sending(q) <=> Sending(q)'
      BY <2>1 DEF Sending, Copying
    <2> QED
      BY <1>2, <2>1, <2>2, OtherCopy
  <1> QED
    BY <1>3

LEMMA AllocCopy ==
  ASSUME CopyInv, TypeInv', NEW p \in VM, AllocStep(p)
  PROVE  Counted' /\ \A q \in VM : CopyOf(q)'
  <1> DEFINE h == Todo(p).on
             n == Todo(p).n
  <1>0. TypeInv /\ Counted /\ CopyOf(p) /\ pc \in [VM -> PC]
    BY DEF CopyInv, TypeInv, TypeOK
  <1>1. pc[p] \in {"run"} \cup Allocating /\ code[p] # <<>>
    <2>1. pc[p] \in {"run"} \cup Allocating
      BY DEF AllocStep, AllocStart, AllocLook, AllocBump, AllocCollect, AllocGrow, Allocating,
             Looked
    <2>2. pc[p] = "run" => code[p] # <<>>
      BY DEF AllocStep, AllocStart, AllocLook, AllocBump, AllocCollect, AllocGrow
    <2> QED
      BY <1>0, <2>1, <2>2, ItemFacts
  <1>2. h \in VM /\ n \in Nat
    BY <1>0, <1>1, TodoType
  <1>3. "run" \in ItemSteps /\ pc[p] \in ItemSteps
    BY <1>1, StepNames DEF ItemSteps
  <1> HIDE DEF h, n
  <1>4. ASSUME NEW to \in ItemSteps, pc' = [pc EXCEPT ![p] = to], UNCHANGED after
        PROVE  (Sending(p) <=> Sending(p)') /\ to # "unborn"
    BY <1>0, <1>3, <1>4 DEF Sending, Copying, ItemSteps
  <1>5. CASE AllocStart(p) \/ AllocLook(p)
    <2>1. PICK to \in {"look", "bump", "collect"} : pc' = [pc EXCEPT ![p] = to]
      BY <1>5 DEF AllocStart, AllocLook
    <2>2. UNCHANGED <<after, peer, gcs, made, heap>>
      BY <1>5 DEF AllocStart, AllocLook, callVars
    <2>3. Counted' /\ \A g \in VM : heap[g].collections <= heap'[g].collections
      BY <1>0, <2>2, SameCounts
    <2> QED
      BY <1>4, <2>1, <2>2, <2>3, CallCopy DEF ItemSteps
  <1>6. CASE AllocCollect(p) \/ AllocGrow(p)
    <2>1. PICK to \in {"grow", "run"} : pc' = [pc EXCEPT ![p] = to]
      BY <1>6 DEF AllocCollect, AllocGrow
    <2>2. UNCHANGED <<after, peer, gcs, made>>
      BY <1>6 DEF AllocCollect, AllocGrow, callVars
    <2>3. heap' = heap \/ \E s \in Nat : Collected(h, s)
      <3>1. (IF n > heap[h].size THEN heap[h].size + n ELSE heap[h].size) \in Nat
            /\ GrownSize(h, n) \in Nat
        BY <1>0, <1>2, HeapTypes DEF GrownSize
      <3> QED
        BY <1>6, <3>1 DEF AllocCollect, AllocGrow, h, n
    <2>4. Counted' /\ \A g \in VM : heap[g].collections <= heap'[g].collections
      BY <1>0, <1>2, <2>3, SameCounts, CollectedCounts
    <2> QED
      BY <1>4, <2>1, <2>2, <2>4, CallCopy DEF ItemSteps
  <1>7. CASE AllocBump(p)
    <2> DEFINE cell == [on |-> h, collections |-> heap[h].collections]
               cells == IF Copying(p) THEN {cell} ELSE {}
    <2>1. /\ pc' = [pc EXCEPT ![p] = "run"] /\ UNCHANGED <<after, peer, gcs>>
          /\ heap' = [heap EXCEPT ![h].used = @ + n]
          /\ made' = [made EXCEPT ![p] = made[p] \cup cells]
      BY <1>7 DEF AllocBump, h, n
    <2>2. heap \in [VM -> Heap] /\ made \in [VM -> SUBSET [on: VM, collections: Nat]]
      BY <1>0, ItemFacts
    <2>3. \A g \in VM : heap'[g].collections = heap[g].collections
      BY <1>2, <2>1, <2>2 DEF Heap
    <2>4. Counted' /\ \A g \in VM : heap[g].collections <= heap'[g].collections
      BY <1>0, <2>3, SameCounts
    <2>5. Copying(p) => Sending(p) /\ Sending(p)'
      BY <1>0, <1>3, <2>1 DEF Sending, Copying
    <2>6. Sending(p) <=> Sending(p)'
      BY <1>3, <1>4, <2>1
    <2>7. Sending(p) => peer[p] \in VM /\ pc'[peer[p]] # "unborn"
                        /\ gcs[p] <= heap[peer[p]].collections
      BY <1>0, <2>1 DEF TypeInv, WellFormed, FormOf, CopyOf
    <2>8. made'[p] = made[p] \cup cells
      BY <2>1, <2>2
    <2>9. \A c \in made'[p] : /\ Sending(p)
                              /\ c.on = peer[p] =>
                                   gcs[p] <= c.collections
                                   /\ c.collections <= heap[peer[p]].collections
      <3>1. ASSUME NEW c \in made[p]
            PROVE  /\ Sending(p)
                   /\ c.on = peer[p] => gcs[p] <= c.collections
                                        /\ c.collections <= heap[peer[p]].collections
        BY <1>0 DEF CopyOf
      <3>2. ASSUME Copying(p), h = peer[p]
            PROVE  gcs[p] <= cell.collections /\ cell.collections <= heap[peer[p]].collections
        <4>1. heap[h].collections \in Nat
          BY <1>0, <1>2, HeapTypes
        <4> QED
          BY <2>5, <2>7, <3>2, <4>1
      <3>3. cell.on = h
        OBVIOUS
      <3> HIDE DEF cell
      <3> QED
        BY <2>5, <2>8, <3>1, <3>2, <3>3
    <2> HIDE DEF cells
    <2>10. CopyOf(p)'
      <3>1. Sending(p) => peer'[p] = peer[p] /\ gcs'[p] = gcs[p]
                          /\ heap'[peer[p]].collections = heap[peer[p]].collections
        BY <2>1, <2>3, <2>7
      <3> QED
        BY <2>6, <2>7, <2>9, <3>1 DEF CopyOf
    <2>11. after' = [after EXCEPT ![p] = after[p]] /\ peer' = [peer EXCEPT ![p] = peer[p]]
           /\ gcs' = [gcs EXCEPT ![p] = gcs[p]]
      BY <1>0, <2>1 DEF TypeInv, TypeOK
    <2> QED
      BY <2>1, <2>4, <2>10, <2>11, OthersCopy
  <1> QED
    BY <1>5, <1>6, <1>7 DEF AllocStep

LEMMA CollectCopy ==
  ASSUME CopyInv, TypeInv', NEW p \in VM, CollectStep(p)
  PROVE  Counted' /\ \A q \in VM : CopyOf(q)'
  <1>0. TypeInv /\ Counted /\ pc \in [VM -> PC]
    BY DEF CopyInv, TypeInv, TypeOK
  <1>1. UNCHANGED <<after, peer, gcs, made>> /\ pc[p] \in ItemSteps
    BY DEF CollectStep, GcStart, Gc, InsertOnly, callVars, ItemSteps
  <1>2. PICK to \in ItemSteps : pc' = [pc EXCEPT ![p] = to]
    BY DEF CollectStep, GcStart, Gc, InsertOnly, ItemSteps
  <1>3. (Sending(p) <=> Sending(p)') /\ to # "unborn"
    BY <1>0, <1>1, <1>2 DEF Sending, Copying, ItemSteps
  <1>4. heap' = heap \/ \E h \in VM, s \in Nat : Collected(h, s)
    <2>1. CASE Gc(p)
      <3>1. code[p] # <<>>
        BY <1>0, <2>1, ItemFacts DEF Gc, Allocating, Looked
      <3>2. PICK h \in VM : h = Todo(p).on
        BY <1>0, <3>1, TodoType
      <3> QED
        BY <1>0, <2>1, <3>2, HeapTypes DEF Gc
    <2> QED
      BY <2>1 DEF CollectStep, GcStart, InsertOnly
  <1>5. Counted' /\ \A g \in VM : heap[g].collections <= heap'[g].collections
    BY <1>0, <1>4, SameCounts, CollectedCounts
  <1> QED
    BY <1>1, <1>2, <1>3, <1>5, CallCopy

LEMMA BracketCopy ==
  ASSUME CopyInv, TypeInv', NEW p \in VM, BracketStep(p)
  PROVE  Counted' /\ \A q \in VM : CopyOf(q)'
  <1>0. /\ TypeInv /\ Counted /\ pc \in [VM -> PC]
        /\ after[p] \in {"idle", "sendUnlock", "sendUnlockAgain", "forkRead"}
    BY DEF CopyInv, TypeInv, TypeOK
  <1>1. UNCHANGED <<after, peer, gcs, made>> /\ pc[p] \in ItemSteps
    BY DEF BracketStep, RequireStart, RequireCollect, RequireRead, RequireLock, Done, RunEnd,
           callVars, ItemSteps
  <1>2. PICK to \in ItemSteps \cup {after[p]} :
          pc' = [pc EXCEPT ![p] = to] /\ (to \in ItemSteps \/ RunEnd(p))
    BY DEF BracketStep, RequireStart, RequireCollect, RequireRead, RequireLock, Done, RunEnd,
           ItemSteps
  <1>3. (Sending(p) <=> Sending(p)') /\ to # "unborn"
    BY <1>0, <1>1, <1>2 DEF Sending, Copying, ItemSteps
  <1>4. heap' = heap \/ \E h \in VM, s \in Nat : Collected(h, s)
    <2>1. CASE RequireCollect(p)
      <3>1. code[p] # <<>>
        BY <1>0, <2>1, ItemFacts DEF RequireCollect, Requiring
      <3>2. PICK h \in VM : h = Todo(p).on
        BY <1>0, <3>1, TodoType
      <3> QED
        BY <1>0, <2>1, <3>2, HeapTypes DEF RequireCollect
    <2> QED
      BY <2>1 DEF BracketStep, RequireStart, RequireRead, RequireLock, Done, RunEnd, callVars
  <1>5. Counted' /\ \A g \in VM : heap[g].collections <= heap'[g].collections
    BY <1>0, <1>4, SameCounts, CollectedCounts
  <1> QED
    BY <1>1, <1>2, <1>3, <1>5, CallCopy

LEMMA SendCopy ==
  ASSUME CopyInv, TypeInv', NEW p \in VM, SendStep(p)
  PROVE  Counted' /\ \A q \in VM : CopyOf(q)'
  <1>0. /\ TypeInv /\ Counted /\ CopyOf(p) /\ pc \in [VM -> PC] /\ DOMAIN after = VM
        /\ DOMAIN peer = VM /\ DOMAIN gcs = VM /\ DOMAIN made = VM
    BY DEF CopyInv, TypeInv, TypeOK
  <1>1. heap' = heap
    BY DEF SendStep, SendLock, SendUnlock, SendCheck, SendStore
  <1>2. Counted' /\ \A g \in VM : heap[g].collections <= heap'[g].collections
    BY <1>0, <1>1, SameCounts
  <1>3. CASE SendLock(p)
    <2>1. PICK to \in {"sendUnlock", "sendUnlockAgain"} : after' = [after EXCEPT ![p] = to]
      BY <1>3 DEF SendLock
    <2>2. /\ pc[p] \in {"sendLock", "sendLockAgain"} /\ pc' = [pc EXCEPT ![p] = "run"]
          /\ made' = [made EXCEPT ![p] = {}] /\ UNCHANGED <<peer, gcs>>
      BY <1>3 DEF SendLock
    <2>3. Sending(p) /\ Sending(p)'
      BY <1>0, <2>1, <2>2 DEF Sending, Copying, ItemSteps
    <2>4. peer[p] \in VM /\ pc[peer[p]] # "unborn"
      BY <1>0, <2>3 DEF TypeInv, WellFormed, FormOf, CopyOf
    <2>5. CopyOf(p)'
      BY <1>0, <1>1, <2>2, <2>3, <2>4 DEF CopyOf
    <2>6. peer' = [peer EXCEPT ![p] = peer[p]] /\ gcs' = [gcs EXCEPT ![p] = gcs[p]]
      BY <1>0, <2>2 DEF TypeInv, TypeOK
    <2> QED
      BY <1>2, <2>1, <2>2, <2>5, <2>6, OthersCopy
  <1>4. CASE SendUnlock(p) \/ SendCheck(p)
    <2>1. PICK to \in {"sendCheck", "sendStore", "sendLockAgain"} : pc' = [pc EXCEPT ![p] = to]
      BY <1>4 DEF SendUnlock, SendCheck
    <2>2. UNCHANGED <<after, peer, gcs, made>>
          /\ pc[p] \in {"sendUnlock", "sendUnlockAgain", "sendCheck"}
      BY <1>4 DEF SendUnlock, SendCheck, callVars
    <2>3. Sending(p) /\ Sending(p)'
      BY <1>0, <2>1, <2>2 DEF Sending
    <2> QED
      BY <1>2, <2>1, <2>2, <2>3, CallCopy
  <1>5. CASE SendStore(p)
    <2>1. /\ pc' = [pc EXCEPT ![p] = "idle"] /\ after' = [after EXCEPT ![p] = "idle"]
          /\ peer' = [peer EXCEPT ![p] = NoVM] /\ gcs' = [gcs EXCEPT ![p] = 0]
          /\ made' = [made EXCEPT ![p] = {}]
      BY <1>5 DEF SendStore, Return
    <2>2. ~Sending(p)' /\ made'[p] = {}
      BY <1>0, <2>1 DEF Sending, Copying, ItemSteps
    <2>3. CopyOf(p)'
      BY <2>2 DEF CopyOf
    <2> QED
      BY <1>2, <2>1, <2>3, OthersCopy
  <1> QED
    BY <1>3, <1>4, <1>5 DEF SendStep

LEMMA LifeCopy ==
  ASSUME CopyInv, TypeInv', NEW p \in VM, LifeStep(p)
  PROVE  Counted' /\ \A q \in VM : CopyOf(q)'
  <1>0. /\ TypeInv /\ Counted /\ CopyOf(p) /\ pc \in [VM -> PC]
    BY DEF CopyInv, TypeInv, TypeOK
  <1>1. heap' = heap /\ UNCHANGED <<gcs, made>> /\ pc[p] \in LifeSteps
    BY DEF LifeStep, ForkRead, ForkWrite, ForkStart, ForkFails, StopRead, StopWrite,
           StopInactive, LifeSteps, callVars
  <1>2. Counted' /\ \A g \in VM : heap[g].collections <= heap'[g].collections
    BY <1>0, <1>1, SameCounts
  <1>3. ~Sending(p)
    BY <1>1 DEF Sending, Copying, ItemSteps, LifeSteps
  <1>4. CASE ForkRead(p) \/ ForkWrite(p) \/ ForkFails(p) \/ StopRead(p) \/ StopWrite(p)
    <2>1. PICK to \in LifeSteps : pc' = [pc EXCEPT ![p] = to]
      BY <1>4 DEF ForkRead, ForkWrite, ForkFails, StopRead, StopWrite, LifeSteps
    <2>2. UNCHANGED <<after, peer>>
      BY <1>4 DEF ForkRead, ForkWrite, ForkFails, StopRead, StopWrite, callVars
    <2>3. ~Sending(p)' /\ to # "unborn"
      BY <1>0, <2>1 DEF Sending, Copying, ItemSteps, LifeSteps
    <2> QED
      BY <1>1, <1>2, <1>3, <2>1, <2>2, <2>3, CallCopy
  <1>5. CASE ForkStart(p) \/ StopInactive(p)
    <2>1. PICK c \in VM : /\ c = peer[p] /\ (c = p \/ pc[c] = "unborn")
      BY <1>0, <1>1 DEF TypeInv, WellFormed, FormOf, Forking
    <2>2. PICK to \in {"idle", "stopped"} : pc' = [pc EXCEPT ![p] = "idle", ![c] = to]
      BY <1>5, <2>1 DEF ForkStart, StopInactive
    <2>3. after' = [after EXCEPT ![p] = "idle"] /\ peer' = [peer EXCEPT ![p] = NoVM]
      BY <1>5 DEF ForkStart, StopInactive
    <2>4. \A q \in VM : pc[q] # "unborn" => pc'[q] # "unborn"
      BY <1>0, <2>2
    <2>5. CountsGrow
      BY <1>2, <2>4 DEF CountsGrow
    <2>6. ASSUME NEW q \in {p, c} PROVE CopyOf(q)'
      <3>1. q \in VM /\ pc'[q] \in {"idle", "stopped"} /\ ~Sending(q)
        BY <1>0, <1>3, <2>1, <2>2 DEF Sending, ItemSteps
      <3>2. made[q] = {}
        BY <3>1 DEF CopyInv, CopyOf
      <3>3. ~Sending(q)'
        BY <3>1 DEF Sending, ItemSteps
      <3> QED
        BY <1>1, <3>2, <3>3 DEF CopyOf
    <2>7. ASSUME NEW q \in VM, q \notin {p, c} PROVE CopyOf(q)'
      <3>1. pc'[q] = pc[q] /\ after'[q] = after[q] /\ peer'[q] = peer[q]
        BY <1>0, <2>2, <2>3, <2>7 DEF TypeInv, TypeOK
      <3>2. Sending(q) <=> Sending(q)'
        BY <3>1 DEF Sending, Copying
      <3> QED
        BY <1>1, <2>5, <3>1, <3>2, OtherCopy
    <2> QED
      BY <1>2, <2>6, <2>7
  <1> QED
    BY <1>4, <1>5 DEF LifeStep

LEMMA StartCopy ==
  ASSUME CopyInv, TypeInv', NEW p \in VM, Start(p)
  PROVE  Counted' /\ \A q \in VM : CopyOf(q)'
  <1>0. /\ TypeInv /\ Counted /\ CopyOf(p) /\ pc \in [VM -> PC] /\ after \in [VM -> {"idle",
             "sendUnlock", "sendUnlockAgain", "forkRead"}] /\ DOMAIN peer = VM
        /\ gcs \in [VM -> Nat] /\ DOMAIN made = VM
    BY DEF CopyInv, TypeInv, TypeOK
  <1>1. pc[p] = "idle" /\ UNCHANGED made
    BY DEF Start, Allocate, Peek, MakeCData, ForceGC, BigOperation, SendStart, Fork, Stop, Begin
  <1>2. ~Sending(p) /\ after[p] = "idle"
    BY <1>0, <1>1 DEF TypeInv, WellFormed, FormOf, Resting, Sending, ItemSteps
  <1>3. made[p] = {} /\ made' = [made EXCEPT ![p] = {}]
    <2>1. made[p] = {}
      BY <1>0, <1>2 DEF CopyOf
    <2>2. made \in [VM -> SUBSET [on: VM, collections: Nat]]
      BY <1>0, ItemFacts
    <2> QED
      BY <1>1, <2>1, <2>2
  <1>4. CASE (\E n : Allocate(p, n)) \/ Peek(p) \/ MakeCData(p) \/ ForceGC(p) \/ BigOperation(p)
    <2>1. pc' = [pc EXCEPT ![p] = "run"] /\ UNCHANGED <<after, peer, gcs, made, heap>>
      BY <1>4 DEF Allocate, Peek, MakeCData, ForceGC, BigOperation, Begin
    <2>2. ~Sending(p)'
      BY <1>0, <1>2, <2>1 DEF Sending, Copying
    <2>3. Counted' /\ \A g \in VM : heap[g].collections <= heap'[g].collections
      BY <1>0, <2>1, SameCounts
    <2> QED
      BY <1>2, <2>1, <2>2, <2>3, CallCopy
  <1>5. CASE Stop(p)
    <2>1. /\ pc' = [pc EXCEPT ![p] = "stopRead"] /\ UNCHANGED <<after, gcs, heap>>
          /\ peer' = [peer EXCEPT ![p] = p]
      BY <1>5 DEF Stop
    <2>2. CopyOf(p)'
      BY <1>0, <1>1, <1>3, <2>1 DEF CopyOf, Sending, ItemSteps
    <2>3. after' = [after EXCEPT ![p] = after[p]] /\ gcs' = [gcs EXCEPT ![p] = gcs[p]]
      BY <1>0, <2>1
    <2>4. Counted' /\ \A g \in VM : heap[g].collections <= heap'[g].collections
      BY <1>0, <2>1, SameCounts
    <2> QED
      BY <1>3, <2>1, <2>2, <2>3, <2>4, OthersCopy
  <1>6. ASSUME NEW q \in VM, NEW k \in Kinds, SendStart(p, q, k)
        PROVE  Counted' /\ \A r \in VM : CopyOf(r)'
    <2>1. /\ pc' = [pc EXCEPT ![p] = "sendLock"] /\ UNCHANGED <<after, heap>>
          /\ peer' = [peer EXCEPT ![p] = q] /\ pc[q] # "unborn"
          /\ gcs' = [gcs EXCEPT ![p] = heap[q].collections]
      BY <1>6 DEF SendStart
    <2>2. heap[q].collections \in Nat
      BY <1>0, HeapTypes
    <2>3. peer'[p] = q /\ gcs'[p] = heap'[q].collections /\ pc'[q] # "unborn"
      BY <1>0, <2>1
    <2>4. CopyOf(p)'
      BY <1>1, <1>3, <2>1, <2>2, <2>3 DEF CopyOf
    <2>5. after' = [after EXCEPT ![p] = after[p]]
      BY <1>0, <2>1
    <2>6. Counted' /\ \A g \in VM : heap[g].collections <= heap'[g].collections
      BY <1>0, <2>1, SameCounts
    <2> QED
      BY <1>3, <2>1, <2>4, <2>5, <2>6, OthersCopy
  <1>7. ASSUME NEW c \in VM, Fork(p, c)
        PROVE  Counted' /\ \A r \in VM : CopyOf(r)'
    <2>1. /\ pc' = [pc EXCEPT ![p] = "run"] /\ after' = [after EXCEPT ![p] = "forkRead"]
          /\ peer' = [peer EXCEPT ![p] = c] /\ pc[c] = "unborn" /\ gcs' = gcs
          /\ heap' = [heap EXCEPT ![c] = NewHeap(heap[p].size)]
      BY <1>7 DEF Fork, Begin
    <2>2. heap \in [VM -> Heap] /\ MaxCollections \in Nat
      BY <1>0, ItemFacts, BoundAssumption
    <2>3. heap'[c].collections = 0 /\ \A g \in VM : g # c => heap'[g] = heap[g]
      BY <2>1, <2>2 DEF NewHeap
    <2>4. Counted'
      BY <1>0, <2>2, <2>3 DEF Counted
    <2>5. \A h \in VM : pc[h] # "unborn" => heap[h].collections <= heap'[h].collections
      BY <1>0, <2>1, <2>3, HeapTypes
    <2>6. CopyOf(p)'
      <3>1. ~Sending(p)'
        BY <1>0, <2>1 DEF Sending, Copying
      <3> QED
        BY <1>1, <1>3, <3>1 DEF CopyOf
    <2>7. gcs' = [gcs EXCEPT ![p] = gcs[p]]
      BY <1>0, <2>1
    <2> QED
      BY <1>3, <2>1, <2>4, <2>5, <2>6, <2>7, OthersCopy
  <1> QED
    BY <1>4, <1>5, <1>6, <1>7 DEF Start

LEMMA NextCopy ==
  ASSUME CopyInv, [Next \/ Finished]_vars
  PROVE  CopyInv'
  <1>1. TypeInv' /\ TypeInv /\ Counted
    BY NextTypeInv DEF CopyInv
  <1>2. ASSUME UNCHANGED <<pc, callVars, heap>>
        PROVE  Counted' /\ \A q \in VM : CopyOf(q)'
    BY <1>2 DEF CopyInv, Counted, CopyOf, Sending, Copying, callVars
  <1>3. CASE Finished \/ UNCHANGED vars
    BY <1>1, <1>2, <1>3 DEF Finished, vars, CopyInv
  <1>4. CASE Next
    <2>1. PICK p \in VM : Start(p) \/ Step(p)
      BY <1>4 DEF Next
    <2>2. CASE Dangling(p)
      BY <1>1, <1>2, <2>2 DEF Dangling, CopyInv
    <2> QED
      BY <1>1, <2>1, <2>2, StartCopy, AllocCopy, CollectCopy, BracketCopy, SendCopy, LifeCopy
         DEF Step, CopyInv
  <1> QED
    BY <1>3, <1>4

\* The counter of collections is enough to notice a stale copy: where the test
\* of idris_sendMessage lets a copy pass, no collection of the receiver came
\* between the cells of the copy that are in its heap and the test, whoever
\* collects, forks or stops meanwhile.
THEOREM StaleCopyNoticed == Spec => []CopyNoticed
  <1>1. Init => CopyInv
    <2> SUFFICES ASSUME Init PROVE CopyInv
      OBVIOUS
    <2>1. \A p \in VM : ~Sending(p) /\ made[p] = {}
      BY DEF Init, Sending, ItemSteps
    <2>2. Counted
      BY BoundAssumption DEF Init, NewHeap, Counted
    <2> QED
      BY <2>1, <2>2, InitTypeInv DEF CopyInv, CopyOf
  <1>2. CopyInv => CopyNoticed
    <2> SUFFICES ASSUME CopyInv, NEW p \in VM, pc[p] = "sendCheck", ~CollectedSince(p),
                        NEW c \in made[p], c.on = peer[p]
                 PROVE  c.collections = heap[peer[p]].collections
      BY DEF CopyNoticed
    <2>1. Sending(p) /\ CopyOf(p) /\ TypeInv
      BY DEF Sending, CopyInv
    <2>2. PICK h \in VM : h = peer[p]
      BY <2>1 DEF TypeInv, WellFormed, FormOf
    <2>3. gcs[p] \in Nat /\ heap[h].collections \in Nat /\ c.collections \in Nat
      <3>1. gcs \in [VM -> Nat] /\ made[p] \in SUBSET [on: VM, collections: Nat]
        BY <2>1, ItemFacts DEF TypeInv, TypeOK
      <3>2. c \in [on: VM, collections: Nat]
        BY <3>1
      <3> QED
        BY <2>1, <3>1, <3>2, HeapTypes
    <2>4. ~(heap[h].collections > gcs[p]) /\ gcs[p] <= c.collections
          /\ c.collections <= heap[h].collections
      BY <2>1, <2>2 DEF CopyOf, CollectedSince
    <2> QED
      BY <2>2, <2>3, <2>4
  <1> QED
    BY <1>1, <1>2, NextCopy, PTL DEF Spec

-----------------------------------------------------------------------------
(* What idris_requireAlloc takes, idris_doneAlloc gives back: proofs about   *)
(* the alloc_locks.  The counter processes decides at each of the four calls *)
(* whether there is a lock to take or to give, so the proof is about that    *)
(* counter first, and about the locks a thread holds then.                   *)

-----------------------------------------------------------------------------
(* The counter of processes                                                  *)

\* In these heaps big integers are made, by their owner or by a sender.
Bracketed == BigCalls \cup {call[2] : call \in {c \in SendCalls : c[3] = "big"}}

\* A child that comes to its end lowers the counter of its creator, perhaps
\* between two calls of a bracket.
ChildrenStay == \A call \in ForkCalls : call[2] \in MayStop => call[1] \notin Bracketed

Alive(c) == pc[c] \notin {"unborn", "stopped"}

\* Other threads know of q: it was forked, or it is that of main and has a child.
Called(q) == IF q = Root THEN \E c \in VM : creator[c] = Root /\ Alive(c) ELSE creator[q] # NoVM

\* q has added one to its counter for a child that is not there yet, or failed.
Raised(q) == pc[q] \in {"forkStart", "stopRead", "stopWrite"} /\ after[q] = "forkRead"

CountsOf(q) ==
  q \in Bracketed =>
    /\ processes[q] >= 0
    /\ Called(q) => processes[q] >= 1
    /\ Raised(q) => processes[q] >= 1
    /\ Called(q) /\ Raised(q) => processes[q] >= 2
    /\ pc[q] \in {"forkWrite", "stopWrite"} /\ after[q] = "forkRead" => count[q] = processes[q]

LifeOf(p) ==
  /\ creator[p] # NoVM => <<creator[p], p>> \in ForkCalls
  /\ pc[p] \in {"forkRead", "forkWrite", "forkStart"} => after[p] = "forkRead"
  /\ pc[p] \in {"stopRead", "stopWrite", "stopInactive"} /\ after[p] # "forkRead" => p \in MayStop
  /\ Root \in Bracketed /\ p # Root /\ Alive(p) => Called(Root)
  /\ Sending(p) => <<p, peer[p], kind[p]>> \in SendCalls /\ pc[peer[p]] # "unborn"

CountInv == TypeInv /\ \A p \in VM : CountsOf(p) /\ LifeOf(p)

\* What a sender may count on while it copies a big integer.
SafeSend(p) ==
  Sending(p) /\ kind[p] = "big" =>
    /\ peer[p] \in VM /\ peer[p] # p
    /\ peer[p] \in Bracketed /\ processes[peer[p]] > 0

\* The types these proofs use.
LEMMA LifeTypes ==
  ASSUME TypeInv
  PROVE  /\ pc \in [VM -> PC] /\ DOMAIN peer = VM /\ DOMAIN kind = VM /\ DOMAIN code = VM
         /\ after \in [VM -> {"idle", "sendUnlock", "sendUnlockAgain", "forkRead"}]
         /\ count \in [VM -> Int] /\ processes \in [VM -> Int]
         /\ creator \in [VM -> VM \cup {NoVM}] /\ locked \in [VM -> BOOLEAN]
  BY DEF TypeInv, TypeOK

LEMMA BracketedVM ==
  /\ BigCalls \subseteq Bracketed
  /\ \A p, q : <<p, q, "big">> \in SendCalls => q \in Bracketed
  <1>1. \A p, q : <<p, q, "big">>[2] = q /\ <<p, q, "big">>[3] = "big"
    OBVIOUS
  <1> QED
    BY <1>1 DEF Bracketed

\* A VM that makes big integers has no child that ends itself.
LEMMA NoOrphan ==
  ASSUME ChildrenStay, NEW p \in VM, LifeOf(p), p \in MayStop, creator[p] # NoVM
  PROVE  creator[p] \notin Bracketed
  <1>1. <<creator[p], p>> \in ForkCalls
    BY DEF LifeOf
  <1>2. <<creator[p], p>>[1] = creator[p] /\ <<creator[p], p>>[2] = p
    OBVIOUS
  <1> QED
    BY <1>1, <1>2 DEF ChildrenStay

LEMMA SafeSends ==
  ASSUME CountInv, NEW p \in VM
  PROVE  SafeSend(p)
  <1> SUFFICES ASSUME Sending(p), kind[p] = "big"
               PROVE  /\ peer[p] \in VM /\ peer[p] # p
                      /\ peer[p] \in Bracketed /\ processes[peer[p]] > 0
    BY DEF SafeSend
  <1>1. /\ TypeInv /\ LifeOf(p) /\ FormOf(p) /\ peer[p] \in VM
        /\ <<p, peer[p], "big">> \in SendCalls /\ pc[peer[p]] # "unborn"
    BY DEF CountInv, TypeInv, WellFormed, FormOf, LifeOf
  <1>2. PICK h \in VM : h = peer[p]
    BY <1>1
  <1>3. p # h
    <2>1. <<p, h, "big">>[1] = p /\ <<p, h, "big">>[2] = h
      OBVIOUS
    <2> QED
      BY <1>1, <1>2, <2>1, SendAssumption
  <1>4. h \in Bracketed /\ CountsOf(h) /\ FormOf(h)
    BY <1>1, <1>2, BracketedVM DEF CountInv, TypeInv, WellFormed
  <1>5. Called(h)
    <2>1. CASE h = Root
      <3>1. Alive(p)
        BY DEF Alive, Sending, ItemSteps
      <3> QED
        BY <1>1, <1>3, <1>4, <2>1, <3>1 DEF LifeOf
    <2>2. CASE h # Root
      <3>1. creator[h] \in VM
        BY <1>1, <1>2, <1>4, <2>2 DEF FormOf
      <3> QED
        BY <2>2, <3>1, RootAssumption DEF Called
    <2> QED
      BY <2>1, <2>2
  <1>6. processes[h] \in Int /\ processes[h] >= 1
    BY <1>1, <1>4, <1>5, LifeTypes DEF CountsOf
  <1> QED
    BY <1>1, <1>2, <1>3, <1>4, <1>6

\* A step in which no VM is forgotten leaves the thread q and its counter alone.
Unforgotten ==
  /\ Root \in Bracketed /\ Called(Root) => Called(Root)'
  /\ \A r \in VM : pc[r] # "unborn" => pc'[r] # "unborn"
Untouched(q) ==
  /\ pc'[q] = pc[q] /\ after'[q] = after[q] /\ peer'[q] = peer[q] /\ kind'[q] = kind[q]
  /\ count'[q] = count[q] /\ creator'[q] = creator[q]
  /\ q \in Bracketed => processes'[q] = processes[q]
  /\ q \in Bracketed /\ Called(q)' => Called(q)

LEMMA OtherLife ==
  ASSUME CountInv, NEW q \in VM, Untouched(q), Unforgotten
  PROVE  CountsOf(q)' /\ LifeOf(q)'
  <1>0. /\ pc'[q] = pc[q] /\ after'[q] = after[q] /\ peer'[q] = peer[q] /\ kind'[q] = kind[q]
        /\ count'[q] = count[q] /\ creator'[q] = creator[q]
        /\ \A r \in VM : pc[r] # "unborn" => pc'[r] # "unborn"
    BY DEF Untouched, Unforgotten
  <1>1. CountsOf(q) /\ LifeOf(q) /\ FormOf(q)
    BY DEF CountInv, TypeInv, WellFormed
  <1>2. /\ Raised(q)' <=> Raised(q)
        /\ Sending(q)' <=> Sending(q)
        /\ Alive(q)' <=> Alive(q)
    BY <1>0 DEF Raised, Sending, Copying, Alive
  <1>3. CountsOf(q)'
    <2>1. SUFFICES ASSUME q \in Bracketed
                   PROVE  /\ processes'[q] >= 0
                          /\ Called(q)' => processes'[q] >= 1
                          /\ Raised(q)' => processes'[q] >= 1
                          /\ Called(q)' /\ Raised(q)' => processes'[q] >= 2
                          /\ pc'[q] \in {"forkWrite", "stopWrite"} /\ after'[q] = "forkRead"
                             => count'[q] = processes'[q]
      BY DEF CountsOf
    <2>2. processes'[q] = processes[q] /\ (Called(q)' => Called(q))
      BY <2>1 DEF Untouched
    <2> QED
      BY <1>0, <1>1, <1>2, <2>1, <2>2 DEF CountsOf
  <1>4. LifeOf(q)'
    <2>1. Sending(q) => peer[q] \in VM /\ pc'[peer[q]] # "unborn"
      BY <1>0, <1>1 DEF FormOf, LifeOf
    <2> QED
      BY <1>0, <1>1, <1>2, <2>1 DEF LifeOf, Unforgotten
  <1> QED
    BY <1>3, <1>4

\* The steps of one thread that leave the counters and the creators alone.
LEMMA OwnStepLife ==
  ASSUME CountInv, TypeInv', NEW p \in VM, NEW to, pc' = [pc EXCEPT ![p] = to],
         Alive(p), to \notin {"unborn", "stopped"}, UNCHANGED <<creator, processes>>,
         \A q \in VM : q # p => /\ after'[q] = after[q] /\ peer'[q] = peer[q]
                                /\ kind'[q] = kind[q] /\ count'[q] = count[q],
         p \in Bracketed => (Raised(p)' => Raised(p)),
         p \in Bracketed /\ to \in {"forkWrite", "stopWrite"} /\ after'[p] = "forkRead"
           => count'[p] = processes[p],
         to \in {"forkRead", "forkWrite", "forkStart"} => after'[p] = "forkRead",
         to \in {"stopRead", "stopWrite", "stopInactive"} /\ after'[p] # "forkRead" => p \in MayStop,
         Sending(p)' => <<p, peer'[p], kind'[p]>> \in SendCalls /\ pc[peer'[p]] # "unborn"
  PROVE  \A q \in VM : CountsOf(q)' /\ LifeOf(q)'
  <1>0. TypeInv /\ pc \in [VM -> PC] /\ pc'[p] = to
    BY LifeTypes DEF CountInv
  <1>1. \A q \in VM : (Alive(q)' <=> Alive(q)) /\ (pc[q] # "unborn" => pc'[q] # "unborn")
    BY <1>0 DEF Alive
  <1>2. \A q \in VM : Called(q)' <=> Called(q)
    BY <1>1 DEF Called
  <1>3. ASSUME NEW q \in VM, q # p PROVE CountsOf(q)' /\ LifeOf(q)'
    <2>1. /\ pc'[q] = pc[q] /\ after'[q] = after[q] /\ peer'[q] = peer[q] /\ kind'[q] = kind[q]
          /\ count'[q] = count[q] /\ creator'[q] = creator[q] /\ processes'[q] = processes[q]
      BY <1>0, <1>3
    <2>2. (Called(q)' <=> Called(q)) /\ (Called(Root)' <=> Called(Root))
      BY <1>2, RootAssumption
    <2>3. Untouched(q)
      BY <2>1, <2>2 DEF Untouched
    <2>4. Unforgotten
      BY <1>1, <2>2 DEF Unforgotten
    <2> QED
      BY <2>3, <2>4, OtherLife
  <1>4. CountsOf(p)'
    <2>1. CountsOf(p) /\ (Called(p)' <=> Called(p)) /\ processes'[p] = processes[p]
      BY <1>2 DEF CountInv
    <2> QED
      BY <1>0, <2>1 DEF CountsOf
  <1>5. LifeOf(p)'
    <2>1. LifeOf(p) /\ creator'[p] = creator[p] /\ (Called(Root)' <=> Called(Root))
          /\ (Alive(p)' <=> Alive(p))
      BY <1>1, <1>2, RootAssumption DEF CountInv
    <2>2. Sending(p)' => pc'[peer'[p]] # "unborn"
      <3>1. Sending(p)' => peer'[p] \in VM
        BY DEF TypeInv, WellFormed, FormOf
      <3> QED
        BY <1>1, <3>1
    <2> QED
      BY <1>0, <2>1, <2>2 DEF LifeOf
  <1> QED
    BY <1>3, <1>4, <1>5

\* The items of a call change no counter and no VM.
LEMMA ItemLife ==
  ASSUME CountInv, TypeInv', NEW p \in VM, AllocStep(p) \/ CollectStep(p) \/ BracketStep(p)
  PROVE  \A q \in VM : CountsOf(q)' /\ LifeOf(q)'
  <1>0. /\ TypeInv /\ pc \in [VM -> PC] /\ LifeOf(p) /\ pc[p] \in PC
        /\ after[p] \in {"idle", "sendUnlock", "sendUnlockAgain", "forkRead"}
    BY LifeTypes DEF CountInv
  <1>1. UNCHANGED <<after, peer, kind, count, creator, processes>> /\ pc[p] \in ItemSteps
    <2>1. CASE AllocStep(p)
      BY <2>1 DEF AllocStep, AllocStart, AllocLook, AllocBump, AllocCollect, AllocGrow, callVars,
                  vmVars, ItemSteps
    <2>2. CASE CollectStep(p)
      BY <2>2 DEF CollectStep, GcStart, Gc, InsertOnly, callVars, vmVars, ItemSteps
    <2>3. CASE BracketStep(p)
      BY <2>3 DEF BracketStep, RequireStart, RequireCollect, RequireRead, RequireLock, Done,
                  RunEnd, callVars, vmVars, ItemSteps
    <2> QED
      BY <2>1, <2>2, <2>3
  <1>2. PICK to \in ItemSteps \cup {after[p]} : pc' = [pc EXCEPT ![p] = to]
    <2>1. CASE AllocStep(p)
      <3>1. \E to \in {"look", "bump", "collect", "grow", "run"} : pc' = [pc EXCEPT ![p] = to]
        BY <2>1 DEF AllocStep, AllocStart, AllocLook, AllocBump, AllocCollect, AllocGrow
      <3> QED
        BY <3>1 DEF ItemSteps
    <2>2. CASE BracketStep(p)
      BY <2>2 DEF BracketStep, RequireStart, RequireCollect, RequireRead, RequireLock, Done,
                  RunEnd, ItemSteps
    <2>3. CASE CollectStep(p)
      BY <2>3 DEF CollectStep, GcStart, Gc, InsertOnly, ItemSteps
    <2> QED
      BY <2>1, <2>2, <2>3
  <1>3. pc'[p] = to
    BY <1>0, <1>2
  <1>4. /\ Alive(p) /\ to \notin {"unborn", "stopped", "forkWrite", "stopWrite", "forkStart"}
        /\ to \notin {"stopRead", "stopWrite", "stopInactive"} /\ ~Raised(p)'
        /\ to = "forkRead" => after[p] = "forkRead"
    BY <1>0, <1>1, <1>2, <1>3 DEF Alive, Raised, ItemSteps
  <1>5. Sending(p)' => Sending(p)
    BY <1>0, <1>1, <1>2, <1>3 DEF Sending, Copying, ItemSteps
  <1>6. Sending(p)' => <<p, peer'[p], kind'[p]>> \in SendCalls /\ pc[peer'[p]] # "unborn"
    BY <1>0, <1>1, <1>5 DEF LifeOf
  <1> QED
    BY <1>1, <1>2, <1>4, <1>6, OwnStepLife

\* So do the calls that begin or continue a send, an allocation, or an end.
LEMMA CallLife ==
  ASSUME CountInv, TypeInv', NEW p \in VM,
         \/ SendStep(p) \/ ForkRead(p) \/ ForkFails(p) \/ StopRead(p) \/ Stop(p)
         \/ (\E n : Allocate(p, n)) \/ Peek(p) \/ MakeCData(p) \/ ForceGC(p) \/ BigOperation(p)
         \/ \E q \in VM, k \in Kinds : SendStart(p, q, k)
  PROVE  \A q \in VM : CountsOf(q)' /\ LifeOf(q)'
  <1>0. /\ TypeInv /\ pc \in [VM -> PC] /\ LifeOf(p) /\ FormOf(p)
        /\ after \in [VM -> {"idle", "sendUnlock", "sendUnlockAgain", "forkRead"}]
        /\ DOMAIN peer = VM /\ DOMAIN kind = VM /\ count \in [VM -> Int]
    BY LifeTypes DEF CountInv, TypeInv, WellFormed
  <1>1. CASE SendStep(p)
    <2>1. PICK to \in {"run", "sendCheck", "sendStore", "sendLockAgain", "idle"} :
            pc' = [pc EXCEPT ![p] = to]
      BY <1>1 DEF SendStep, SendLock, SendUnlock, SendCheck, SendStore, Return
    <2>2. /\ pc[p] \in {"sendLock", "sendLockAgain", "sendUnlock", "sendUnlockAgain", "sendCheck",
                        "sendStore"}
          /\ UNCHANGED <<creator, processes>>
      BY <1>1 DEF SendStep, SendLock, SendUnlock, SendCheck, SendStore, Return, vmVars
    <2>3. pc'[p] = to /\ Alive(p) /\ ~Raised(p)' /\ Sending(p)
      BY <1>0, <2>1, <2>2 DEF Alive, Raised, Sending
    <2>4. \A q \in VM : q # p => /\ after'[q] = after[q] /\ peer'[q] = peer[q]
                                 /\ kind'[q] = kind[q] /\ count'[q] = count[q]
      BY <1>0, <1>1 DEF SendStep, SendLock, SendUnlock, SendCheck, SendStore, Return, callVars
    <2>5. to = "idle" \/ (peer'[p] = peer[p] /\ kind'[p] = kind[p])
      BY <1>0, <1>1, <2>1, <2>2, <2>3
         DEF SendStep, SendLock, SendUnlock, SendCheck, SendStore, Return, callVars
    <2>6. Sending(p)' => <<p, peer'[p], kind'[p]>> \in SendCalls /\ pc[peer'[p]] # "unborn"
      <3>1. to = "idle" => ~Sending(p)'
        BY <2>3 DEF Sending, ItemSteps
      <3> QED
        BY <1>0, <2>3, <2>5, <3>1 DEF LifeOf
    <2> QED
      BY <2>1, <2>2, <2>3, <2>4, <2>6, OwnStepLife
  <1>2. CASE ForkRead(p)
    <2>1. /\ pc[p] = "forkRead" /\ pc' = [pc EXCEPT ![p] = "forkWrite"]
          /\ UNCHANGED <<after, peer, kind, creator, processes>>
          /\ count' = [count EXCEPT ![p] = processes[p]]
      BY <1>2 DEF ForkRead, vmVars
    <2>2. pc'[p] = "forkWrite" /\ Alive(p) /\ ~Raised(p)' /\ ~Sending(p)' /\ after'[p] = "forkRead"
      BY <1>0, <2>1 DEF Alive, Raised, Sending, ItemSteps, LifeOf
    <2> QED
      BY <1>0, <2>1, <2>2, OwnStepLife
  <1>3. CASE ForkFails(p)
    <2>1. /\ pc[p] = "forkStart" /\ pc' = [pc EXCEPT ![p] = "stopRead"]
          /\ UNCHANGED <<after, peer, kind, count, creator, processes>>
      BY <1>3 DEF ForkFails, callVars
    <2>2. pc'[p] = "stopRead" /\ Alive(p) /\ Raised(p) /\ ~Sending(p)' /\ after'[p] = "forkRead"
      BY <1>0, <2>1 DEF Alive, Raised, Sending, ItemSteps, LifeOf
    <2> QED
      BY <1>0, <2>1, <2>2, OwnStepLife
  <1>4. CASE StopRead(p)
    <2>1. /\ pc[p] = "stopRead" /\ pc' = [pc EXCEPT ![p] = "stopWrite"]
          /\ UNCHANGED <<after, peer, kind, creator, processes>>
          /\ count' = [count EXCEPT ![p] = processes[creator[peer[p]]]]
      BY <1>4 DEF StopRead, vmVars
    <2>2. /\ pc'[p] = "stopWrite" /\ Alive(p) /\ (Raised(p)' => Raised(p)) /\ ~Sending(p)'
          /\ after'[p] # "forkRead" => p \in MayStop
      BY <1>0, <2>1 DEF Alive, Raised, Sending, ItemSteps, LifeOf
    <2>3. after'[p] = "forkRead" => count'[p] = processes[p]
      <3>1. Forking(p)
        BY <2>1 DEF Forking, LifeSteps
      <3> QED
        BY <1>0, <2>1, <3>1 DEF FormOf
    <2> QED
      BY <1>0, <2>1, <2>2, <2>3, OwnStepLife
  <1>5. CASE Stop(p)
    <2>1. /\ pc[p] = "idle" /\ pc' = [pc EXCEPT ![p] = "stopRead"] /\ p \in MayStop
          /\ UNCHANGED <<after, kind, count, creator, processes>>
          /\ peer' = [peer EXCEPT ![p] = p]
      BY <1>5 DEF Stop
    <2>2. pc'[p] = "stopRead" /\ Alive(p) /\ ~Raised(p)' /\ ~Sending(p)'
      BY <1>0, <2>1 DEF Alive, Raised, Sending, ItemSteps, FormOf, Resting
    <2> QED
      BY <1>0, <2>1, <2>2, OwnStepLife
  <1>6. CASE (\E n : Allocate(p, n)) \/ Peek(p) \/ MakeCData(p) \/ ForceGC(p) \/ BigOperation(p)
    <2>1. /\ pc[p] = "idle" /\ pc' = [pc EXCEPT ![p] = "run"]
          /\ UNCHANGED <<after, peer, kind, count, creator, processes>>
      BY <1>6 DEF Allocate, Peek, MakeCData, ForceGC, BigOperation, Begin, vmVars
    <2>2. pc'[p] = "run" /\ Alive(p) /\ ~Raised(p)' /\ ~Sending(p)'
      BY <1>0, <2>1 DEF Alive, Raised, Sending, Copying, FormOf, Resting
    <2> QED
      BY <1>0, <2>1, <2>2, OwnStepLife
  <1>7. ASSUME NEW q \in VM, NEW k \in Kinds, SendStart(p, q, k)
        PROVE  \A r \in VM : CountsOf(r)' /\ LifeOf(r)'
    <2>1. /\ pc[p] = "idle" /\ pc' = [pc EXCEPT ![p] = "sendLock"]
          /\ UNCHANGED <<after, count, creator, processes>>
          /\ peer' = [peer EXCEPT ![p] = q] /\ kind' = [kind EXCEPT ![p] = k]
          /\ <<p, q, k>> \in SendCalls /\ pc[q] # "unborn"
      BY <1>7 DEF SendStart, vmVars
    <2>2. pc'[p] = "sendLock" /\ Alive(p) /\ ~Raised(p)' /\ peer'[p] = q /\ kind'[p] = k
      BY <1>0, <2>1 DEF Alive, Raised
    <2> QED
      BY <1>0, <2>1, <2>2, OwnStepLife
  <1> QED
    BY <1>1, <1>2, <1>3, <1>4, <1>5, <1>6, <1>7

\* Called and Unforgotten where no creator changes.
LEMMA SameCalled ==
  ASSUME TypeInv, creator' = creator, \A d \in VM : Alive(d)' <=> Alive(d)
  PROVE  \A q \in VM : Called(q)' <=> Called(q)
  BY DEF Called

LEMMA ForkLife ==
  ASSUME CountInv, TypeInv', NEW p \in VM, NEW c \in VM, Fork(p, c)
  PROVE  \A q \in VM : CountsOf(q)' /\ LifeOf(q)'
  <1>0. /\ TypeInv /\ pc \in [VM -> PC] /\ DOMAIN after = VM /\ DOMAIN peer = VM
        /\ processes \in [VM -> Int] /\ creator \in [VM -> VM \cup {NoVM}]
    BY LifeTypes DEF CountInv
  <1>1. /\ <<p, c>> \in ForkCalls /\ pc[c] = "unborn" /\ creator[c] = NoVM /\ pc[p] = "idle"
        /\ pc' = [pc EXCEPT ![p] = "run"] /\ processes' = [processes EXCEPT ![c] = 1]
        /\ creator' = [creator EXCEPT ![c] = p] /\ peer' = [peer EXCEPT ![p] = c]
        /\ after' = [after EXCEPT ![p] = "forkRead"] /\ UNCHANGED <<kind, count>>
    BY DEF Fork, Begin
  <1>2. c # p /\ pc'[c] = "unborn" /\ pc'[p] = "run" /\ after'[p] = "forkRead"
        /\ creator'[c] = p /\ processes'[c] = 1 /\ after'[c] = after[c]
    BY <1>0, <1>1
  <1>3. \A q \in VM : q # c => creator'[q] = creator[q] /\ processes'[q] = processes[q]
    BY <1>0, <1>1
  <1>4. /\ \A d \in VM : Alive(d)' <=> Alive(d)
        /\ \A d \in VM : pc[d] # "unborn" => pc'[d] # "unborn"
        /\ ~Alive(c)
    BY <1>0, <1>1, <1>2 DEF Alive
  <1>5. \A q \in VM : q # c => (Called(q)' <=> Called(q))
    BY <1>3, <1>4 DEF Called
  <1>6. Called(Root) <=> Called(Root)'
    BY <1>3, <1>4 DEF Called
  <1>7. Unforgotten
    BY <1>4, <1>6 DEF Unforgotten
  <1>8. ASSUME NEW q \in VM, q \notin {p, c} PROVE CountsOf(q)' /\ LifeOf(q)'
    <2>1. /\ pc'[q] = pc[q] /\ after'[q] = after[q] /\ peer'[q] = peer[q] /\ kind'[q] = kind[q]
          /\ count'[q] = count[q] /\ creator'[q] = creator[q] /\ processes'[q] = processes[q]
      BY <1>0, <1>1, <1>3, <1>8
    <2>2. Untouched(q)
      BY <1>5, <1>8, <2>1 DEF Untouched
    <2> QED
      BY <1>7, <2>2, OtherLife
  <1>9. CountsOf(p)' /\ LifeOf(p)'
    <2>1. CountsOf(p) /\ LifeOf(p) /\ processes'[p] = processes[p] /\ (Called(p)' <=> Called(p))
          /\ creator'[p] = creator[p] /\ (Alive(p)' <=> Alive(p))
      BY <1>2, <1>3, <1>4, <1>5 DEF CountInv
    <2>2. ~Raised(p)' /\ ~Sending(p)'
      BY <1>2 DEF Raised, Sending, Copying
    <2> QED
      BY <1>2, <1>6, <2>1, <2>2 DEF CountsOf, LifeOf
  <1>10. CountsOf(c)' /\ LifeOf(c)'
    <2>1. ~Raised(c)' /\ ~Sending(c)' /\ ~Alive(c)'
      BY <1>2 DEF Raised, Sending, ItemSteps, Alive
    <2> QED
      BY <1>1, <1>2, <2>1 DEF CountsOf, LifeOf
  <1> QED
    BY <1>8, <1>9, <1>10

LEMMA ForkWriteLife ==
  ASSUME CountInv, TypeInv', NEW p \in VM, ForkWrite(p)
  PROVE  \A q \in VM : CountsOf(q)' /\ LifeOf(q)'
  <1>0. /\ TypeInv /\ pc \in [VM -> PC] /\ processes \in [VM -> Int] /\ count \in [VM -> Int]
        /\ CountsOf(p) /\ LifeOf(p)
    BY LifeTypes DEF CountInv
  <1>1. /\ pc[p] = "forkWrite" /\ pc' = [pc EXCEPT ![p] = "forkStart"]
        /\ processes' = [processes EXCEPT ![p] = count[p] + 1]
        /\ UNCHANGED <<after, peer, kind, count, creator>>
    BY DEF ForkWrite, callVars
  <1>2. pc'[p] = "forkStart" /\ processes'[p] = count[p] + 1 /\ after[p] = "forkRead"
    BY <1>0, <1>1 DEF LifeOf
  <1>3. \A d \in VM : (Alive(d)' <=> Alive(d)) /\ (pc[d] # "unborn" => pc'[d] # "unborn")
    BY <1>0, <1>1, <1>2 DEF Alive
  <1>4. (\A q \in VM : Called(q)' <=> Called(q)) /\ Called(Root)' = Called(Root)
    BY <1>0, <1>1, <1>3, SameCalled, RootAssumption DEF Called
  <1>5. Unforgotten
    BY <1>3, <1>4 DEF Unforgotten
  <1>6. ASSUME NEW q \in VM, q # p PROVE CountsOf(q)' /\ LifeOf(q)'
    <2>1. /\ pc'[q] = pc[q] /\ after'[q] = after[q] /\ peer'[q] = peer[q] /\ kind'[q] = kind[q]
          /\ count'[q] = count[q] /\ creator'[q] = creator[q] /\ processes'[q] = processes[q]
      BY <1>0, <1>1, <1>6
    <2>2. Untouched(q)
      BY <1>4, <2>1 DEF Untouched
    <2> QED
      BY <1>5, <2>2, OtherLife
  <1>7. CountsOf(p)'
    <2>1. p \in Bracketed => /\ processes'[p] \in Int /\ processes'[p] = processes[p] + 1
                             /\ processes[p] >= 0 /\ (Called(p)' => processes[p] >= 1)
      BY <1>0, <1>1, <1>2, <1>4 DEF CountsOf
    <2> QED
      BY <1>0, <1>2, <2>1 DEF CountsOf
  <1>8. LifeOf(p)'
    <2>1. ~Sending(p)'
      BY <1>2 DEF Sending, ItemSteps
    <2> QED
      BY <1>0, <1>1, <1>2, <1>3, <1>4, <2>1 DEF LifeOf
  <1> QED
    BY <1>6, <1>7, <1>8

LEMMA ForkStartLife ==
  ASSUME CountInv, TypeInv', NEW p \in VM, ForkStart(p)
  PROVE  \A q \in VM : CountsOf(q)' /\ LifeOf(q)'
  <1>0. /\ TypeInv /\ pc \in [VM -> PC] /\ processes \in [VM -> Int] /\ DOMAIN after = VM
        /\ DOMAIN peer = VM /\ DOMAIN count = VM /\ CountsOf(p) /\ LifeOf(p) /\ FormOf(p)
    BY LifeTypes DEF CountInv, TypeInv, WellFormed
  <1>1. pc[p] = "forkStart" /\ after[p] = "forkRead" /\ Forking(p)
    BY <1>0 DEF ForkStart, LifeOf, Forking, LifeSteps
  <1>2. PICK c \in VM : c = peer[p] /\ c # p /\ pc[c] = "unborn" /\ creator[c] = p
    BY <1>0, <1>1 DEF FormOf
  <1>3. /\ pc' = [pc EXCEPT ![p] = "idle", ![c] = "idle"]
        /\ after' = [after EXCEPT ![p] = "idle"] /\ peer' = [peer EXCEPT ![p] = NoVM]
        /\ count' = [count EXCEPT ![p] = 0] /\ UNCHANGED <<kind, creator, processes>>
    BY <1>2 DEF ForkStart, vmVars
  <1>4. pc'[p] = "idle" /\ pc'[c] = "idle" /\ after'[p] = "idle" /\ after'[c] = after[c]
    BY <1>0, <1>2, <1>3
  <1>5. /\ \A d \in VM : (Alive(d) => Alive(d)') /\ (pc[d] # "unborn" => pc'[d] # "unborn")
        /\ \A d \in VM : d # c => (Alive(d)' <=> Alive(d))
        /\ Alive(c)' /\ ~Alive(c) /\ Alive(p)
    BY <1>0, <1>1, <1>2, <1>3, <1>4 DEF Alive
  <1>6. Called(Root) => Called(Root)'
    BY <1>3, <1>5 DEF Called
  <1>7. Unforgotten
    BY <1>5, <1>6 DEF Unforgotten
  <1>8. \A q \in VM : q # p => (Called(q)' => Called(q))
    BY <1>2, <1>3, <1>5 DEF Called
  <1>9. ASSUME NEW q \in VM, q \notin {p, c} PROVE CountsOf(q)' /\ LifeOf(q)'
    <2>1. /\ pc'[q] = pc[q] /\ after'[q] = after[q] /\ peer'[q] = peer[q] /\ kind'[q] = kind[q]
          /\ count'[q] = count[q] /\ creator'[q] = creator[q] /\ processes'[q] = processes[q]
      BY <1>0, <1>3, <1>9
    <2>2. Untouched(q)
      BY <1>8, <1>9, <2>1 DEF Untouched
    <2> QED
      BY <1>7, <2>2, OtherLife
  <1>10. CountsOf(p)' /\ LifeOf(p)'
    <2>1. ~Raised(p)' /\ ~Sending(p)' /\ Raised(p)
      BY <1>1, <1>4 DEF Raised, Sending, ItemSteps
    <2>2. CountsOf(p)'
      BY <1>0, <1>3, <1>4, <2>1 DEF CountsOf
    <2>3. LifeOf(p)'
      BY <1>0, <1>3, <1>4, <1>5, <1>6, <2>1 DEF LifeOf
    <2> QED
      BY <2>2, <2>3
  <1>11. CountsOf(c)' /\ LifeOf(c)'
    <2>1. ~Raised(c)' /\ ~Sending(c)'
      BY <1>4 DEF Raised, Sending, ItemSteps
    <2>3. CountsOf(c) /\ LifeOf(c) /\ FormOf(c) /\ (Called(c)' => Called(c))
      BY <1>2, <1>8 DEF CountInv, TypeInv, WellFormed
    <2>4. CountsOf(c)'
      BY <1>3, <1>4, <2>1, <2>3 DEF CountsOf
    <2>5. Root \in Bracketed /\ c # Root => Called(Root)'
      <3>1. CASE p = Root
        BY <1>2, <1>3, <1>5, <3>1 DEF Called
      <3>2. CASE p # Root
        BY <1>0, <1>5, <1>6, <3>2 DEF LifeOf
      <3> QED
        BY <3>1, <3>2
    <2>6. LifeOf(c)'
      BY <1>3, <1>4, <2>1, <2>3, <2>5 DEF LifeOf
    <2> QED
      BY <2>4, <2>6
  <1> QED
    BY <1>9, <1>10, <1>11

\* Whose counter terminate lowers: that of the creator of a VM that could not
\* be started, or of one that ends itself.
LEMMA WhoStops ==
  ASSUME ChildrenStay, CountInv, NEW p \in VM,
         pc[p] \in {"stopRead", "stopWrite", "stopInactive"}
  PROVE  /\ peer[p] \in VM /\ creator[peer[p]] \in VM
         /\ after[p] = "forkRead" => peer[p] # p /\ pc[peer[p]] = "unborn" /\ creator[peer[p]] = p
         /\ after[p] # "forkRead" => peer[p] = p /\ creator[p] \notin Bracketed
  <1>1. LifeOf(p) /\ FormOf(p) /\ Forking(p)
    BY DEF CountInv, TypeInv, WellFormed, Forking, LifeSteps
  <1>2. after[p] # "forkRead" => p \in MayStop /\ peer[p] = p /\ creator[p] # NoVM
    BY <1>1, RootAssumption DEF LifeOf, FormOf
  <1> QED
    BY <1>1, <1>2, NoOrphan DEF FormOf

LEMMA StopWriteLife ==
  ASSUME ChildrenStay, CountInv, TypeInv', NEW p \in VM, StopWrite(p)
  PROVE  \A q \in VM : CountsOf(q)' /\ LifeOf(q)'
  <1>0. /\ TypeInv /\ pc \in [VM -> PC] /\ processes \in [VM -> Int] /\ count \in [VM -> Int]
        /\ CountsOf(p) /\ LifeOf(p) /\ pc[p] = "stopWrite"
    BY LifeTypes DEF CountInv, StopWrite
  <1>1. PICK k \in VM : /\ k = creator[peer[p]]
                        /\ after[p] = "forkRead" => k = p
                        /\ after[p] # "forkRead" => k \notin Bracketed
    BY <1>0, WhoStops
  <1>2. /\ pc' = [pc EXCEPT ![p] = "stopInactive"]
        /\ processes' = [processes EXCEPT ![k] = count[p] - 1]
        /\ UNCHANGED <<after, peer, kind, count, creator>>
    BY <1>1 DEF StopWrite, callVars
  <1>3. pc'[p] = "stopInactive" /\ processes'[k] = count[p] - 1
        /\ \A q \in VM : q # k => processes'[q] = processes[q]
    BY <1>0, <1>2
  <1>4. \A d \in VM : (Alive(d)' <=> Alive(d)) /\ (pc[d] # "unborn" => pc'[d] # "unborn")
    BY <1>0, <1>2, <1>3 DEF Alive
  <1>5. (\A q \in VM : Called(q)' <=> Called(q)) /\ Called(Root)' = Called(Root)
    BY <1>0, <1>2, <1>4, SameCalled, RootAssumption DEF Called
  <1>6. Unforgotten
    BY <1>4, <1>5 DEF Unforgotten
  <1>7. ASSUME NEW q \in VM, q # p PROVE CountsOf(q)' /\ LifeOf(q)'
    <2>1. /\ pc'[q] = pc[q] /\ after'[q] = after[q] /\ peer'[q] = peer[q] /\ kind'[q] = kind[q]
          /\ count'[q] = count[q] /\ creator'[q] = creator[q]
          /\ q \in Bracketed => processes'[q] = processes[q]
      BY <1>0, <1>1, <1>2, <1>3, <1>7
    <2>2. Untouched(q)
      BY <1>5, <2>1 DEF Untouched
    <2> QED
      BY <1>6, <2>2, OtherLife
  <1>8. CountsOf(p)'
    <2>1. ~Raised(p)'
      BY <1>3 DEF Raised
    <2>2. CASE after[p] = "forkRead"
      <3>1. Raised(p) /\ processes'[p] = count[p] - 1
        BY <1>0, <1>1, <1>3, <2>2 DEF Raised
      <3>2. p \in Bracketed => /\ processes[p] \in Int /\ processes'[p] = processes[p] - 1
                               /\ processes[p] >= 1 /\ (Called(p)' => processes[p] >= 2)
        BY <1>0, <1>5, <2>2, <3>1 DEF CountsOf
      <3> QED
        BY <1>3, <2>1, <3>2 DEF CountsOf
    <2>3. CASE after[p] # "forkRead"
      <3>1. p \in Bracketed => processes'[p] = processes[p] /\ (Called(p)' <=> Called(p))
        BY <1>1, <1>3, <1>5, <2>3
      <3> QED
        BY <1>0, <1>3, <2>1, <3>1 DEF CountsOf
    <2> QED
      BY <2>2, <2>3
  <1>9. LifeOf(p)'
    <2>1. ~Sending(p)'
      BY <1>3 DEF Sending, ItemSteps
    <2> QED
      BY <1>0, <1>2, <1>3, <1>4, <1>5, <2>1 DEF LifeOf
  <1> QED
    BY <1>7, <1>8, <1>9

LEMMA StopInactiveLife ==
  ASSUME ChildrenStay, CountInv, TypeInv', NEW p \in VM, StopInactive(p)
  PROVE  \A q \in VM : CountsOf(q)' /\ LifeOf(q)'
  <1>0. /\ TypeInv /\ pc \in [VM -> PC] /\ DOMAIN after = VM /\ DOMAIN peer = VM
        /\ DOMAIN count = VM /\ pc[p] = "stopInactive"
    BY LifeTypes DEF CountInv, StopInactive
  <1>1. PICK v \in VM : /\ v = peer[p] /\ creator[v] \in VM
                        /\ v # p => pc[v] = "unborn" /\ creator[v] = p
                        /\ v = p => creator[p] \notin Bracketed
    BY <1>0, WhoStops
  <1>2. /\ pc' = [pc EXCEPT ![p] = "idle", ![v] = "stopped"]
        /\ after' = [after EXCEPT ![p] = "idle"] /\ peer' = [peer EXCEPT ![p] = NoVM]
        /\ count' = [count EXCEPT ![p] = 0] /\ UNCHANGED <<kind, creator, processes>>
    BY <1>1 DEF StopInactive
  <1>3. pc'[v] = "stopped" /\ pc'[p] \in {"idle", "stopped"} /\ (v # p => pc'[p] = "idle")
        /\ after'[p] = "idle"
    BY <1>0, <1>2
  <1>4. /\ \A d \in VM : (Alive(d)' => Alive(d)) /\ (pc[d] # "unborn" => pc'[d] # "unborn")
        /\ \A d \in VM : d # v => (Alive(d)' <=> Alive(d))
        /\ v # p => ~Alive(v)
        /\ Alive(p)
    BY <1>0, <1>1, <1>2, <1>3 DEF Alive
  <1>5. \A q \in VM : Called(q)' => Called(q)
    BY <1>2, <1>4 DEF Called
  <1>6. Root \in Bracketed /\ Called(Root) => Called(Root)'
    <2> SUFFICES ASSUME Root \in Bracketed, NEW d \in VM, creator[d] = Root, Alive(d)
                 PROVE  Alive(d)'
      BY <1>2 DEF Called
    <2>1. d # v
      BY <1>1, <1>4
    <2> QED
      BY <1>4, <2>1
  <1>7. Unforgotten
    BY <1>4, <1>6 DEF Unforgotten
  <1>8. ASSUME NEW q \in VM, q \notin {p, v} PROVE CountsOf(q)' /\ LifeOf(q)'
    <2>1. /\ pc'[q] = pc[q] /\ after'[q] = after[q] /\ peer'[q] = peer[q] /\ kind'[q] = kind[q]
          /\ count'[q] = count[q] /\ creator'[q] = creator[q] /\ processes'[q] = processes[q]
      BY <1>0, <1>2, <1>8
    <2>2. Untouched(q)
      BY <1>5, <2>1 DEF Untouched
    <2> QED
      BY <1>7, <2>2, OtherLife
  <1>9. ASSUME NEW q \in {p, v} PROVE CountsOf(q)' /\ LifeOf(q)'
    <2>1. q \in VM /\ pc'[q] \in {"idle", "stopped"} /\ creator'[q] = creator[q]
          /\ processes'[q] = processes[q] /\ (Called(q)' => Called(q)) /\ (Alive(q)' => Alive(q))
      BY <1>2, <1>3, <1>4, <1>5
    <2>2. CountsOf(q) /\ LifeOf(q)
      BY <2>1 DEF CountInv
    <2>3. ~Raised(q)' /\ ~Sending(q)'
      BY <2>1 DEF Raised, Sending, ItemSteps
    <2>4. CountsOf(q)'
      BY <2>1, <2>2, <2>3 DEF CountsOf
    <2>5. LifeOf(q)'
      BY <1>6, <2>1, <2>2, <2>3 DEF LifeOf
    <2> QED
      BY <2>4, <2>5
  <1> QED
    BY <1>8, <1>9

LEMMA StepLife ==
  ASSUME ChildrenStay, CountInv, TypeInv', NEW p \in VM, Start(p) \/ Step(p)
  PROVE  \A q \in VM : CountsOf(q)' /\ LifeOf(q)'
  <1>1. CASE Start(p)
    <2>1. CASE \E c \in VM : Fork(p, c)
      BY <2>1, ForkLife
    <2>2. CASE ~ \E c \in VM : Fork(p, c)
      BY <1>1, <2>2, CallLife DEF Start
    <2> QED
      BY <2>1, <2>2
  <1>2. CASE AllocStep(p) \/ CollectStep(p) \/ BracketStep(p)
    BY <1>2, ItemLife
  <1>3. CASE SendStep(p)
    BY <1>3, CallLife
  <1>4. CASE LifeStep(p)
    BY <1>4, CallLife, ForkWriteLife, ForkStartLife, StopWriteLife, StopInactiveLife DEF LifeStep
  <1>5. CASE Dangling(p)
    BY <1>5 DEF Dangling, CountInv, CountsOf, LifeOf, Called, Alive, Raised, Sending, Copying,
                callVars, vmVars
  <1> QED
    BY <1>1, <1>2, <1>3, <1>4, <1>5 DEF Step

LEMMA InitCount == Init => CountInv
  <1> SUFFICES ASSUME Init PROVE CountInv
    OBVIOUS
  <1>1. \A p \in VM : /\ pc[p] \in {"idle", "unborn"} /\ after[p] = "idle" /\ creator[p] = NoVM
                      /\ processes[p] = 0 /\ (p # Root => pc[p] = "unborn")
    BY DEF Init
  <1>2. \A p \in VM : ~Called(p) /\ ~Raised(p) /\ ~Sending(p) /\ (p # Root => ~Alive(p))
    BY <1>1, RootAssumption DEF Called, Raised, Sending, ItemSteps, Alive
  <1>3. \A p \in VM : CountsOf(p)
    BY <1>1, <1>2 DEF CountsOf
  <1>4. \A p \in VM : LifeOf(p)
    BY <1>1, <1>2 DEF LifeOf
  <1> QED
    BY <1>3, <1>4, InitTypeInv DEF CountInv

LEMMA NextCount ==
  ASSUME ChildrenStay, CountInv, [Next \/ Finished]_vars
  PROVE  CountInv'
  <1>1. TypeInv' /\ TypeInv
    BY NextTypeInv DEF CountInv
  <1>2. CASE Finished \/ UNCHANGED vars
    <2>1. UNCHANGED <<pc, callVars, vmVars>>
      BY <1>2 DEF Finished, vars
    <2> QED
      BY <1>1, <2>1 DEF CountInv, CountsOf, LifeOf, Called, Alive, Raised, Sending, Copying,
                        callVars, vmVars
  <1>3. CASE Next
    BY <1>1, <1>3, StepLife DEF Next, CountInv
  <1> QED
    BY <1>2, <1>3

CountSafe == CountInv /\ \A p \in VM : SafeSend(p)

\* While a VM can be sent to, its counter is positive; and so it stays for as
\* long as a sender copies a big integer into its heap.
LEMMA Counting == ASSUME ChildrenStay PROVE Spec => []CountSafe
  <1>1. CountInv => CountSafe
    BY SafeSends DEF CountSafe
  <1> QED
    BY <1>1, InitCount, NextCount, PTL DEF Spec

-----------------------------------------------------------------------------
(* The brackets of a call                                                    *)

\* What the n-th item from the end of a call is, and how many of its brackets
\* are open before it: of an operation of GMP in the own heap, and of the copy
\* of a big integer, whose last cell the sender takes from its own heap.
OwnDo(n)    == IF n \in {1, 3} THEN "done" ELSE IF n \in {5, 6} THEN "require" ELSE "alloc"
OwnOpen(n)  == IF n \in {1, 2, 5} THEN 1 ELSE IF n \in {3, 4} THEN 2 ELSE 0
SentDo(n)   == IF n = 2 THEN "done" ELSE IF n = 4 THEN "require" ELSE "alloc"
SentOpen(n) == IF n \in {2, 3} THEN 1 ELSE 0

AllCells(c) == \A k \in DOMAIN c : c[k].do \notin {"require", "done"}
OwnBig(h, c) ==
  Len(c) <= 6 /\ \A k \in DOMAIN c : c[k].on = h /\ c[k].do = OwnDo(Len(c) - k + 1)
SentBig(h, c) ==
  /\ Len(c) <= 4
  /\ \A k \in DOMAIN c : /\ k < Len(c) => c[k].on = h
                         /\ c[k].do = SentDo(Len(c) - k + 1)

\* The items of a call on the heap h, and its open brackets.
ShapeIn(mode, h, c) ==
  \/ mode # "sent" /\ AllCells(c)
  \/ mode = "own" /\ h \in BigCalls /\ OwnBig(h, c)
  \/ mode = "sent" /\ SentBig(h, c)
OpenIn(mode, c) ==
  IF mode = "own" /\ ~AllCells(c) THEN OwnOpen(Len(c))
  ELSE IF mode = "sent" THEN SentOpen(Len(c)) ELSE 0

LEMMA OpenType ==
  ASSUME NEW mode, NEW c
  PROVE  OpenIn(mode, c) \in Nat
  BY DEF OpenIn, OwnOpen, SentOpen

\* Only a call that makes a big integer has brackets.
LEMMA WhoBrackets ==
  ASSUME NEW mode, NEW h, NEW c \in Seq(Items), ShapeIn(mode, h, c)
  PROVE  /\ OpenIn(mode, c) > 0 => mode = "sent" \/ (mode = "own" /\ h \in BigCalls)
         /\ c = <<>> => OpenIn(mode, c) = 0
  <1>1. c = <<>> => AllCells(c) /\ Len(c) = 0
    BY DEF AllCells
  <1> QED
    BY <1>1 DEF ShapeIn, OpenIn, SentOpen

\* An item done opens a bracket, or closes one that is open, or neither.
Heads(mode, h, c) ==
  /\ ShapeIn(mode, h, Tail(c))
  /\ Head(c).do \notin {"require", "done"} => OpenIn(mode, Tail(c)) = OpenIn(mode, c)
  /\ Head(c).do = "require" => OpenIn(mode, Tail(c)) = OpenIn(mode, c) + 1
  /\ Head(c).do = "done" => OpenIn(mode, Tail(c)) = OpenIn(mode, c) - 1 /\ OpenIn(mode, c) >= 1
  /\ Head(c).do \in {"require", "done"} =>
       Head(c).on = h /\ (mode = "sent" \/ (mode = "own" /\ h \in BigCalls))

LEMMA OwnTable ==
  ASSUME NEW n \in 1 .. 6
  PROVE  /\ OwnDo(n) \notin {"require", "done"} => OwnOpen(n - 1) = OwnOpen(n)
         /\ OwnDo(n) = "require" => OwnOpen(n - 1) = OwnOpen(n) + 1
         /\ OwnDo(n) = "done" => OwnOpen(n - 1) = OwnOpen(n) - 1 /\ OwnOpen(n) >= 1
  <1>1. n \in {1, 2, 3, 4, 5, 6}
    OBVIOUS
  <1> QED
    BY <1>1 DEF OwnDo, OwnOpen

LEMMA SentTable ==
  ASSUME NEW n \in 1 .. 4
  PROVE  /\ SentDo(n) \notin {"require", "done"} => SentOpen(n - 1) = SentOpen(n)
         /\ SentDo(n) = "require" => SentOpen(n - 1) = SentOpen(n) + 1
         /\ SentDo(n) = "done" => SentOpen(n - 1) = SentOpen(n) - 1 /\ SentOpen(n) >= 1
         /\ SentDo(n) \in {"require", "done"} => n # 1
  <1>1. n \in {1, 2, 3, 4}
    OBVIOUS
  <1> QED
    BY <1>1 DEF SentDo, SentOpen

LEMMA TailOpen ==
  ASSUME NEW mode, NEW h, NEW c \in Seq(Items), c # <<>>, ShapeIn(mode, h, c)
  PROVE  Heads(mode, h, c)
  <1> DEFINE t == Tail(c)
  <1>1. /\ Len(c) \in Nat \ {0} /\ t \in Seq(Items) /\ Len(t) = Len(c) - 1 /\ Head(c) = c[1]
        /\ DOMAIN c = 1 .. Len(c) /\ DOMAIN t = 1 .. Len(t)
        /\ \A k \in 1 .. Len(t) : t[k] = c[k + 1]
    OBVIOUS
  <1> HIDE DEF t
  <1>2. CASE AllCells(c) /\ mode # "sent"
    <2>1. AllCells(t) /\ Head(c).do \notin {"require", "done"}
      BY <1>1, <1>2 DEF AllCells
    <2> QED
      BY <1>2, <2>1 DEF Heads, ShapeIn, OpenIn, t
  <1>3. CASE mode = "own" /\ h \in BigCalls /\ OwnBig(h, c) /\ ~AllCells(c)
    <2>1. Head(c).do = OwnDo(Len(c)) /\ Head(c).on = h /\ Len(c) \in 1 .. 6
      <3>1. 1 \in DOMAIN c /\ Len(c) - 1 + 1 = Len(c) /\ Len(c) <= 6
        BY <1>1, <1>3 DEF OwnBig
      <3>2. c[1].on = h /\ c[1].do = OwnDo(Len(c) - 1 + 1)
        BY <1>3, <3>1 DEF OwnBig
      <3>3. OwnDo(Len(c) - 1 + 1) = OwnDo(Len(c))
        BY <3>1, Zenon
      <3>4. Len(c) \in 1 .. 6
        <4>1. Len(c) \in Nat /\ Len(c) # 0 /\ Len(c) <= 6
          BY <1>1, <3>1
        <4>2. \A n \in Nat : n # 0 /\ n <= 6 => n \in 1 .. 6
          OBVIOUS
        <4> QED
          BY <4>1, <4>2, Zenon
      <3> QED
        BY <1>1, <3>2, <3>3, <3>4, Zenon
    <2>2. OwnBig(h, t)
      <3>1. ASSUME NEW k \in DOMAIN t
            PROVE  t[k].on = h /\ t[k].do = OwnDo(Len(t) - k + 1)
        <4>1. k + 1 \in DOMAIN c /\ Len(c) - (k + 1) + 1 = Len(t) - k + 1 /\ t[k] = c[k + 1]
          BY <1>1
        <4>2. c[k + 1].on = h /\ c[k + 1].do = OwnDo(Len(c) - (k + 1) + 1)
          BY <1>3, <4>1 DEF OwnBig
        <4> QED
          BY <4>1, <4>2
      <3>2. Len(t) <= 6
        BY <1>1, <2>1
      <3> QED
        BY <3>1, <3>2 DEF OwnBig
    <2>3. Len(t) = 0 <=> AllCells(t)
      <3>1. ASSUME Len(t) # 0 PROVE Len(t) \in DOMAIN t /\ t[Len(t)].do = "done"
        <4>1. Len(t) \in DOMAIN t /\ Len(t) - Len(t) + 1 = 1
          BY <1>1, <3>1
        <4>2. t[Len(t)].do = OwnDo(Len(t) - Len(t) + 1)
          BY <2>2, <4>1 DEF OwnBig
        <4> QED
          BY <4>1, <4>2 DEF OwnDo
      <3> QED
        BY <1>1, <3>1 DEF AllCells
    <2>4. OpenIn(mode, c) = OwnOpen(Len(c)) /\ OpenIn(mode, t) = OwnOpen(Len(c) - 1)
      <3>1. Len(t) # 0 => OpenIn(mode, t) = OwnOpen(Len(t))
        BY <1>3, <2>3 DEF OpenIn
      <3>2. Len(t) = 0 => OpenIn(mode, t) = 0
        BY <1>3, <2>3 DEF OpenIn
      <3>3. OwnOpen(0) = 0
        BY DEF OwnOpen
      <3> QED
        BY <1>1, <1>3, <3>1, <3>2, <3>3 DEF OpenIn
    <2>5. /\ OwnDo(Len(c)) \notin {"require", "done"} => OwnOpen(Len(c) - 1) = OwnOpen(Len(c))
          /\ OwnDo(Len(c)) = "require" => OwnOpen(Len(c) - 1) = OwnOpen(Len(c)) + 1
          /\ OwnDo(Len(c)) = "done" => OwnOpen(Len(c) - 1) = OwnOpen(Len(c)) - 1
                                       /\ OwnOpen(Len(c)) >= 1
      BY <2>1, OwnTable
    <2>6. ShapeIn(mode, h, t)
      BY <1>3, <2>2 DEF ShapeIn
    <2> QED
      BY <1>3, <2>1, <2>4, <2>5, <2>6 DEF Heads, t
  <1>4. CASE mode = "sent" /\ SentBig(h, c)
    <2>1. Head(c).do = SentDo(Len(c)) /\ Len(c) \in 1 .. 4 /\ (Len(c) # 1 => Head(c).on = h)
      <3>1. 1 \in DOMAIN c /\ Len(c) - 1 + 1 = Len(c) /\ Len(c) <= 4 /\ (Len(c) # 1 => 1 < Len(c))
        BY <1>1, <1>4 DEF SentBig
      <3>2. (1 < Len(c) => c[1].on = h) /\ c[1].do = SentDo(Len(c) - 1 + 1)
        BY <1>4, <3>1 DEF SentBig
      <3> QED
        BY <1>1, <3>1, <3>2
    <2>2. SentBig(h, t)
      <3>1. ASSUME NEW k \in DOMAIN t
            PROVE  /\ k < Len(t) => t[k].on = h
                   /\ t[k].do = SentDo(Len(t) - k + 1)
        <4>1. /\ k + 1 \in DOMAIN c /\ Len(c) - (k + 1) + 1 = Len(t) - k + 1 /\ t[k] = c[k + 1]
              /\ k < Len(t) => k + 1 < Len(c)
          BY <1>1
        <4>2. /\ k + 1 < Len(c) => c[k + 1].on = h
              /\ c[k + 1].do = SentDo(Len(c) - (k + 1) + 1)
          BY <1>4, <4>1 DEF SentBig
        <4> QED
          BY <4>1, <4>2
      <3>2. Len(t) <= 4
        BY <1>1, <2>1
      <3> QED
        BY <3>1, <3>2 DEF SentBig
    <2>3. OpenIn(mode, c) = SentOpen(Len(c)) /\ OpenIn(mode, t) = SentOpen(Len(c) - 1)
      BY <1>1, <1>4 DEF OpenIn
    <2>4. /\ SentDo(Len(c)) \notin {"require", "done"} => SentOpen(Len(c) - 1) = SentOpen(Len(c))
          /\ SentDo(Len(c)) = "require" => SentOpen(Len(c) - 1) = SentOpen(Len(c)) + 1
          /\ SentDo(Len(c)) = "done" => SentOpen(Len(c) - 1) = SentOpen(Len(c)) - 1
                                        /\ SentOpen(Len(c)) >= 1
          /\ SentDo(Len(c)) \in {"require", "done"} => Len(c) # 1
      BY <2>1, SentTable
    <2>5. ShapeIn(mode, h, t)
      BY <1>4, <2>2 DEF ShapeIn
    <2> QED
      BY <1>4, <2>1, <2>3, <2>4, <2>5 DEF Heads, t
  <1> QED
    BY <1>2, <1>3, <1>4 DEF ShapeIn

LEMMA SixInARow ==
  ASSUME NEW S, NEW x \in Seq(S), NEW y \in Seq(S), NEW z \in Seq(S),
         Len(x) = 1, Len(y) = 4, Len(z) = 1
  PROVE  LET c == x \o y \o z IN
         /\ Len(c) = 6 /\ DOMAIN c = 1 .. 6 /\ c[1] = x[1] /\ c[2] = y[1] /\ c[3] = y[2]
         /\ c[4] = y[3] /\ c[5] = y[4] /\ c[6] = z[1]
  <1>1. /\ x \o y \in Seq(S) /\ Len(x \o y) = Len(x) + Len(y)
        /\ \A i \in 1 .. Len(x) + Len(y) :
             (x \o y)[i] = IF i <= Len(x) THEN x[i] ELSE y[i - Len(x)]
    BY ConcatProperties
  <1>2. PICK w : w = x \o y
    OBVIOUS
  <1>3. /\ w \in Seq(S) /\ Len(w) = Len(x) + Len(y)
        /\ \A i \in 1 .. Len(x) + Len(y) : w[i] = IF i <= Len(x) THEN x[i] ELSE y[i - Len(x)]
    BY <1>1, <1>2, Zenon
  <1>4. Len(w) = 5 /\ w[1] = x[1] /\ w[2] = y[1] /\ w[3] = y[2] /\ w[4] = y[3] /\ w[5] = y[4]
    BY <1>3
  <1>5. /\ w \o z \in Seq(S) /\ Len(w \o z) = Len(w) + Len(z)
        /\ \A i \in 1 .. Len(w) + Len(z) :
             (w \o z)[i] = IF i <= Len(w) THEN w[i] ELSE z[i - Len(w)]
    <2>1. w \in Seq(S) /\ z \in Seq(S)
      BY <1>3
    <2>2. \A s, t \in Seq(S) :
            /\ s \o t \in Seq(S) /\ Len(s \o t) = Len(s) + Len(t)
            /\ \A i \in 1 .. Len(s) + Len(t) :
                 (s \o t)[i] = IF i <= Len(s) THEN s[i] ELSE t[i - Len(s)]
      BY ConcatProperties
    <2> QED
      BY <2>1, <2>2, Zenon
  <1>6. PICK c : c = w \o z
    OBVIOUS
  <1>7. /\ c \in Seq(S) /\ Len(c) = Len(w) + Len(z)
        /\ \A i \in 1 .. Len(w) + Len(z) : c[i] = IF i <= Len(w) THEN w[i] ELSE z[i - Len(w)]
    BY <1>5, <1>6, Zenon
  <1>8. /\ Len(c) = 6 /\ c[1] = w[1] /\ c[2] = w[2] /\ c[3] = w[3] /\ c[4] = w[4]
        /\ c[5] = w[5] /\ c[6] = z[1]
    BY <1>4, <1>7
  <1>9. c = x \o y \o z
    BY <1>2, <1>6, Zenon
  <1>10. DOMAIN c = 1 .. 6
    <2>1. DOMAIN c = 1 .. Len(c)
      BY <1>7
    <2> QED
      BY <1>8, <2>1, Zenon
  <1> QED
    BY <1>4, <1>8, <1>9, <1>10, Zenon

\* No bracket of a call is open when it begins.
LEMMA OwnBegins ==
  ASSUME NEW p \in BigCalls
  PROVE  LET c == <<RequireAlloc(p)>> \o MakeBig(p, p) \o <<DoneAlloc(p)>> IN
         ShapeIn("own", p, c) /\ OpenIn("own", c) = 0
  <1> DEFINE c == <<RequireAlloc(p)>> \o MakeBig(p, p) \o <<DoneAlloc(p)>>
  <1>1. /\ Len(c) = 6 /\ DOMAIN c = 1 .. 6 /\ c[1] = RequireAlloc(p) /\ c[2] = RequireAlloc(p)
        /\ c[3] = Cell(p, 1, FALSE) /\ c[4] = DoneAlloc(p) /\ c[5] = Cell(p, 1, FALSE)
        /\ c[6] = DoneAlloc(p)
    <2> DEFINE S == {RequireAlloc(p), Cell(p, 1, FALSE), DoneAlloc(p)}
               x == <<RequireAlloc(p)>>
               y == MakeBig(p, p)
               z == <<DoneAlloc(p)>>
    <2>1. x \in Seq(S) /\ y \in Seq(S) /\ z \in Seq(S) /\ Len(x) = 1 /\ Len(y) = 4 /\ Len(z) = 1
      <3>1. RequireAlloc(p) \in S /\ Cell(p, 1, FALSE) \in S /\ DoneAlloc(p) \in S
        OBVIOUS
      <3> HIDE DEF S
      <3>2. y = <<RequireAlloc(p), Cell(p, 1, FALSE), DoneAlloc(p), Cell(p, 1, FALSE)>>
        BY DEF MakeBig
      <3>3. x \in Seq(S) /\ z \in Seq(S) /\ y \in Seq(S)
        BY <3>1, <3>2, ListTypes, Zenon
      <3>4. Len(x) = 1 /\ Len(z) = 1
        OBVIOUS
      <3>5. Len(y) = 4
        BY <3>2
      <3> QED
        BY <3>3, <3>4, <3>5
    <2>2. /\ x[1] = RequireAlloc(p) /\ y[1] = RequireAlloc(p) /\ y[2] = Cell(p, 1, FALSE)
          /\ y[3] = DoneAlloc(p) /\ y[4] = Cell(p, 1, FALSE) /\ z[1] = DoneAlloc(p)
      BY DEF MakeBig
    <2> HIDE DEF S, x, y, z
    <2>3. LET d == x \o y \o z IN
          /\ Len(d) = 6 /\ DOMAIN d = 1 .. 6 /\ d[1] = x[1] /\ d[2] = y[1] /\ d[3] = y[2]
          /\ d[4] = y[3] /\ d[5] = y[4] /\ d[6] = z[1]
      BY <2>1, SixInARow
    <2>4. c = x \o y \o z
      BY DEF x, y, z
    <2> HIDE DEF c
    <2> QED
      BY <2>2, <2>3, <2>4
  <1> HIDE DEF c
  <1>2. OwnBig(p, c)
    BY <1>1 DEF OwnBig, OwnDo, RequireAlloc, DoneAlloc, Cell
  <1>3. OpenIn("own", c) = 0
    BY <1>1 DEF OpenIn, OwnOpen
  <1> QED
    BY <1>2, <1>3 DEF ShapeIn, c

LEMMA CopyBegins ==
  ASSUME NEW p \in VM, NEW h \in VM, NEW k \in Kinds
  PROVE  LET c == CopyTo(p, h, k) IN
         /\ k = "big" => ShapeIn("sent", h, c) /\ OpenIn("sent", c) = 0
         /\ k # "big" => ShapeIn("cells", h, c) /\ OpenIn("cells", c) = 0
  <1> DEFINE c == CopyTo(p, h, k)
  <1>1. CASE k = "big"
    <2>1. /\ Len(c) = 4 /\ DOMAIN c = 1 .. 4 /\ c[1] = RequireAlloc(h) /\ c[2] = Cell(h, 1, FALSE)
          /\ c[3] = DoneAlloc(h) /\ c[4] = Cell(p, 1, FALSE)
      BY <1>1 DEF CopyTo, MakeBig
    <2> HIDE DEF c
    <2>2. SentBig(h, c)
      BY <2>1 DEF SentBig, SentDo, RequireAlloc, DoneAlloc, Cell
    <2>3. OpenIn("sent", c) = 0
      BY <2>1 DEF OpenIn, SentOpen
    <2> QED
      BY <1>1, <2>2, <2>3 DEF ShapeIn, c
  <1>2. CASE k # "big"
    <2>1. c \in {<<Cell(h, 1, TRUE), Cell(h, 2, FALSE)>>, <<Insert(h), Cell(h, 1, TRUE)>>}
      BY <1>2 DEF CopyTo, Kinds
    <2> HIDE DEF c
    <2>2. AllCells(c)
      BY <2>1 DEF AllCells, Cell, Insert
    <2> QED
      BY <1>2, <2>2 DEF ShapeIn, OpenIn, c
  <1> QED
    BY <1>1, <1>2

LEMMA CellBegins ==
  ASSUME NEW p, NEW n
  PROVE  LET c == <<Cell(p, n, FALSE)>> IN ShapeIn("own", p, c) /\ OpenIn("own", c) = 0
  <1>1. AllCells(<<Cell(p, n, FALSE)>>)
    BY DEF AllCells, Cell
  <1> QED
    BY <1>1 DEF ShapeIn, OpenIn

LEMMA BareBegins ==
  ASSUME NEW p,
         NEW c \in {<<Cell(p, 2, TRUE)>>, <<Insert(p), Cell(p, 1, FALSE)>>, <<Collection(p)>>}
  PROVE  ShapeIn("own", p, c) /\ OpenIn("own", c) = 0
  <1>1. AllCells(c)
    BY DEF AllCells, Cell, Insert, Collection
  <1> QED
    BY <1>1 DEF ShapeIn, OpenIn

-----------------------------------------------------------------------------
(* The locks a thread holds                                                  *)

\* A call of the program itself, the copy of a big integer, or cells only.
Mode(p) ==
  IF after[p] = "idle" THEN "own"
  ELSE IF Copying(p) /\ kind[p] = "big" THEN "sent" ELSE "cells"

Bracketing(p) ==
  pc[p] \in ItemSteps /\ (Mode(p) = "sent" \/ (Mode(p) = "own" /\ Target(p) \in BigCalls))

Locking == {"look", "bump", "collect", "grow", "requireLock"}

ShapeOf(p) ==
  /\ pc[p] \in ItemSteps => ShapeIn(Mode(p), Target(p), code[p])
  /\ locked[p] => pc[p] \in Locking
  /\ pc[p] \in Requiring => Todo(p).do = "require"
  /\ pc[p] \in Allocating => Todo(p).do \notin {"require", "done"}
  /\ pc[p] = "requireLock" => (locked[p] <=> processes[Todo(p).on] > 0)

\* How often p holds the lock of h: once for a send it is in, once for each
\* open bracket while the counter of h is positive, once inside iallocate.
Held(p, h) == IF holder[h] = p THEN depth[h] ELSE 0
Unlocks == {"sendUnlock", "sendUnlockAgain"}
ForSend(p, h) ==
  IF peer[p] = h /\ ((pc[p] \in ItemSteps /\ Copying(p)) \/ pc[p] \in Unlocks) THEN 1 ELSE 0
ForBrackets(p, h) ==
  IF pc[p] \in ItemSteps /\ Target(p) = h /\ processes[h] > 0
  THEN OpenIn(Mode(p), code[p]) ELSE 0
ForCell(p, h) == IF pc[p] \in Looked /\ locked[p] /\ Todo(p).on = h THEN 1 ELSE 0
HeldOf(p) ==
  \A h \in VM : Held(p, h) = ForSend(p, h) + ForBrackets(p, h) + ForCell(p, h)

HeldInv == \A p \in VM : ShapeOf(p) /\ HeldOf(p)

\* p takes the lock of g once more (d = 1), gives it back once (d = -1), or
\* neither (d = 0).
Moved(p, g, d) ==
  /\ \A h \in VM : Held(p, h)' = Held(p, h) + (IF h = g THEN d ELSE 0)
  /\ \A q, h \in VM : q # p => Held(q, h)' = Held(q, h)

LEMMA HeldType ==
  ASSUME TypeInv, NEW p \in VM, NEW h \in VM
  PROVE  Held(p, h) \in Nat /\ LocksOK
  BY DEF TypeInv, TypeOK, WellFormed, LocksOK, Held

LEMMA LockHeld ==
  ASSUME TypeInv, NEW p \in VM, NEW g \in VM, Lock(p, g)
  PROVE  Moved(p, g, 1)
  <1>1. /\ holder \in [VM -> VM \cup {NoVM}] /\ depth \in [VM -> Nat]
        /\ holder[g] = NoVM <=> depth[g] = 0
    BY DEF TypeInv, TypeOK, WellFormed, LocksForm
  <1>2. /\ holder'[g] = p /\ depth'[g] = depth[g] + 1 /\ holder[g] \in {NoVM, p}
        /\ \A h \in VM : h # g => holder'[h] = holder[h] /\ depth'[h] = depth[h]
    BY <1>1 DEF Lock
  <1>3. Held(p, g) = depth[g] /\ Held(p, g)' = depth[g] + 1 /\ p # NoVM
    BY <1>1, <1>2, RootAssumption DEF Held
  <1>4. \A q \in VM : q # p => Held(q, g) = 0 /\ Held(q, g)' = 0
    BY <1>2, RootAssumption DEF Held
  <1>5. \A q, h \in VM : h # g => Held(q, h)' = Held(q, h)
    BY <1>2 DEF Held
  <1>6. \A h \in VM : Held(p, h) \in Nat
    BY HeldType
  <1> QED
    BY <1>3, <1>4, <1>5, <1>6 DEF Moved

LEMMA UnlockHeld ==
  ASSUME TypeInv, NEW p \in VM, NEW g \in VM, Unlock(p, g), Held(p, g) > 0
  PROVE  Moved(p, g, -1)
  <1>1. /\ holder \in [VM -> VM \cup {NoVM}] /\ depth \in [VM -> Nat]
        /\ holder[g] = p /\ depth[g] >= 1
    BY DEF TypeInv, TypeOK, Held
  <1>2. /\ depth'[g] = depth[g] - 1 /\ holder'[g] = IF depth[g] = 1 THEN NoVM ELSE p
        /\ \A h \in VM : h # g => holder'[h] = holder[h] /\ depth'[h] = depth[h]
    BY <1>1 DEF Unlock
  <1>3. Held(p, g) = depth[g] /\ Held(p, g)' = depth[g] - 1
    BY <1>1, <1>2 DEF Held
  <1>4. \A q \in VM : q # p => Held(q, g) = 0 /\ Held(q, g)' = 0
    BY <1>1, <1>2, RootAssumption DEF Held
  <1>5. \A q, h \in VM : h # g => Held(q, h)' = Held(q, h)
    BY <1>2 DEF Held
  <1>6. \A h \in VM : Held(p, h) \in Nat
    BY HeldType
  <1> QED
    BY <1>1, <1>3, <1>4, <1>5, <1>6 DEF Moved

LEMMA SameHeld ==
  ASSUME TypeInv, NEW p \in VM, NEW g, UNCHANGED lockVars
  PROVE  Moved(p, g, 0)
  <1>1. \A q, h \in VM : Held(q, h)' = Held(q, h) /\ Held(q, h) \in Nat
    BY HeldType DEF Held, lockVars
  <1> QED
    BY <1>1 DEF Moved

\* A thread that is not touched, while the counter of a VM it has brackets in
\* stays positive, or not positive.
Unmoved(q) ==
  /\ pc'[q] = pc[q] /\ code'[q] = code[q] /\ after'[q] = after[q] /\ peer'[q] = peer[q]
  /\ kind'[q] = kind[q] /\ locked'[q] = locked[q]
  /\ Bracketing(q) => (processes'[Target(q)] > 0 <=> processes[Target(q)] > 0)
  /\ \A h \in VM : Held(q, h)' = Held(q, h)

LEMMA TodoShape ==
  ASSUME TypeInv, NEW p \in VM, ShapeOf(p), pc[p] \in ItemSteps
  PROVE  /\ code[p] # <<>> => Heads(Mode(p), Target(p), code[p])
         /\ OpenIn(Mode(p), code[p]) \in Nat
         /\ OpenIn(Mode(p), code[p]) > 0 => Bracketing(p)
         /\ Target(p) \in VM
  <1>1. code[p] \in Seq(Items) /\ ShapeIn(Mode(p), Target(p), code[p])
    BY DEF TypeInv, TypeOK, ShapeOf
  <1>2. Target(p) \in VM
    <2>1. after[p] \in {"idle", "sendUnlock", "sendUnlockAgain", "forkRead"} /\ FormOf(p)
      BY DEF TypeInv, TypeOK, WellFormed
    <2> QED
      BY <2>1 DEF Target, FormOf, Sending, Forking, Copying
  <1> QED
    BY <1>1, <1>2, OpenType, WhoBrackets, TailOpen DEF Bracketing

LEMMA OtherHeld ==
  ASSUME TypeInv, NEW q \in VM, ShapeOf(q), HeldOf(q), Unmoved(q)
  PROVE  ShapeOf(q)' /\ HeldOf(q)'
  <1>1. /\ pc'[q] = pc[q] /\ code'[q] = code[q] /\ after'[q] = after[q] /\ peer'[q] = peer[q]
        /\ kind'[q] = kind[q] /\ locked'[q] = locked[q]
    BY DEF Unmoved
  <1>2. Mode(q)' = Mode(q) /\ Target(q)' = Target(q) /\ Todo(q)' = Todo(q)
        /\ (Copying(q)' <=> Copying(q))
    BY <1>1 DEF Mode, Target, Todo, Copying
  <1>3. ShapeOf(q)'
    <2>1. ASSUME pc[q] = "requireLock"
          PROVE  processes'[Todo(q).on] > 0 <=> processes[Todo(q).on] > 0
      <3>1. pc[q] \in ItemSteps /\ pc[q] \in Requiring /\ code[q] # <<>>
        BY <2>1 DEF ItemSteps, Requiring, TypeInv, WellFormed, FormOf
      <3>2. Heads(Mode(q), Target(q), code[q]) /\ Todo(q).do = "require"
        BY <3>1, TodoShape DEF ShapeOf
      <3>3. Todo(q).on = Target(q) /\ Bracketing(q)
        BY <3>1, <3>2 DEF Heads, Todo, Bracketing
      <3> QED
        BY <3>3 DEF Unmoved
    <2> QED
      BY <1>1, <1>2, <2>1 DEF ShapeOf
  <1>4. ASSUME NEW h \in VM
        PROVE  Held(q, h)' = ForSend(q, h)' + ForBrackets(q, h)' + ForCell(q, h)'
    <2>1. ForSend(q, h)' = ForSend(q, h) /\ ForCell(q, h)' = ForCell(q, h)
      BY <1>1, <1>2 DEF ForSend, ForCell
    <2>2. ForBrackets(q, h)' = ForBrackets(q, h)
      <3>1. CASE Bracketing(q)
        <4>1. processes'[Target(q)] > 0 <=> processes[Target(q)] > 0
          BY <3>1 DEF Unmoved
        <4> QED
          BY <1>1, <1>2, <4>1 DEF ForBrackets
      <3>2. CASE ~Bracketing(q)
        <4>1. pc[q] \in ItemSteps => OpenIn(Mode(q), code[q]) = 0
          BY <3>2, TodoShape
        <4> QED
          BY <1>1, <1>2, <4>1 DEF ForBrackets
      <3> QED
        BY <3>1, <3>2
    <2> QED
      BY <2>1, <2>2 DEF Unmoved, HeldOf
  <1> QED
    BY <1>3, <1>4 DEF HeldOf

\* A thread between two parts of a call, before and after a step.
Outside(s) == s \notin ItemSteps \cup Unlocks

LEMMA QuietHeld ==
  ASSUME TypeInv, NEW q \in VM, ShapeOf(q), HeldOf(q), Outside(pc[q]), Outside(pc'[q]),
         locked'[q] = locked[q], \A h \in VM : Held(q, h)' = Held(q, h)
  PROVE  ShapeOf(q)' /\ HeldOf(q)'
  <1>1. /\ pc[q] \notin ItemSteps /\ pc'[q] \notin ItemSteps /\ pc[q] \notin Unlocks
        /\ pc'[q] \notin Unlocks
    BY DEF Outside
  <1>2. ItemSteps \cap Allocating = Allocating /\ Requiring \subseteq ItemSteps
        /\ Looked \subseteq Allocating /\ "requireLock" \in Requiring /\ Locking \subseteq ItemSteps
    BY DEF ItemSteps, Allocating, Looked, Requiring, Locking
  <1>3. ShapeOf(q)'
    BY <1>1, <1>2 DEF ShapeOf
  <1>4. ASSUME NEW h \in VM
        PROVE  Held(q, h)' = ForSend(q, h)' + ForBrackets(q, h)' + ForCell(q, h)'
    <2>1. /\ ForSend(q, h) = 0 /\ ForBrackets(q, h) = 0 /\ ForCell(q, h) = 0
          /\ ForSend(q, h)' = 0 /\ ForBrackets(q, h)' = 0 /\ ForCell(q, h)' = 0
      BY <1>1, <1>2 DEF ForSend, ForBrackets, ForCell
    <2> QED
      BY <2>1 DEF HeldOf
  <1> QED
    BY <1>3, <1>4 DEF HeldOf

\* What p does leaves the calls of the other threads as they are; it may start
\* one, or remove one that never ran.
MineOnly(q) ==
  /\ code'[q] = code[q] /\ after'[q] = after[q] /\ peer'[q] = peer[q]
  /\ kind'[q] = kind[q] /\ locked'[q] = locked[q]
  /\ pc'[q] = pc[q] \/ (pc[q] \in Resting /\ pc'[q] \in Resting)

LEMMA MineOnlySteps ==
  ASSUME TypeInv, NEW p \in VM, Start(p) \/ Step(p), NEW q \in VM, q # p
  PROVE  MineOnly(q)
  <1>0. /\ pc \in [VM -> PC] /\ DOMAIN code = VM /\ DOMAIN peer = VM /\ DOMAIN kind = VM
        /\ DOMAIN after = VM /\ DOMAIN locked = VM
    BY LifeTypes
  <1>1. CASE AllocStep(p)
    BY <1>0, <1>1 DEF AllocStep, AllocStart, AllocLook, AllocBump, AllocCollect, AllocGrow,
                      AllocUnlock, NextItem, callVars, MineOnly
  <1>2. CASE CollectStep(p) \/ BracketStep(p)
    BY <1>0, <1>2 DEF CollectStep, GcStart, Gc, InsertOnly, BracketStep, RequireStart,
                      RequireCollect, RequireRead, RequireLock, Done, RunEnd, NextItem, callVars,
                      MineOnly
  <1>3. CASE SendStep(p)
    BY <1>0, <1>3 DEF SendStep, SendLock, SendUnlock, SendCheck, SendStore, Return, callVars,
                      MineOnly
  <1>4. CASE ForkRead(p) \/ ForkWrite(p) \/ ForkFails(p) \/ StopRead(p) \/ StopWrite(p)
    BY <1>0, <1>4 DEF ForkRead, ForkWrite, ForkFails, StopRead, StopWrite, callVars, MineOnly
  <1>5. CASE ForkStart(p) \/ StopInactive(p)
    <2>1. pc[p] \in LifeSteps
      BY <1>5 DEF ForkStart, StopInactive, LifeSteps
    <2>2. PICK c \in VM : c = peer[p] /\ (c # p => pc[c] = "unborn")
      BY <2>1 DEF TypeInv, WellFormed, FormOf, Forking
    <2>3. PICK to \in {"idle", "stopped"} : pc' = [pc EXCEPT ![p] = "idle", ![c] = to]
      BY <1>5, <2>2 DEF ForkStart, StopInactive
    <2>4. pc'[q] = pc[q] \/ (pc[q] \in Resting /\ pc'[q] \in Resting)
      BY <1>0, <2>2, <2>3 DEF Resting
    <2> QED
      BY <1>0, <1>5, <2>4 DEF ForkStart, StopInactive, MineOnly
  <1>6. CASE Start(p)
    BY <1>0, <1>6 DEF Start, Allocate, Peek, MakeCData, ForceGC, BigOperation, SendStart, Fork,
                      Stop, Begin, MineOnly
  <1>7. CASE Dangling(p)
    BY <1>7 DEF Dangling, callVars, MineOnly
  <1> QED
    BY <1>1, <1>2, <1>3, <1>4, <1>5, <1>6, <1>7 DEF Step, LifeStep

\* The counter of a VM is changed by its own thread, by the creator that makes
\* it, and by a child of it that ends.
LEMMA CountStill ==
  ASSUME ChildrenStay, CountInv, NEW p \in VM, Start(p) \/ Step(p), NEW q \in VM, q # p,
         q \in Bracketed, pc[q] # "unborn"
  PROVE  processes'[q] = processes[q]
  <1>0. TypeInv /\ processes \in [VM -> Int]
    BY LifeTypes DEF CountInv
  <1>1. CASE AllocStep(p) \/ CollectStep(p) \/ BracketStep(p)
    BY <1>1 DEF AllocStep, AllocStart, AllocLook, AllocBump, AllocCollect, AllocGrow, CollectStep,
                GcStart, Gc, InsertOnly, BracketStep, RequireStart, RequireCollect, RequireRead, RequireLock, Done, RunEnd, vmVars
  <1>2. CASE SendStep(p)
    BY <1>2 DEF SendStep, SendLock, SendUnlock, SendCheck, SendStore, vmVars
  <1>3. CASE ForkRead(p) \/ ForkStart(p) \/ ForkFails(p) \/ StopRead(p) \/ StopInactive(p)
    BY <1>3 DEF ForkRead, ForkStart, ForkFails, StopRead, StopInactive, vmVars
  <1>4. CASE ForkWrite(p)
    BY <1>0, <1>4 DEF ForkWrite
  <1>5. CASE StopWrite(p)
    <2>1. pc[p] = "stopWrite"
      BY <1>5 DEF StopWrite
    <2>2. creator[peer[p]] # q
      BY <2>1, WhoStops
    <2> QED
      BY <1>0, <1>5, <2>2 DEF StopWrite
  <1>6. CASE Start(p)
    <2>1. ASSUME NEW c \in VM, Fork(p, c) PROVE processes'[q] = processes[q]
      BY <1>0, <2>1 DEF Fork
    <2> QED
      BY <1>6, <2>1 DEF Start, Allocate, Peek, MakeCData, ForceGC, BigOperation, SendStart, Stop,
                        vmVars
  <1>7. CASE Dangling(p)
    BY <1>7 DEF Dangling, vmVars
  <1> QED
    BY <1>1, <1>2, <1>3, <1>4, <1>5, <1>6, <1>7 DEF Step, LifeStep

LEMMA BusyKept ==
  ASSUME ChildrenStay, CountSafe, CountSafe', NEW p \in VM, Start(p) \/ Step(p),
         NEW q \in VM, q # p, MineOnly(q), Bracketing(q)
  PROVE  processes'[Target(q)] > 0 <=> processes[Target(q)] > 0
  <1>1. pc'[q] = pc[q] /\ after'[q] = after[q] /\ peer'[q] = peer[q] /\ kind'[q] = kind[q]
        /\ pc[q] \in ItemSteps
    BY DEF MineOnly, Bracketing, Resting, ItemSteps
  <1>2. CASE Mode(q) = "sent"
    <2>1. /\ kind[q] = "big" /\ Copying(q) /\ after[q] # "idle"
      BY <1>2 DEF Mode
    <2>2. Sending(q) /\ Sending(q)' /\ kind'[q] = "big" /\ Target(q) = peer[q]
      BY <1>1, <2>1 DEF Sending, Copying, Target
    <2>3. SafeSend(q) /\ SafeSend(q)'
      BY DEF CountSafe
    <2>4. processes[peer[q]] > 0
      BY <2>1, <2>2, <2>3 DEF SafeSend
    <2>5. processes'[peer[q]] > 0
      BY <1>1, <2>2, <2>3 DEF SafeSend
    <2> QED
      BY <2>2, <2>4, <2>5
  <1>3. CASE Mode(q) = "own" /\ Target(q) \in BigCalls
    <2>1. Target(q) = q
      BY <1>3 DEF Mode, Target
    <2>2. q \in Bracketed /\ pc[q] # "unborn"
      BY <1>1, <1>3, <2>1, BracketedVM DEF ItemSteps
    <2> QED
      BY <2>1, <2>2, CountStill DEF CountSafe
  <1> QED
    BY <1>2, <1>3 DEF Bracketing

LEMMA OthersHeld ==
  ASSUME ChildrenStay, CountSafe, CountSafe', HeldInv, NEW p \in VM, Start(p) \/ Step(p),
         \A q, h \in VM : q # p => Held(q, h)' = Held(q, h),
         NEW q \in VM, q # p
  PROVE  ShapeOf(q)' /\ HeldOf(q)'
  <1>1. TypeInv /\ ShapeOf(q) /\ HeldOf(q)
    BY DEF CountSafe, CountInv, HeldInv
  <1>2. MineOnly(q) /\ \A h \in VM : Held(q, h)' = Held(q, h)
    BY <1>1, MineOnlySteps
  <1>3. CASE pc'[q] = pc[q]
    <2>1. Bracketing(q) => (processes'[Target(q)] > 0 <=> processes[Target(q)] > 0)
      BY <1>2, BusyKept
    <2>2. Unmoved(q)
      BY <1>2, <1>3, <2>1 DEF Unmoved, MineOnly
    <2> QED
      BY <1>1, <2>2, OtherHeld
  <1>4. CASE pc[q] \in Resting /\ pc'[q] \in Resting
    <2>1. Outside(pc[q]) /\ Outside(pc'[q])
      BY <1>4 DEF Outside, Resting, ItemSteps, Unlocks
    <2>2. locked'[q] = locked[q]
      BY <1>2 DEF MineOnly
    <2> QED
      BY <1>1, <1>2, <2>1, <2>2, QuietHeld
  <1> QED
    BY <1>2, <1>3, <1>4 DEF MineOnly

\* What is to be shown of a step of p; the others follow from OthersHeld.
OwnHeld(p) ==
  /\ ShapeOf(p)' /\ HeldOf(p)'
  /\ \A q, h \in VM : q # p => Held(q, h)' = Held(q, h)

\* The lock taken or given back is that of a bracket or a cell.
Balanced(p, g, d) ==
  \A h \in VM :
    ForBrackets(p, h)' + ForCell(p, h)'
      = ForBrackets(p, h) + ForCell(p, h) + (IF h = g THEN d ELSE 0)

LEMMA PartTypes ==
  ASSUME NEW p, NEW h
  PROVE  ForSend(p, h) \in {0, 1} /\ ForBrackets(p, h) \in Nat /\ ForCell(p, h) \in {0, 1}
  BY OpenType DEF ForSend, ForBrackets, ForCell

\* The parts of the call that stay in a step from one item to the next.
SameCall == UNCHANGED <<after, peer, kind, processes>>

LEMMA SameCallFacts ==
  ASSUME SameCall, NEW p
  PROVE  /\ Mode(p)' = Mode(p) /\ Target(p)' = Target(p)
         /\ (Copying(p)' <=> Copying(p)) /\ peer'[p] = peer[p] /\ processes' = processes
  BY DEF SameCall, Mode, Target, Copying

LEMMA ItemHeld ==
  ASSUME TypeInv, NEW p \in VM, ShapeOf(p), HeldOf(p), pc[p] \in ItemSteps, pc'[p] \in ItemSteps,
         SameCall, ShapeIn(Mode(p), Target(p), code'[p]),
         NEW g \in VM, NEW d \in {-1, 0, 1}, Moved(p, g, d), Balanced(p, g, d),
         locked'[p] => pc'[p] \in Locking,
         pc'[p] \in Requiring => Todo(p)'.do = "require",
         pc'[p] \in Allocating => Todo(p)'.do \notin {"require", "done"},
         pc'[p] = "requireLock" => (locked'[p] <=> processes[Todo(p)'.on] > 0)
  PROVE  OwnHeld(p)
  <1>1. Mode(p)' = Mode(p) /\ Target(p)' = Target(p) /\ (Copying(p)' <=> Copying(p))
        /\ peer'[p] = peer[p] /\ processes' = processes
    BY SameCallFacts
  <1>2. ShapeOf(p)'
    BY <1>1 DEF ShapeOf
  <1>3. ASSUME NEW h \in VM
        PROVE  Held(p, h)' = ForSend(p, h)' + ForBrackets(p, h)' + ForCell(p, h)'
    <2>1. ForSend(p, h)' = ForSend(p, h)
      BY <1>1 DEF ForSend, Unlocks, ItemSteps
    <2>2. Held(p, h)' = Held(p, h) + (IF h = g THEN d ELSE 0)
      BY DEF Moved
    <2>3. Held(p, h) = ForSend(p, h) + ForBrackets(p, h) + ForCell(p, h)
      BY DEF HeldOf
    <2>4. ForBrackets(p, h)' + ForCell(p, h)'
            = ForBrackets(p, h) + ForCell(p, h) + (IF h = g THEN d ELSE 0)
      BY DEF Balanced
    <2>5. ForBrackets(p, h)' \in Nat /\ ForCell(p, h)' \in Nat
      <3>1. OpenIn(Mode(p)', code'[p]) \in Nat
        BY OpenType
      <3> QED
        BY <3>1 DEF ForBrackets, ForCell
    <2>6. ForSend(p, h) \in Nat /\ ForBrackets(p, h) \in Nat /\ ForCell(p, h) \in Nat
      BY PartTypes
    <2> QED
      BY <2>1, <2>2, <2>3, <2>4, <2>5, <2>6
  <1> QED
    BY <1>2, <1>3 DEF OwnHeld, HeldOf, Moved

\* Where the brackets stay as they are.
LEMMA SameBrackets ==
  ASSUME TypeInv, NEW p \in VM, ShapeOf(p), pc[p] \in ItemSteps, pc'[p] \in ItemSteps, SameCall,
         \/ code'[p] = code[p]
         \/ code[p] # <<>> /\ code'[p] = Tail(code[p]) /\ Todo(p).do \notin {"require", "done"}
  PROVE  /\ ShapeIn(Mode(p), Target(p), code'[p])
         /\ \A h \in VM : ForBrackets(p, h)' = ForBrackets(p, h)
  <1>1. Mode(p)' = Mode(p) /\ Target(p)' = Target(p) /\ processes' = processes
    BY SameCallFacts
  <1>2. ShapeIn(Mode(p), Target(p), code'[p]) /\ OpenIn(Mode(p), code'[p]) = OpenIn(Mode(p), code[p])
    <2>1. CASE code'[p] = code[p]
      BY <2>1 DEF ShapeOf
    <2>2. CASE code[p] # <<>> /\ code'[p] = Tail(code[p]) /\ Todo(p).do \notin {"require", "done"}
      <3>1. Heads(Mode(p), Target(p), code[p])
        BY <2>2, TodoShape
      <3> QED
        BY <2>2, <3>1 DEF Heads, Todo
    <2> QED
      BY <2>1, <2>2
  <1> QED
    BY <1>1, <1>2 DEF ForBrackets

\* A thread that holds a lock for a cell or a bracket can give it back.
LEMMA HoldsIt ==
  ASSUME TypeInv, NEW p \in VM, HeldOf(p), NEW h \in VM,
         ForCell(p, h) >= 1 \/ ForBrackets(p, h) >= 1
  PROVE  Held(p, h) > 0
  <1>1. Held(p, h) = ForSend(p, h) + ForBrackets(p, h) + ForCell(p, h)
    BY DEF HeldOf
  <1>2. ForSend(p, h) \in Nat /\ ForBrackets(p, h) \in Nat /\ ForCell(p, h) \in Nat
    BY PartTypes
  <1> QED
    BY <1>1, <1>2

LEMMA LookHeld ==
  ASSUME CountInv, NEW p \in VM, ShapeOf(p), HeldOf(p), AllocStart(p) \/ AllocLook(p)
  PROVE  OwnHeld(p)
  <1>0. TypeInv /\ pc \in [VM -> PC] /\ DOMAIN locked = VM
    BY LifeTypes DEF CountInv
  <1>1. CASE AllocStart(p)
    <2>1. /\ pc[p] = "run" /\ pc'[p] = "look" /\ code' = code /\ Todo(p).do = "alloc"
          /\ SameCall /\ UNCHANGED lockVars
      BY <1>0, <1>1 DEF AllocStart, vmVars, SameCall
    <2>2. pc[p] \in ItemSteps /\ pc'[p] \in ItemSteps /\ pc'[p] \in Allocating
          /\ pc'[p] \notin Requiring /\ pc'[p] # "requireLock" /\ pc[p] \notin Looked
          /\ pc'[p] \notin Looked /\ pc'[p] \in Locking
      BY <2>1 DEF ItemSteps, Allocating, Looked, Requiring, Locking
    <2>3. ShapeIn(Mode(p), Target(p), code'[p])
          /\ \A h \in VM : ForBrackets(p, h)' = ForBrackets(p, h)
      BY <1>0, <2>1, <2>2, SameBrackets
    <2>4. \A h \in VM : ForCell(p, h)' = 0 /\ ForCell(p, h) = 0
      BY <2>2 DEF ForCell
    <2>5. Balanced(p, p, 0)
      BY <2>3, <2>4, PartTypes DEF Balanced
    <2>6. Todo(p)' = Todo(p)
      BY <2>1 DEF Todo
    <2>7. Moved(p, p, 0)
      BY <1>0, <2>1, SameHeld
    <2> QED
      BY <1>0, <2>1, <2>2, <2>3, <2>5, <2>6, <2>7, ItemHeld
  <1>2. CASE AllocLook(p)
    <2>1. /\ pc[p] = "look" /\ pc'[p] \in {"bump", "collect"} /\ code' = code /\ locked' = locked
          /\ SameCall /\ LockIfWanted(p)
      BY <1>0, <1>2 DEF AllocLook, vmVars, callVars, SameCall
    <2>2. pc[p] \in ItemSteps /\ pc'[p] \in ItemSteps /\ pc[p] \in Allocating
          /\ pc'[p] \in Allocating /\ pc'[p] \notin Requiring /\ pc'[p] # "requireLock"
          /\ pc[p] \notin Looked /\ pc'[p] \in Looked /\ pc'[p] \in Locking
      BY <2>1 DEF ItemSteps, Allocating, Looked, Requiring, Locking
    <2>3. code[p] # <<>> /\ Todo(p).do \notin {"require", "done"} /\ Todo(p)' = Todo(p)
      BY <1>0, <2>1, <2>2 DEF ShapeOf, TypeInv, WellFormed, FormOf, Todo
    <2>4. PICK g \in VM : g = Todo(p).on
      BY <1>0, <2>3, TodoType
    <2>5. ShapeIn(Mode(p), Target(p), code'[p])
          /\ \A h \in VM : ForBrackets(p, h)' = ForBrackets(p, h)
      BY <1>0, <2>1, <2>2, SameBrackets
    <2>6. CASE locked[p]
      <3>1. Moved(p, g, 1)
        BY <1>0, <2>1, <2>4, <2>6, LockHeld DEF LockIfWanted
      <3>2. \A h \in VM : ForCell(p, h) = 0 /\ ForCell(p, h)' = IF h = g THEN 1 ELSE 0
        BY <2>1, <2>2, <2>3, <2>4, <2>6 DEF ForCell
      <3>3. Balanced(p, g, 1)
        BY <2>5, <3>2, PartTypes DEF Balanced
      <3> QED
        BY <1>0, <2>1, <2>2, <2>3, <2>5, <3>1, <3>3, ItemHeld
    <2>7. CASE ~locked[p]
      <3>1. Moved(p, g, 0)
        BY <1>0, <2>1, <2>7, SameHeld DEF LockIfWanted
      <3>2. \A h \in VM : ForCell(p, h) = 0 /\ ForCell(p, h)' = 0
        BY <2>1, <2>7 DEF ForCell
      <3>3. Balanced(p, g, 0)
        BY <2>5, <3>2, PartTypes DEF Balanced
      <3> QED
        BY <1>0, <2>1, <2>2, <2>3, <2>5, <3>1, <3>3, ItemHeld
    <2> QED
      BY <2>6, <2>7
  <1> QED
    BY <1>1, <1>2

\* The end of iallocate, or of its first attempt: the lock goes back.
LEMMA AllocEndHeld ==
  ASSUME CountInv, NEW p \in VM, ShapeOf(p), HeldOf(p), AllocBump(p) \/ AllocGrow(p)
  PROVE  OwnHeld(p)
  <1>0. TypeInv /\ pc \in [VM -> PC] /\ DOMAIN locked = VM /\ DOMAIN code = VM
    BY LifeTypes DEF CountInv
  <1>1. /\ pc[p] \in {"bump", "grow"} /\ pc'[p] = "run" /\ SameCall /\ AllocUnlock(p)
        /\ locked'[p] = FALSE /\ (code'[p] = code[p] \/ code'[p] = Tail(code[p]))
    BY <1>0 DEF AllocBump, AllocGrow, AllocUnlock, NextItem, vmVars, SameCall
  <1>2. pc[p] \in ItemSteps /\ pc'[p] \in ItemSteps /\ pc[p] \in Allocating /\ pc[p] \in Looked
        /\ pc'[p] \notin Allocating \cup Requiring /\ pc'[p] # "requireLock" /\ pc'[p] \notin Looked
    BY <1>1 DEF ItemSteps, Allocating, Looked, Requiring
  <1>3. code[p] # <<>> /\ Todo(p).do \notin {"require", "done"}
    BY <1>0, <1>2 DEF ShapeOf, TypeInv, WellFormed, FormOf
  <1>4. PICK g \in VM : g = Todo(p).on
    BY <1>0, <1>3, TodoType
  <1>5. ShapeIn(Mode(p), Target(p), code'[p])
        /\ \A h \in VM : ForBrackets(p, h)' = ForBrackets(p, h)
    BY <1>0, <1>1, <1>2, <1>3, SameBrackets
  <1>6. \A h \in VM : ForCell(p, h)' = 0
    BY <1>2 DEF ForCell
  <1>7. CASE locked[p]
    <2>1. \A h \in VM : ForCell(p, h) = IF h = g THEN 1 ELSE 0
      BY <1>2, <1>4, <1>7 DEF ForCell
    <2>2. Held(p, g) > 0
      BY <1>0, <2>1, HoldsIt
    <2>3. Moved(p, g, -1)
      BY <1>0, <1>1, <1>4, <1>7, <2>2, UnlockHeld DEF AllocUnlock
    <2>4. Balanced(p, g, -1)
      BY <1>5, <1>6, <2>1, PartTypes DEF Balanced
    <2> QED
      BY <1>0, <1>1, <1>2, <1>5, <2>3, <2>4, ItemHeld
  <1>8. CASE ~locked[p]
    <2>1. \A h \in VM : ForCell(p, h) = 0
      BY <1>8 DEF ForCell
    <2>2. Moved(p, g, 0)
      BY <1>0, <1>1, <1>8, SameHeld DEF AllocUnlock
    <2>3. Balanced(p, g, 0)
      BY <1>5, <1>6, <2>1, PartTypes DEF Balanced
    <2> QED
      BY <1>0, <1>1, <1>2, <1>5, <2>2, <2>3, ItemHeld
  <1> QED
    BY <1>7, <1>8

LEMMA AllocHeld ==
  ASSUME CountInv, NEW p \in VM, ShapeOf(p), HeldOf(p), AllocStep(p)
  PROVE  OwnHeld(p)
  <1>0. TypeInv /\ pc \in [VM -> PC]
    BY LifeTypes DEF CountInv
  <1>1. CASE AllocCollect(p)
    <2>1. /\ pc[p] = "collect" /\ pc'[p] = "grow" /\ code' = code /\ locked' = locked
          /\ SameCall /\ UNCHANGED lockVars
      BY <1>0, <1>1 DEF AllocCollect, vmVars, callVars, SameCall
    <2>2. pc[p] \in ItemSteps /\ pc'[p] \in ItemSteps /\ pc[p] \in Allocating
          /\ pc'[p] \in Allocating /\ pc'[p] \notin Requiring /\ pc'[p] # "requireLock"
          /\ pc[p] \in Looked /\ pc'[p] \in Looked /\ pc'[p] \in Locking
      BY <2>1 DEF ItemSteps, Allocating, Looked, Requiring, Locking
    <2>3. Todo(p).do \notin {"require", "done"} /\ Todo(p)' = Todo(p)
      BY <2>1, <2>2 DEF ShapeOf, Todo
    <2>4. ShapeIn(Mode(p), Target(p), code'[p])
          /\ \A h \in VM : ForBrackets(p, h)' = ForBrackets(p, h)
      BY <1>0, <2>1, <2>2, SameBrackets
    <2>5. Moved(p, p, 0)
      BY <1>0, <2>1, SameHeld
    <2>6. \A h \in VM : ForCell(p, h)' = ForCell(p, h)
      BY <2>1, <2>2, <2>3 DEF ForCell
    <2>7. Balanced(p, p, 0)
      BY <2>4, <2>6, PartTypes DEF Balanced
    <2> QED
      BY <1>0, <2>1, <2>2, <2>3, <2>4, <2>5, <2>7, ItemHeld
  <1> QED
    BY <1>1, LookHeld, AllocEndHeld DEF AllocStep

\* A collection that no allocation asks for takes no lock.
LEMMA CollectHeld ==
  ASSUME CountInv, NEW p \in VM, ShapeOf(p), HeldOf(p), CollectStep(p)
  PROVE  OwnHeld(p)
  <1>0. TypeInv /\ pc \in [VM -> PC] /\ DOMAIN code = VM
    BY LifeTypes DEF CountInv
  <1>1. /\ pc[p] \in {"run", "gc"} /\ pc'[p] \in {"run", "gc"} /\ SameCall /\ UNCHANGED lockVars
        /\ locked' = locked /\ (pc'[p] = "gc" => pc[p] = "run")
    BY <1>0 DEF CollectStep, GcStart, Gc, InsertOnly, vmVars, callVars, SameCall
  <1>2. pc[p] \in ItemSteps /\ pc'[p] \in ItemSteps /\ pc[p] \notin Locking
        /\ pc'[p] \notin Requiring /\ pc'[p] # "requireLock"
        /\ (pc[p] = "gc" => pc[p] \in Allocating) /\ (pc'[p] \in Allocating => pc'[p] = "gc")
    BY <1>1 DEF ItemSteps, Allocating, Looked, Requiring, Locking
  <1>3. code[p] # <<>> /\ Todo(p).do \notin {"require", "done"}
    <2>1. CASE Gc(p)
      BY <1>0, <1>2, <2>1 DEF Gc, ShapeOf, TypeInv, WellFormed, FormOf
    <2>2. CASE GcStart(p) \/ InsertOnly(p)
      BY <2>2 DEF GcStart, InsertOnly
    <2> QED
      BY <2>1, <2>2 DEF CollectStep
  <1>4. code'[p] = code[p] \/ code'[p] = Tail(code[p])
    BY <1>0 DEF CollectStep, GcStart, Gc, InsertOnly, NextItem, callVars
  <1>5. ShapeIn(Mode(p), Target(p), code'[p])
        /\ \A h \in VM : ForBrackets(p, h)' = ForBrackets(p, h)
    BY <1>0, <1>1, <1>2, <1>3, <1>4, SameBrackets
  <1>6. ~locked[p] /\ ~locked'[p]
    BY <1>1, <1>2 DEF ShapeOf
  <1>7. Balanced(p, p, 0)
    BY <1>5, <1>6, PartTypes DEF Balanced, ForCell
  <1>8. Moved(p, p, 0)
    BY <1>0, <1>1, SameHeld
  <1>9. pc'[p] \in Allocating => Todo(p)'.do \notin {"require", "done"}
    <2>1. CASE GcStart(p)
      BY <1>3, <2>1 DEF GcStart, callVars, Todo
    <2>2. CASE Gc(p) \/ InsertOnly(p)
      BY <1>0, <1>2, <2>2 DEF Gc, InsertOnly
    <2> QED
      BY <2>1, <2>2 DEF CollectStep
  <1> QED
    BY <1>0, <1>1, <1>2, <1>5, <1>6, <1>7, <1>8, <1>9, ItemHeld

\* The steps of idris_requireAlloc before it locks.
LEMMA RequireHeld ==
  ASSUME CountInv, NEW p \in VM, ShapeOf(p), HeldOf(p),
         RequireStart(p) \/ RequireCollect(p) \/ RequireRead(p)
  PROVE  OwnHeld(p)
  <1>0. TypeInv /\ pc \in [VM -> PC] /\ DOMAIN locked = VM
    BY LifeTypes DEF CountInv
  <1>1. /\ pc[p] \in {"run", "requireCollect", "requireRead"}
        /\ pc'[p] \in {"requireCollect", "requireRead", "requireLock"}
        /\ code' = code /\ SameCall /\ UNCHANGED lockVars
    BY <1>0 DEF RequireStart, RequireCollect, RequireRead, vmVars, callVars, SameCall
  <1>2. pc[p] \in ItemSteps /\ pc'[p] \in ItemSteps /\ pc[p] \notin Locking
        /\ pc'[p] \notin Allocating /\ pc[p] \notin Looked /\ pc'[p] \notin Looked
        /\ (pc[p] # "run" => pc[p] \in Requiring) /\ "requireLock" \in Locking
    BY <1>1 DEF ItemSteps, Allocating, Looked, Requiring, Locking
  <1>3. Todo(p).do = "require" /\ Todo(p)' = Todo(p)
    <2>1. CASE RequireStart(p)
      BY <1>1, <2>1 DEF RequireStart, Todo
    <2>2. CASE RequireCollect(p) \/ RequireRead(p)
      BY <1>1, <1>2, <2>2 DEF RequireCollect, RequireRead, ShapeOf, Todo
    <2> QED
      BY <2>1, <2>2
  <1>4. ShapeIn(Mode(p), Target(p), code'[p])
        /\ \A h \in VM : ForBrackets(p, h)' = ForBrackets(p, h)
    BY <1>0, <1>1, <1>2, SameBrackets
  <1>5. Moved(p, p, 0)
    BY <1>0, <1>1, SameHeld
  <1>6. \A h \in VM : ForCell(p, h)' = 0 /\ ForCell(p, h) = 0
    BY <1>2 DEF ForCell
  <1>7. Balanced(p, p, 0)
    BY <1>4, <1>6, PartTypes DEF Balanced
  <1>8. locked[p] = FALSE
    <2>1. locked[p] \in BOOLEAN
      BY <1>0, LifeTypes
    <2> QED
      BY <1>2, <2>1 DEF ShapeOf
  <1>9. /\ locked'[p] => pc'[p] = "requireLock"
        /\ pc'[p] = "requireLock" => (locked'[p] <=> processes[Todo(p).on] > 0)
    <2>1. CASE RequireStart(p) \/ RequireCollect(p)
      BY <1>0, <1>8, <2>1 DEF RequireStart, RequireCollect, callVars
    <2>2. CASE RequireRead(p)
      BY <1>0, <2>2 DEF RequireRead
    <2> QED
      BY <2>1, <2>2
  <1> QED
    BY <1>0, <1>1, <1>2, <1>3, <1>4, <1>5, <1>7, <1>9, ItemHeld

\* Where a bracket is opened or closed: whether there is a lock is decided by
\* the counter, and it is the same in both calls.
LEMMA BracketHeld ==
  ASSUME CountInv, NEW p \in VM, ShapeOf(p), HeldOf(p), RequireLock(p) \/ Done(p)
  PROVE  OwnHeld(p)
  <1>0. TypeInv /\ pc \in [VM -> PC] /\ DOMAIN locked = VM /\ DOMAIN code = VM
    BY LifeTypes DEF CountInv
  <1>1. /\ pc[p] \in {"run", "requireLock"} /\ pc'[p] = "run" /\ SameCall
        /\ code'[p] = Tail(code[p]) /\ ~locked'[p]
    <2>1. CASE RequireLock(p)
      BY <1>0, <2>1 DEF RequireLock, NextItem, vmVars, SameCall
    <2>2. CASE Done(p)
      <3>1. pc[p] = "run" /\ locked' = locked
        BY <2>2 DEF Done
      <3>2. ~locked[p]
        BY <3>1 DEF ShapeOf, Locking
      <3> QED
        BY <1>0, <2>2, <3>1, <3>2 DEF Done, NextItem, vmVars, SameCall
    <2> QED
      BY <2>1, <2>2
  <1>2. pc[p] \in ItemSteps /\ pc'[p] \in ItemSteps /\ pc[p] \notin Looked
        /\ pc'[p] \notin Allocating \cup Requiring /\ pc'[p] # "requireLock" /\ pc'[p] \notin Looked
        /\ (pc[p] = "requireLock" => pc[p] \in Requiring)
    BY <1>1 DEF ItemSteps, Allocating, Looked, Requiring
  <1>3. code[p] # <<>>
    BY <1>0, <1>2 DEF RequireLock, Done, TypeInv, WellFormed, FormOf
  <1>4. Heads(Mode(p), Target(p), code[p]) /\ Target(p) \in VM
        /\ OpenIn(Mode(p), code[p]) \in Nat
    BY <1>0, <1>2, <1>3, TodoShape
  <1>5. PICK g \in VM : g = Target(p)
    BY <1>4
  <1>6. ShapeIn(Mode(p), Target(p), code'[p])
    BY <1>1, <1>4 DEF Heads
  <1>7. \A h \in VM : ForCell(p, h)' = 0 /\ ForCell(p, h) = 0
    BY <1>2 DEF ForCell
  <1>8. /\ Mode(p)' = Mode(p) /\ Target(p)' = Target(p) /\ processes' = processes
    BY <1>1, SameCallFacts
  <1>9. \A h \in VM :
          /\ ForBrackets(p, h) = IF h = g /\ processes[g] > 0 THEN OpenIn(Mode(p), code[p]) ELSE 0
          /\ ForBrackets(p, h)' =
               IF h = g /\ processes[g] > 0 THEN OpenIn(Mode(p), Tail(code[p])) ELSE 0
    BY <1>1, <1>2, <1>5, <1>8 DEF ForBrackets
  <1>10. CASE RequireLock(p)
    <2>1. Todo(p).do = "require" /\ LockIfWanted(p) /\ pc[p] = "requireLock"
      BY <1>2, <1>10 DEF RequireLock, ShapeOf
    <2>2. Todo(p).on = g /\ OpenIn(Mode(p), Tail(code[p])) = OpenIn(Mode(p), code[p]) + 1
      BY <1>4, <1>5, <2>1 DEF Heads, Todo
    <2>3. locked[p] <=> processes[g] > 0
      BY <2>1, <2>2 DEF ShapeOf
    <2>4. CASE processes[g] > 0
      <3>1. Moved(p, g, 1)
        BY <1>0, <2>1, <2>2, <2>3, <2>4, LockHeld DEF LockIfWanted
      <3>2. Balanced(p, g, 1)
        BY <1>4, <1>7, <1>9, <2>2, <2>4 DEF Balanced
      <3> QED
        BY <1>0, <1>1, <1>2, <1>6, <3>1, <3>2, ItemHeld
    <2>5. CASE ~(processes[g] > 0)
      <3>1. Moved(p, g, 0)
        BY <1>0, <2>1, <2>3, <2>5, SameHeld DEF LockIfWanted
      <3>2. Balanced(p, g, 0)
        BY <1>7, <1>9, <2>5 DEF Balanced
      <3> QED
        BY <1>0, <1>1, <1>2, <1>6, <3>1, <3>2, ItemHeld
    <2> QED
      BY <2>4, <2>5
  <1>11. CASE Done(p)
    <2>1. Todo(p).do = "done" /\ GivesLockBack(p)
      BY <1>11 DEF Done
    <2>2. /\ Todo(p).on = g /\ OpenIn(Mode(p), Tail(code[p])) = OpenIn(Mode(p), code[p]) - 1
          /\ OpenIn(Mode(p), code[p]) >= 1
      BY <1>4, <1>5, <2>1 DEF Heads, Todo
    <2>3. CASE processes[g] > 0
      <3>1. Held(p, g) > 0
        BY <1>0, <1>9, <2>2, <2>3, HoldsIt
      <3>2. Moved(p, g, -1)
        BY <1>0, <2>1, <2>2, <2>3, <3>1, UnlockHeld DEF GivesLockBack
      <3>3. Balanced(p, g, -1)
        BY <1>4, <1>7, <1>9, <2>2, <2>3 DEF Balanced
      <3> QED
        BY <1>0, <1>1, <1>2, <1>6, <3>2, <3>3, ItemHeld
    <2>4. CASE ~(processes[g] > 0)
      <3>1. Moved(p, g, 0)
        BY <1>0, <2>1, <2>2, <2>4, SameHeld DEF GivesLockBack
      <3>2. Balanced(p, g, 0)
        BY <1>7, <1>9, <2>4 DEF Balanced
      <3> QED
        BY <1>0, <1>1, <1>2, <1>6, <3>1, <3>2, ItemHeld
    <2> QED
      BY <2>3, <2>4
  <1> QED
    BY <1>10, <1>11

\* Here all brackets are closed.
LEMMA EndHeld ==
  ASSUME CountInv, NEW p \in VM, ShapeOf(p), HeldOf(p), RunEnd(p)
  PROVE  OwnHeld(p)
  <1>0. /\ TypeInv /\ pc \in [VM -> PC] /\ code[p] \in Seq(Items)
        /\ after[p] \in {"idle", "sendUnlock", "sendUnlockAgain", "forkRead"}
    BY DEF CountInv, TypeInv, TypeOK
  <1>1. /\ pc[p] = "run" /\ pc'[p] = after[p] /\ code[p] = <<>> /\ locked' = locked
        /\ SameCall /\ UNCHANGED lockVars
    BY <1>0 DEF RunEnd, vmVars, callVars, SameCall
  <1>2. pc[p] \in ItemSteps /\ pc[p] \notin Locking /\ pc[p] \notin Looked
        /\ pc'[p] \notin ItemSteps
    BY <1>0, <1>1 DEF ItemSteps, Locking, Looked
  <1>3. ~locked'[p] /\ pc'[p] \notin Allocating \cup Requiring /\ pc'[p] # "requireLock"
    BY <1>1, <1>2 DEF ShapeOf, ItemSteps, Allocating, Looked, Requiring
  <1>4. ShapeOf(p)'
    BY <1>2, <1>3 DEF ShapeOf
  <1>5. OpenIn(Mode(p), code[p]) = 0
    BY <1>0, <1>1, <1>2, WhoBrackets DEF ShapeOf
  <1>6. ASSUME NEW h \in VM
        PROVE  Held(p, h)' = ForSend(p, h)' + ForBrackets(p, h)' + ForCell(p, h)'
    <2>1. ForBrackets(p, h) = 0 /\ ForCell(p, h) = 0
      BY <1>2, <1>5 DEF ForBrackets, ForCell
    <2>2. ForBrackets(p, h)' = 0 /\ ForCell(p, h)' = 0
      BY <1>2, <1>3 DEF ForBrackets, ForCell, Allocating
    <2>3. ForSend(p, h)' = ForSend(p, h)
      BY <1>0, <1>1, <1>2, SameCallFacts DEF ForSend, Unlocks, Copying, ItemSteps
    <2>4. Held(p, h)' = Held(p, h)
      BY <1>1 DEF Held, lockVars
    <2> QED
      BY <2>1, <2>2, <2>3, <2>4 DEF HeldOf
  <1>7. \A q, h \in VM : Held(q, h)' = Held(q, h)
    BY <1>1 DEF Held, lockVars
  <1> QED
    BY <1>4, <1>6, <1>7 DEF OwnHeld, HeldOf

\* Outside the items and the end of a send a thread holds no lock.
LEMMA OutsideHeld ==
  ASSUME NEW p \in VM, ShapeOf(p), HeldOf(p), Outside(pc[p])
  PROVE  /\ \A h \in VM : Held(p, h) = 0
         /\ ~locked[p]
  <1>1. pc[p] \notin ItemSteps /\ pc[p] \notin Unlocks /\ pc[p] \notin Looked
        /\ pc[p] \notin Locking
    BY DEF Outside, ItemSteps, Locking, Looked
  <1>2. \A h \in VM : ForSend(p, h) = 0 /\ ForBrackets(p, h) = 0 /\ ForCell(p, h) = 0
    BY <1>1 DEF ForSend, ForBrackets, ForCell
  <1> QED
    BY <1>1, <1>2 DEF HeldOf, ShapeOf

\* The first item of a call, with no bracket open.
LEMMA BeginHeld ==
  ASSUME TypeInv, NEW p \in VM, ShapeOf(p), HeldOf(p), Outside(pc[p]), pc'[p] = "run",
         locked' = locked,
         ShapeIn(Mode(p)', Target(p)', code'[p]), OpenIn(Mode(p)', code'[p]) = 0,
         NEW g \in VM, NEW d \in {0, 1}, Moved(p, g, d),
         Copying(p)' <=> d = 1, d = 1 => peer'[p] = g
  PROVE  OwnHeld(p)
  <1>1. (\A h \in VM : Held(p, h) = 0) /\ ~locked[p]
    BY OutsideHeld
  <1>2. pc'[p] \in ItemSteps /\ pc'[p] \notin Looked /\ pc'[p] \notin Allocating \cup Requiring
        /\ pc'[p] # "requireLock" /\ pc'[p] \notin Unlocks
    BY DEF ItemSteps, Allocating, Looked, Requiring, Unlocks
  <1>3. ShapeOf(p)'
    BY <1>1, <1>2 DEF ShapeOf
  <1>4. ASSUME NEW h \in VM
        PROVE  Held(p, h)' = ForSend(p, h)' + ForBrackets(p, h)' + ForCell(p, h)'
    <2>1. ForBrackets(p, h)' = 0 /\ ForCell(p, h)' = 0
      BY <1>2 DEF ForBrackets, ForCell
    <2>2. Held(p, h)' = IF h = g THEN d ELSE 0
      BY <1>1 DEF Moved
    <2>3. ForSend(p, h)' = IF h = g THEN d ELSE 0
      BY <1>2 DEF ForSend
    <2> QED
      BY <2>1, <2>2, <2>3
  <1> QED
    BY <1>3, <1>4 DEF OwnHeld, HeldOf, Moved

\* A step between two parts of a call that uses no lock.
LEMMA BetweenHeld ==
  ASSUME TypeInv, NEW p \in VM, ShapeOf(p), HeldOf(p), Outside(pc[p]), Outside(pc'[p]),
         locked' = locked, UNCHANGED lockVars
  PROVE  OwnHeld(p)
  <1>1. \A q, h \in VM : Held(q, h)' = Held(q, h)
    BY DEF Held, lockVars
  <1> QED
    BY <1>1, QuietHeld DEF OwnHeld

LEMMA SendHeld ==
  ASSUME CountInv, NEW p \in VM, ShapeOf(p), HeldOf(p), SendStep(p)
  PROVE  OwnHeld(p)
  <1>0. /\ TypeInv /\ pc \in [VM -> PC] /\ FormOf(p) /\ DOMAIN after = VM /\ DOMAIN code = VM
        /\ kind[p] \in Kinds
    BY DEF CountInv, TypeInv, TypeOK, WellFormed
  <1>1. CASE SendLock(p)
    <2>1. /\ pc[p] \in {"sendLock", "sendLockAgain"} /\ pc'[p] = "run"
          /\ after'[p] \in {"sendUnlock", "sendUnlockAgain"} /\ code'[p] = CopyTo(p, peer[p], kind[p])
          /\ Lock(p, peer[p]) /\ UNCHANGED <<peer, kind, locked>>
      BY <1>0, <1>1 DEF SendLock
    <2>2. Outside(pc[p])
      BY <2>1 DEF Outside, ItemSteps, Unlocks
    <2>3. PICK g \in VM : g = peer[p]
      BY <1>0, <2>1 DEF FormOf, Sending
    <2>4. Copying(p)' /\ peer'[p] = g /\ Target(p)' = g
          /\ Mode(p)' = IF kind[p] = "big" THEN "sent" ELSE "cells"
      BY <2>1, <2>3 DEF Copying, Target, Mode
    <2>5. ShapeIn(Mode(p)', Target(p)', code'[p]) /\ OpenIn(Mode(p)', code'[p]) = 0
      <3>1. CASE kind[p] = "big"
        <4>1. ShapeIn("sent", g, CopyTo(p, g, kind[p])) /\ OpenIn("sent", CopyTo(p, g, kind[p])) = 0
          BY <1>0, <3>1, CopyBegins
        <4> QED
          BY <2>1, <2>3, <2>4, <3>1, <4>1
      <3>2. CASE kind[p] # "big"
        <4>1. ShapeIn("cells", g, CopyTo(p, g, kind[p])) /\ OpenIn("cells", CopyTo(p, g, kind[p])) = 0
          BY <1>0, <3>2, CopyBegins
        <4> QED
          BY <2>1, <2>3, <2>4, <3>2, <4>1
      <3> QED
        BY <3>1, <3>2
    <2>6. Moved(p, g, 1)
      BY <1>0, <2>1, <2>3, LockHeld
    <2> QED
      BY <1>0, <2>1, <2>2, <2>4, <2>5, <2>6, BeginHeld
  <1>2. CASE SendUnlock(p)
    <2>1. /\ pc[p] \in Unlocks /\ pc'[p] \in {"sendCheck", "sendStore"}
          /\ Unlock(p, peer[p]) /\ UNCHANGED <<peer, locked>>
      BY <1>0, <1>2 DEF SendUnlock, callVars, Unlocks
    <2>2. PICK g \in VM : g = peer[p]
      BY <1>0, <2>1 DEF FormOf, Sending, Unlocks
    <2>3. /\ pc[p] \notin ItemSteps /\ pc[p] \notin Looked /\ pc'[p] \notin ItemSteps
          /\ pc'[p] \notin Unlocks /\ pc'[p] \notin Looked /\ pc'[p] \notin Allocating \cup Requiring
          /\ pc[p] \notin Locking
      BY <2>1 DEF ItemSteps, Looked, Allocating, Requiring, Unlocks, Locking
    <2>4. \A h \in VM : Held(p, h) = IF h = g THEN 1 ELSE 0
      <3>1. \A h \in VM : /\ ForSend(p, h) = IF h = g THEN 1 ELSE 0
                          /\ ForBrackets(p, h) = 0 /\ ForCell(p, h) = 0
        BY <2>1, <2>2, <2>3 DEF ForSend, ForBrackets, ForCell
      <3> SUFFICES ASSUME NEW h \in VM PROVE Held(p, h) = IF h = g THEN 1 ELSE 0
        OBVIOUS
      <3>2. Held(p, h) = ForSend(p, h) + ForBrackets(p, h) + ForCell(p, h)
        BY DEF HeldOf
      <3>3. CASE h = g
        BY <3>1, <3>2, <3>3
      <3>4. CASE h # g
        BY <3>1, <3>2, <3>4
      <3> QED
        BY <3>3, <3>4
    <2>5. Moved(p, g, -1)
      BY <1>0, <2>1, <2>2, <2>4, UnlockHeld
    <2>6. \A h \in VM : Held(p, h)' = 0
      BY <2>4, <2>5 DEF Moved
    <2>7. \A h \in VM : ForSend(p, h)' = 0 /\ ForBrackets(p, h)' = 0 /\ ForCell(p, h)' = 0
      BY <2>3 DEF ForSend, ForBrackets, ForCell
    <2>8. ShapeOf(p)'
      <3>1. pc'[p] # "requireLock" /\ ~locked'[p]
        BY <2>1, <2>3 DEF ShapeOf, Requiring
      <3> QED
        BY <2>3, <3>1 DEF ShapeOf
    <2> QED
      BY <2>5, <2>6, <2>7, <2>8 DEF OwnHeld, HeldOf, Moved
  <1>3. CASE SendCheck(p) \/ SendStore(p)
    <2>1. /\ pc[p] \in {"sendCheck", "sendStore"} /\ pc'[p] \in {"sendLockAgain", "sendStore", "idle"}
          /\ locked' = locked /\ UNCHANGED lockVars
      BY <1>0, <1>3 DEF SendCheck, SendStore, Return, callVars
    <2>2. Outside(pc[p]) /\ Outside(pc'[p])
      BY <2>1 DEF Outside, ItemSteps, Unlocks
    <2> QED
      BY <1>0, <2>1, <2>2, BetweenHeld
  <1> QED
    BY <1>1, <1>2, <1>3 DEF SendStep

LEMMA LifeHeld ==
  ASSUME CountInv, NEW p \in VM, ShapeOf(p), HeldOf(p), LifeStep(p)
  PROVE  OwnHeld(p)
  <1>0. TypeInv /\ pc \in [VM -> PC]
    BY LifeTypes DEF CountInv
  <1>1. pc[p] \in LifeSteps /\ locked' = locked /\ UNCHANGED lockVars
    BY DEF LifeStep, ForkRead, ForkWrite, ForkStart, ForkFails, StopRead, StopWrite,
           StopInactive, LifeSteps, callVars
  <1>2. pc'[p] \in LifeSteps \cup {"idle", "stopped"}
    <2>1. CASE ForkRead(p) \/ ForkWrite(p) \/ ForkFails(p) \/ StopRead(p) \/ StopWrite(p)
      BY <1>0, <2>1 DEF ForkRead, ForkWrite, ForkFails, StopRead, StopWrite, LifeSteps
    <2>2. CASE ForkStart(p) \/ StopInactive(p)
      BY <1>0, <2>2 DEF ForkStart, StopInactive
    <2> QED
      BY <2>1, <2>2 DEF LifeStep
  <1>3. Outside(pc[p]) /\ Outside(pc'[p])
    BY <1>1, <1>2 DEF Outside, ItemSteps, LifeSteps, Unlocks
  <1> QED
    BY <1>0, <1>1, <1>3, BetweenHeld

LEMMA StartHeld ==
  ASSUME CountInv, NEW p \in VM, ShapeOf(p), HeldOf(p), Start(p)
  PROVE  OwnHeld(p)
  <1>0. /\ TypeInv /\ pc \in [VM -> PC] /\ FormOf(p) /\ DOMAIN after = VM /\ DOMAIN code = VM
        /\ DOMAIN peer = VM
    BY DEF CountInv, TypeInv, TypeOK, WellFormed
  <1>1. pc[p] = "idle" /\ locked' = locked /\ UNCHANGED lockVars
    BY DEF Start, Allocate, Peek, MakeCData, ForceGC, BigOperation, SendStart, Fork, Stop, Begin
  <1>2. Outside(pc[p]) /\ after[p] = "idle" /\ Moved(p, p, 0)
    BY <1>0, <1>1, SameHeld DEF Outside, ItemSteps, Unlocks, FormOf, Resting
  <1>3. ASSUME after' = after, pc'[p] = "run", ShapeIn("own", p, code'[p]), OpenIn("own", code'[p]) = 0
        PROVE  OwnHeld(p)
    <2>1. Mode(p)' = "own" /\ Target(p)' = p /\ ~Copying(p)'
      BY <1>2, <1>3 DEF Mode, Target, Copying
    <2> QED
      BY <1>0, <1>1, <1>2, <1>3, <2>1, BeginHeld
  <1>4. ASSUME NEW n, Allocate(p, n) PROVE OwnHeld(p)
    <2>1. after' = after /\ pc'[p] = "run" /\ code'[p] = <<Cell(p, n, FALSE)>>
      BY <1>0, <1>4 DEF Allocate, Begin
    <2>2. ShapeIn("own", p, <<Cell(p, n, FALSE)>>) /\ OpenIn("own", <<Cell(p, n, FALSE)>>) = 0
      BY CellBegins
    <2> QED
      BY <1>3, <2>1, <2>2
  <1>5. CASE BigOperation(p)
    <2>1. PICK c : c = <<RequireAlloc(p)>> \o MakeBig(p, p) \o <<DoneAlloc(p)>>
      OBVIOUS
    <2>2. after' = after /\ pc'[p] = "run" /\ code'[p] = c /\ p \in BigCalls
      BY <1>0, <1>5, <2>1 DEF BigOperation, Begin
    <2>3. ShapeIn("own", p, c) /\ OpenIn("own", c) = 0
      BY <2>1, <2>2, OwnBegins
    <2> QED
      BY <1>3, <2>2, <2>3
  <1>6. ASSUME NEW c \in VM, Fork(p, c) PROVE OwnHeld(p)
    <2>1. after'[p] = "forkRead" /\ pc'[p] = "run" /\ code'[p] = CopyTo(p, c, "small")
          /\ peer'[p] = c
      BY <1>0, <1>6 DEF Fork, Begin
    <2>2. Mode(p)' = "cells" /\ Target(p)' = c /\ ~Copying(p)'
      BY <2>1 DEF Mode, Target, Copying
    <2>3. ShapeIn("cells", c, CopyTo(p, c, "small")) /\ OpenIn("cells", CopyTo(p, c, "small")) = 0
      BY CopyBegins DEF Kinds
    <2> QED
      BY <1>0, <1>1, <1>2, <2>1, <2>2, <2>3, BeginHeld
  <1>7. CASE Stop(p) \/ \E q \in VM, k \in Kinds : SendStart(p, q, k)
    <2>1. pc'[p] \in {"stopRead", "sendLock"}
      BY <1>0, <1>7 DEF Stop, SendStart
    <2>2. Outside(pc'[p])
      BY <2>1 DEF Outside, ItemSteps, Unlocks
    <2> QED
      BY <1>0, <1>1, <1>2, <2>2, BetweenHeld
  <1>8. CASE Peek(p) \/ MakeCData(p) \/ ForceGC(p)
    <2>1. PICK c \in {<<Cell(p, 2, TRUE)>>, <<Insert(p), Cell(p, 1, FALSE)>>, <<Collection(p)>>} :
            after' = after /\ pc'[p] = "run" /\ code'[p] = c
      BY <1>0, <1>8 DEF Peek, MakeCData, ForceGC, Begin
    <2>2. ShapeIn("own", p, c) /\ OpenIn("own", c) = 0
      BY BareBegins
    <2> QED
      BY <1>3, <2>1, <2>2
  <1> QED
    BY <1>4, <1>5, <1>6, <1>7, <1>8 DEF Start

LEMMA DanglingHeld ==
  ASSUME TypeInv, HeldInv, UNCHANGED <<pc, callVars, lockVars, vmVars>>
  PROVE  HeldInv'
  <1> SUFFICES ASSUME NEW q \in VM PROVE ShapeOf(q)' /\ HeldOf(q)'
    BY DEF HeldInv
  <1>1. Unmoved(q)
    BY DEF Unmoved, callVars, lockVars, vmVars, Held
  <1> QED
    BY <1>1, OtherHeld DEF HeldInv

LEMMA NextHeld ==
  ASSUME ChildrenStay, CountSafe, CountSafe', HeldInv, [Next \/ Finished]_vars
  PROVE  HeldInv'
  <1>0. CountInv /\ TypeInv
    BY DEF CountSafe, CountInv
  <1>1. CASE Finished \/ UNCHANGED vars
    BY <1>0, <1>1, DanglingHeld DEF Finished, vars
  <1>2. ASSUME NEW p \in VM, Start(p) \/ Step(p), ~Dangling(p) PROVE HeldInv'
    <2>1. ShapeOf(p) /\ HeldOf(p)
      BY DEF HeldInv
    <2>2. OwnHeld(p)
      <3>1. CASE Start(p)
        BY <1>0, <2>1, <3>1, StartHeld
      <3>2. CASE AllocStep(p)
        BY <1>0, <2>1, <3>2, AllocHeld
      <3>3. CASE BracketStep(p)
        BY <1>0, <2>1, <3>3, RequireHeld, BracketHeld, EndHeld DEF BracketStep
      <3>4. CASE SendStep(p)
        BY <1>0, <2>1, <3>4, SendHeld
      <3>5. CASE LifeStep(p)
        BY <1>0, <2>1, <3>5, LifeHeld
      <3>6. CASE CollectStep(p)
        BY <1>0, <2>1, <3>6, CollectHeld
      <3> QED
        BY <1>2, <3>1, <3>2, <3>3, <3>4, <3>5, <3>6 DEF Step
    <2>3. \A q, h \in VM : q # p => Held(q, h)' = Held(q, h)
      BY <2>2 DEF OwnHeld
    <2>4. \A q \in VM : q # p => ShapeOf(q)' /\ HeldOf(q)'
      BY <1>2, <2>3, OthersHeld
    <2> QED
      BY <2>2, <2>4 DEF OwnHeld, HeldInv
  <1>3. ASSUME NEW p \in VM, Dangling(p) PROVE HeldInv'
    BY <1>0, <1>3, DanglingHeld DEF Dangling
  <1> QED
    BY <1>1, <1>2, <1>3 DEF Next

LEMMA InitHeld == Init => HeldInv
  <1> SUFFICES ASSUME Init, NEW p \in VM PROVE ShapeOf(p) /\ HeldOf(p)
    BY DEF HeldInv
  <1>1. /\ pc[p] \in {"idle", "unborn"} /\ ~locked[p]
        /\ \A h \in VM : holder[h] = NoVM /\ depth[h] = 0
    BY DEF Init
  <1>2. pc[p] \notin ItemSteps /\ pc[p] \notin Allocating \cup Requiring \cup Looked \cup Unlocks
        /\ pc[p] # "requireLock"
    BY <1>1 DEF ItemSteps, Allocating, Requiring, Looked, Unlocks
  <1>3. ShapeOf(p)
    BY <1>1, <1>2 DEF ShapeOf
  <1>4. \A h \in VM : Held(p, h) = 0 /\ ForSend(p, h) = 0 /\ ForBrackets(p, h) = 0
                      /\ ForCell(p, h) = 0
    BY <1>1, <1>2 DEF Held, ForSend, ForBrackets, ForCell
  <1> QED
    BY <1>3, <1>4 DEF HeldOf

\* Between two calls a thread holds no alloc_lock: what idris_requireAlloc and
\* iallocate took, idris_doneAlloc and iallocate have given back, although each
\* of them looks at processes anew - as long as no VM that makes big integers,
\* or is sent some, has a child that comes to its end.  (If one has, the lock
\* may be lost: the counter falls to zero between the two calls.)
THEOREM LocksGivenBack ==
  ASSUME ChildrenStay
  PROVE  Spec => []LockGivenBack
  <1>1. CountSafe /\ HeldInv => LockGivenBack
    <2> SUFFICES ASSUME CountSafe, HeldInv, NEW p \in VM, NEW h \in VM,
                        pc[p] \in {"idle", "stopped"}
                 PROVE  holder[h] # p
      BY DEF LockGivenBack
    <2>1. Outside(pc[p]) /\ ShapeOf(p) /\ HeldOf(p)
      BY DEF HeldInv, Outside, ItemSteps, Unlocks
    <2>2. Held(p, h) = 0
      BY <2>1, OutsideHeld
    <2>3. holder[h] = NoVM <=> depth[h] = 0
      BY DEF CountSafe, CountInv, TypeInv, WellFormed, LocksForm
    <2> QED
      BY <2>2, <2>3, RootAssumption DEF Held
  <1>2. Spec => []CountSafe
    BY Counting
  <1>3. CountSafe /\ CountSafe' /\ HeldInv /\ [Next \/ Finished]_vars => HeldInv'
    BY NextHeld
  <1> QED
    BY <1>1, <1>2, <1>3, InitHeld, PTL DEF Spec

=============================================================================
