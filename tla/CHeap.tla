------------------------------- MODULE CHeap -------------------------------
(***************************************************************************)
(* The C heap of a VM (rts/idris_heap.c): a doubly linked list of items    *)
(* with finalizers, one list per VM.  The collector of a VM marks the      *)
(* items it finds in CDataC cells and then sweeps its own list.  Items are *)
(* shared: a message copies the cell, and the item stays in the list of    *)
(* the VM that created it.                                                 *)
(*                                                                         *)
(* One thread runs per VM; a sweep is taken item by item, so that the      *)
(* threads interleave where they touch the same items.  A cell that no     *)
(* root reaches is no cell here, and the collection of a VM finds all      *)
(* others.                                                                 *)
(***************************************************************************)
EXTENDS Integers, FiniteSets

CONSTANTS VMs, Items,
          NULL,
          ItemSize,      \* Items -> Nat
          SmallHeap,     \* 2048: up to this size the trigger is MinTrigger
          MinTrigger     \* 4096

\* A prev_next pointer: &heap->first of a VM or &next of an item.
FirstOf(v) == <<"first", v>>
NextOf(i)  == <<"next", i>>
Pointers == {FirstOf(v) : v \in VMs} \cup {NextOf(i) : i \in Items}

ASSUME CHeapAssumption ==
    /\ NULL \notin VMs \cup Items \cup Pointers
    /\ ItemSize \in [Items -> Nat]
    /\ SmallHeap \in Nat /\ MinTrigger \in Nat
ASSUME ItemsAssumption == IsFiniteSet(Items)

VARIABLES
    first,      \* CHeap.first of each VM
    size,       \* CHeap.size
    trigger,    \* CHeap.gc_trigger_size
    next,       \* CHeapItem.next
    prevNext,   \* CHeapItem.prev_next: whose next-pointer points to the item
    isUsed,     \* CHeapItem.is_used
    memory,     \* "none", "allocated" or "freed": the item itself
    finalized,  \* history: how often its finalizer ran (2 stands for more)
    owner,      \* history: the VM that inserted the item
    order,      \* history: when it was inserted, counted by clock
    clock,
    cells,      \* the items in CDataC cells that a root of the VM reaches
    pc,         \* what the thread of the VM does
    item,       \* its argument of mkcdata
    sweepP,     \* p of c_heap_sweep
    back        \* where idris_gc was called, and where it returns to

history == <<owner, order, clock>>
listVars == <<first, size, trigger, next, prevNext, isUsed, memory, finalized, history>>
threadVars == <<cells, pc, item, sweepP, back>>
vars == <<first, size, trigger, next, prevNext, isUsed, memory, finalized, owner, order, clock,
          cells, pc, item, sweepP, back>>

C_HEAP_GC_TRIGGER_SIZE(n) == IF n < SmallHeap THEN MinTrigger ELSE 2 * n

Goto(v, label) == pc' = [pc EXCEPT ![v] = label]
At(v, label) == pc[v] = label

Init == /\ first = [v \in VMs |-> NULL]
        /\ size = [v \in VMs |-> 0]
        /\ trigger = [v \in VMs |-> C_HEAP_GC_TRIGGER_SIZE(0)]
        /\ next = [i \in Items |-> NULL]
        /\ prevNext = [i \in Items |-> NULL]
        /\ isUsed = [i \in Items |-> FALSE]
        /\ memory = [i \in Items |-> "none"]
        /\ finalized = [i \in Items |-> 0]
        /\ owner = [i \in Items |-> NULL]
        /\ order = [i \in Items |-> 0]
        /\ clock = 0
        /\ cells = [v \in VMs |-> {}]
        /\ pc = [v \in VMs |-> "run"]
        /\ item = [v \in VMs |-> NULL]
        /\ sweepP = [v \in VMs |-> NULL]
        /\ back = [v \in VMs |-> "run"]

----------------------------------------------------------------------------
(* The program.                                                            *)

\* A C function returns an item it made with cdata_allocate or cdata_manage.
Create(v, i) ==
    /\ At(v, "run")
    /\ memory[i] = "none"
    /\ memory' = [memory EXCEPT ![i] = "allocated"]
    /\ isUsed' = [isUsed EXCEPT ![i] = FALSE]
    /\ next' = [next EXCEPT ![i] = NULL]
    /\ prevNext' = [prevNext EXCEPT ![i] = NULL]
    /\ item' = [item EXCEPT ![v] = i]
    /\ Goto(v, "insert")
    /\ UNCHANGED <<first, size, trigger, finalized, history, cells, sweepP, back>>

\* A C function returns an item that it was given.
Wrap(v, i) ==
    /\ At(v, "run")
    /\ i \in cells[v]
    /\ memory[i] = "allocated"
    /\ item' = [item EXCEPT ![v] = i]
    /\ Goto(v, "insert")
    /\ UNCHANGED <<listVars, cells, sweepP, back>>

\* The last reference of the program is gone.
Drop(v, i) ==
    /\ At(v, "run")
    /\ i \in cells[v]
    /\ cells' = [cells EXCEPT ![v] = @ \ {i}]
    /\ UNCHANGED <<listVars, pc, item, sweepP, back>>

\* doCopyTo: the item is in a list already, so the receiver gets a cell only.
\* (Under the alloc_lock of the receiver, who is not collecting then: what
\* happens where it collects without that lock is in HeapSharing.)
Send(v, w, i) ==
    /\ v # w
    /\ At(v, "run")
    /\ pc[w] \in {"run", "insert", "allocate"}
    /\ i \in cells[v]
    /\ memory[i] = "allocated"
    /\ cells' = [cells EXCEPT ![w] = @ \cup {i}]
    /\ UNCHANGED <<listVars, pc, item, sweepP, back>>

----------------------------------------------------------------------------
(* mkcdata: c_heap_insert_if_needed, then iallocate for the cell.          *)

NeverInserted(i) == FALSE     \* mutant of AlreadyInserted
AlreadyInserted(i) == prevNext[i] # NULL

\* Mutant of Linked: the size is not added.
LinkedUncounted(v, i) ==
    /\ prevNext' = [j \in Items |-> IF j = i THEN FirstOf(v)
                                    ELSE IF j = first[v] THEN NextOf(i) ELSE prevNext[j]]
    /\ next' = [next EXCEPT ![i] = first[v]]
    /\ first' = [first EXCEPT ![v] = i]
    /\ size' = size
Linked(v, i) ==
    /\ prevNext' = [j \in Items |-> IF j = i THEN FirstOf(v)
                                    ELSE IF j = first[v] THEN NextOf(i) ELSE prevNext[j]]
    /\ next' = [next EXCEPT ![i] = first[v]]
    /\ first' = [first EXCEPT ![v] = i]
    /\ size' = [size EXCEPT ![v] = @ + ItemSize[i]]

\* is_used = true, "don't collect what we're inserting"; its mutant forgets it.
Unprotected(i, full) == isUsed[i]
Protected(i, full) == isUsed[i] \/ full

Insert(v) ==
    LET i == item[v]
        full == size[v] + ItemSize[i] >= trigger[v]
    IN  /\ At(v, "insert")
        /\ ~AlreadyInserted(i)
        /\ Linked(v, i)
        /\ isUsed' = [isUsed EXCEPT ![i] = Protected(i, full)]
        /\ owner' = [owner EXCEPT ![i] = v]
        /\ order' = [order EXCEPT ![i] = clock + 1]
        /\ clock' = clock + 1
        /\ Goto(v, IF full THEN "mark" ELSE "allocate")
        /\ back' = [back EXCEPT ![v] = "insert"]
        /\ UNCHANGED <<trigger, memory, finalized, cells, item, sweepP>>

InsertedBefore(v) ==
    /\ At(v, "insert")
    /\ AlreadyInserted(item[v])
    /\ Goto(v, "allocate")
    /\ UNCHANGED <<listVars, cells, item, sweepP, back>>

\* No room: idris_gc, then iallocate again.
AllocateCollects(v) ==
    /\ At(v, "allocate")
    /\ back' = [back EXCEPT ![v] = "allocate"]
    /\ Goto(v, "mark")
    /\ UNCHANGED <<listVars, cells, item, sweepP>>

Allocate(v) ==
    /\ At(v, "allocate")
    /\ cells' = [cells EXCEPT ![v] = @ \cup {item[v]}]
    /\ item' = [item EXCEPT ![v] = NULL]
    /\ Goto(v, "run")
    /\ UNCHANGED <<listVars, sweepP, back>>

----------------------------------------------------------------------------
(* idris_gc.                                                               *)

\* Any other allocation finds the heap full.
Collect(v) ==
    /\ At(v, "run")
    /\ back' = [back EXCEPT ![v] = "run"]
    /\ Goto(v, "mark")
    /\ UNCHANGED <<listVars, cells, item, sweepP>>

\* copy: c_heap_mark_item for every cell it copies.
Mark(v) ==
    /\ At(v, "mark")
    /\ isUsed' = [i \in Items |-> isUsed[i] \/ (i \in cells[v] /\ memory[i] = "allocated")]
    /\ sweepP' = [sweepP EXCEPT ![v] = first[v]]
    /\ Goto(v, "sweep")
    /\ UNCHANGED <<first, size, trigger, next, prevNext, memory, finalized, history,
                   cells, item, back>>

\* Mutant of Unlinked: the next item keeps its prev_next.
UnlinkedForwards(i) ==
    /\ prevNext' = prevNext
    /\ first' = [v \in VMs |-> IF prevNext[i] = FirstOf(v) THEN next[i] ELSE first[v]]
    /\ next' = [j \in Items |-> IF prevNext[i] = NextOf(j) THEN next[i] ELSE next[j]]
Unlinked(i) ==
    /\ prevNext' = [j \in Items |-> IF j = next[i] THEN prevNext[i] ELSE prevNext[j]]
    /\ first' = [v \in VMs |-> IF prevNext[i] = FirstOf(v) THEN next[i] ELSE first[v]]
    /\ next' = [j \in Items |-> IF prevNext[i] = NextOf(j) THEN next[i] ELSE next[j]]

AtLeast(n) == IF n > 2 THEN 2 ELSE n

c_heap_free_item(v, i) ==
    /\ Unlinked(i)
    /\ size' = [size EXCEPT ![v] = @ - ItemSize[i]]
    /\ finalized' = [finalized EXCEPT ![i] = AtLeast(@ + 1)]
    /\ memory' = [memory EXCEPT ![i] = "freed"]

\* Mutant of SweepKeeps: the mark stays.
SweepKeepsMark(v) ==
    LET i == sweepP[v]
    IN  /\ At(v, "sweep")
        /\ i # NULL
        /\ isUsed[i]
        /\ sweepP' = [sweepP EXCEPT ![v] = next[i]]
        /\ UNCHANGED <<listVars, cells, pc, item, back>>
SweepKeeps(v) ==
    LET i == sweepP[v]
    IN  /\ At(v, "sweep")
        /\ i # NULL
        /\ isUsed[i]
        /\ isUsed' = [isUsed EXCEPT ![i] = FALSE]
        /\ sweepP' = [sweepP EXCEPT ![v] = next[i]]
        /\ UNCHANGED <<first, size, trigger, next, prevNext, memory, finalized, history,
                       cells, pc, item, back>>

SweepFrees(v) ==
    LET i == sweepP[v]
    IN  /\ At(v, "sweep")
        /\ i # NULL
        /\ ~isUsed[i]
        /\ sweepP' = [sweepP EXCEPT ![v] = next[i]]
        /\ c_heap_free_item(v, i)
        /\ UNCHANGED <<trigger, isUsed, history, cells, pc, item, back>>

SweepEnds(v) ==
    /\ At(v, "sweep")
    /\ sweepP[v] = NULL
    /\ trigger' = [trigger EXCEPT ![v] = C_HEAP_GC_TRIGGER_SIZE(size[v])]
    /\ Goto(v, IF back[v] = "insert" THEN "allocate" ELSE back[v])
    /\ UNCHANGED <<first, size, next, prevNext, isUsed, memory, finalized, history,
                   cells, item, sweepP, back>>

----------------------------------------------------------------------------
(* terminate: free_heap, then c_heap_destroy.                              *)

Stop(v) ==
    /\ At(v, "run")
    /\ cells' = [cells EXCEPT ![v] = {}]
    /\ Goto(v, "destroy")
    /\ UNCHANGED <<listVars, item, sweepP, back>>

DestroyOne(v) ==
    /\ At(v, "destroy")
    /\ first[v] # NULL
    /\ c_heap_free_item(v, first[v])
    /\ UNCHANGED <<trigger, isUsed, history, cells, pc, item, sweepP, back>>

DestroyEnds(v) ==
    /\ At(v, "destroy")
    /\ first[v] = NULL
    /\ Goto(v, "stopped")
    /\ UNCHANGED <<listVars, cells, item, sweepP, back>>

Thread(v) == \/ Insert(v) \/ InsertedBefore(v) \/ AllocateCollects(v) \/ Allocate(v)
             \/ Mark(v) \/ SweepKeeps(v) \/ SweepFrees(v) \/ SweepEnds(v)
             \/ DestroyOne(v) \/ DestroyEnds(v)

Next == \E v \in VMs :
    \/ \E i \in Items : Create(v, i) \/ Wrap(v, i) \/ Drop(v, i)
    \/ \E w \in VMs, i \in Items : Send(v, w, i)
    \/ Collect(v) \/ Stop(v)
    \/ Thread(v)

Spec == Init /\ [][Next]_vars

\* A thread goes on with what it has begun, and the program never stops
\* allocating: it collects again and again, until it ends.
FairSpec == /\ Spec
            /\ \A v \in VMs : WF_vars(Thread(v)) /\ SF_vars(Collect(v))

----------------------------------------------------------------------------
(* Properties.                                                             *)

ItemOrNull == Items \cup {NULL}

\* Pointers are to items or NULL, prev_next is a place where a next-pointer or
\* the head of a list is, and no finalizer has run a second time.
TypeOK ==
    /\ first \in [VMs -> ItemOrNull]
    /\ size \in [VMs -> Int]
    /\ trigger \in [VMs -> Int]
    /\ next \in [Items -> ItemOrNull]
    /\ prevNext \in [Items -> Pointers \cup {NULL}]
    /\ isUsed \in [Items -> BOOLEAN]
    /\ memory \in [Items -> {"none", "allocated", "freed"}]
    /\ finalized \in [Items -> 0 .. 1]
    /\ owner \in [Items -> VMs \cup {NULL}]
    /\ order \in [Items -> Nat]
    /\ clock \in Nat
    /\ cells \in [VMs -> SUBSET Items]
    /\ pc \in [VMs -> {"run", "insert", "allocate", "mark", "sweep", "destroy", "stopped"}]
    /\ item \in [VMs -> ItemOrNull]
    /\ sweepP \in [VMs -> ItemOrNull]
    /\ back \in [VMs -> {"run", "insert", "allocate"}]

\* In a list: allocated, and inserted.
InList(i) == memory[i] = "allocated" /\ prevNext[i] # NULL

\* c_heap_insert_if_needed and c_heap_free_item rewrite up to four pointers.
\* Between two steps every pointer of a list has its counterpart: the next
\* pointer that prev_next names points back, no list reaches an item whose
\* memory was freed or that another VM inserted, a list runs from the last
\* item inserted to the first (so it has no cycle), and a sweep that is under
\* way, while other VMs sweep theirs, stands on an item of its list.
HeadLinked(v) ==
    first[v] # NULL => /\ InList(first[v])
                       /\ owner[first[v]] = v
                       /\ prevNext[first[v]] = FirstOf(v)
NextLinked(i) ==
    next[i] # NULL => /\ InList(next[i])
                      /\ owner[next[i]] = owner[i]
                      /\ order[next[i]] < order[i]
                      /\ prevNext[next[i]] = NextOf(i)
PrevLinked(i) ==
    /\ \A v \in VMs : prevNext[i] = FirstOf(v) => first[v] = i
    /\ \A j \in Items : prevNext[i] = NextOf(j) => InList(j) /\ next[j] = i
SweepInList(v) ==
    At(v, "sweep") /\ sweepP[v] # NULL => InList(sweepP[v]) /\ owner[sweepP[v]] = v

Links == /\ \A v \in VMs : HeadLinked(v) /\ SweepInList(v)
         /\ \A i \in Items : InList(i) => NextLinked(i) /\ PrevLinked(i)

\* The items that are reached from first.
Listed(v) ==
    LET after[n \in 0 .. Cardinality(Items)] ==
          IF n = 0 THEN {first[v]} \ {NULL}
          ELSE LET s == after[n - 1] IN s \cup ({next[i] : i \in s} \ {NULL})
    IN  after[Cardinality(Items)]

SumOfSizes(S) ==
    LET f[T \in SUBSET S] == IF T = {} THEN 0
                             ELSE LET i == CHOOSE j \in T : TRUE IN ItemSize[i] + f[T \ {i}]
    IN  f[S]

\* Every item that was inserted and not freed is reached from the head of
\* the list of its VM, and the size of a heap is that of its items: the
\* assertion of c_heap_free_item and the trigger depend on it.
ListsComplete ==
    /\ \A v \in VMs : Listed(v) = {i \in Items : InList(i) /\ owner[i] = v}
    /\ \A v \in VMs : size[v] = SumOfSizes(Listed(v))

\* A finalizer runs once, and before the item is given back.
FinalizedOnce == \A i \in Items : finalized[i] = IF memory[i] = "freed" THEN 1 ELSE 0

\* "don't collect what we're inserting" (idris_heap.c:62): no collection
\* frees an item that its own insertion started it for, nor one that the VM
\* which has it in its list has a cell of, whatever marks the collector of
\* another VM leaves behind or finds.
InUse(v, i) == /\ InList(i)
               /\ owner[i] = v
               /\ i \in cells[v] \/ (item[v] = i /\ back[v] = "insert")
OwnItemsKept ==
    [][\A v \in VMs, i \in Items : InUse(v, i) => memory'[i] = "allocated"]_vars

\* The same for the whole of mkcdata.
HandedOverKept == \A v \in VMs : At(v, "allocate") => memory[item[v]] = "allocated"

\* And for the VMs that were sent the item.
SentItemsKept ==
    \A v \in VMs : \A i \in cells[v] : owner[i] # v => memory[i] = "allocated"

\* A program that goes on allocating finalizes what it dropped.
GarbageFinalized ==
    \A i \in Items :
        (InList(i) /\ \A v \in VMs : i \notin cells[v] /\ item[v] # i) ~> (memory[i] = "freed")

=============================================================================
