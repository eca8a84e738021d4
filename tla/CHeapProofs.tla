---------------------------- MODULE CHeapProofs ----------------------------
(***************************************************************************)
(* Proofs about CHeap, for any VMs, items and sizes: the list of every VM  *)
(* stays linked both ways and free of cycles whatever the threads do in    *)
(* between, it holds all items that were inserted and not freed, the size  *)
(* of a heap is the sum of theirs, and no finalizer runs twice.            *)
(***************************************************************************)
EXTENDS CHeap, LeastElements

----------------------------------------------------------------------------
(* The inductive invariant.                                                *)

\* prev_next is NULL exactly until the item is inserted, and an item that is
\* about to be inserted was created.
Fresh ==
    /\ \A i \in Items : memory[i] = "none" => prevNext[i] = NULL
    /\ \A i \in Items : memory[i] = "freed" => prevNext[i] # NULL
    /\ \A v \in VMs : At(v, "insert") => item[v] \in Items /\ memory[item[v]] # "none"

\* mkcdata has an item until its cell is made.
HasItem == \A v \in VMs : \/ At(v, "allocate")
                          \/ pc[v] \in {"mark", "sweep"} /\ back[v] # "run"
                          => item[v] \in Items

Counted == \A i \in Items : order[i] <= clock

\* What a sweep has before it is marked if its VM uses it.
Marked ==
    /\ \A v \in VMs : At(v, "mark") /\ back[v] = "insert" /\ item[v] \in Items
                      => /\ isUsed[item[v]] /\ owner[item[v]] = v
                         /\ memory[item[v]] # "none" /\ prevNext[item[v]] # NULL
    /\ \A v \in VMs, i \in Items :
          At(v, "sweep") /\ sweepP[v] # NULL /\ InUse(v, i) /\ order[i] <= order[sweepP[v]]
          => isUsed[i]
    /\ \A v \in VMs : \/ pc[v] \in {"run", "destroy", "stopped"}
                      \/ pc[v] \in {"mark", "sweep"} /\ back[v] = "run"
                      => item[v] = NULL
    /\ \A v \in VMs : pc[v] \in {"destroy", "stopped"} => cells[v] = {}

IInv == TypeOK /\ Links /\ Fresh /\ HasItem /\ Counted /\ FinalizedOnce

----------------------------------------------------------------------------
(* Helpers.                                                                *)

\* A pointer names the head of one list or one item.
LEMMA PointersDiffer ==
    ASSUME NEW v \in VMs, NEW w \in VMs, NEW i \in Items, NEW j \in Items
    PROVE  /\ FirstOf(v) = FirstOf(w) => v = w
           /\ NextOf(i) = NextOf(j) => i = j
           /\ FirstOf(v) # NextOf(i)
           /\ FirstOf(v) \in Pointers /\ NextOf(i) \in Pointers
           /\ FirstOf(v) # NULL /\ NextOf(i) # NULL
  BY CHeapAssumption DEF FirstOf, NextOf, Pointers

LEMMA NullIsNone == NULL \notin Items /\ NULL \notin VMs
  BY CHeapAssumption

LEMMA TriggerIsInt == \A n \in Int : C_HEAP_GC_TRIGGER_SIZE(n) \in Int
  BY CHeapAssumption DEF C_HEAP_GC_TRIGGER_SIZE

----------------------------------------------------------------------------
(* c_heap_free_item: taking an item out of its list keeps all lists.       *)

LEMMA FreeKeepsTypes ==
    ASSUME TypeOK, FinalizedOnce, NEW v \in VMs, NEW i \in Items, InList(i),
           c_heap_free_item(v, i)
    PROVE  /\ first' \in [VMs -> ItemOrNull]
           /\ next' \in [Items -> ItemOrNull]
           /\ prevNext' \in [Items -> Pointers \cup {NULL}]
           /\ size' \in [VMs -> Int]
           /\ memory' \in [Items -> {"none", "allocated", "freed"}]
           /\ finalized' \in [Items -> 0 .. 1]
           /\ FinalizedOnce'
<1>1. first' \in [VMs -> ItemOrNull]
  BY DEF TypeOK, c_heap_free_item, Unlinked
<1>2. next' \in [Items -> ItemOrNull]
  BY DEF TypeOK, c_heap_free_item, Unlinked
<1>3. prevNext' \in [Items -> Pointers \cup {NULL}]
  BY DEF TypeOK, c_heap_free_item, Unlinked
<1>4. size' \in [VMs -> Int]
  <2>1. ItemSize[i] \in Nat /\ size[v] - ItemSize[i] \in Int
    BY CHeapAssumption DEF TypeOK
  <2> QED
    BY <2>1 DEF TypeOK, c_heap_free_item
<1>5. memory' \in [Items -> {"none", "allocated", "freed"}]
  BY DEF TypeOK, c_heap_free_item
<1>6. finalized[i] = 0
  BY DEF FinalizedOnce, InList
<1>7. finalized' \in [Items -> 0 .. 1] /\ FinalizedOnce'
  BY <1>6 DEF TypeOK, c_heap_free_item, FinalizedOnce, AtLeast
<1> QED
  BY <1>1, <1>2, <1>3, <1>4, <1>5, <1>7

\* The pointers of the lists after i was taken out of the list of v.
LEMMA FreeKeepsLists ==
    ASSUME TypeOK, Links, NEW v \in VMs, NEW i \in Items, InList(i), owner[i] = v,
           c_heap_free_item(v, i), UNCHANGED history
    PROVE  /\ \A w \in VMs : HeadLinked(w)'
           /\ \A j \in Items : InList(j)' => NextLinked(j)' /\ PrevLinked(j)'
           /\ \A j \in Items : InList(j)' <=> InList(j) /\ j # i
<1> USE NullIsNone DEF c_heap_free_item, Unlinked, history
<1>1. /\ NextLinked(i) /\ PrevLinked(i)
      /\ next[i] # i
  BY DEF Links, NextLinked, TypeOK
<1>2. prevNext[i] \in Pointers /\ next[i] \in ItemOrNull
  BY DEF TypeOK, InList
<1>3. \A j \in Items : InList(j)' <=> InList(j) /\ j # i
  <2> TAKE j \in Items
  <2>1. memory'[j] = IF j = i THEN "freed" ELSE memory[j]
    BY DEF TypeOK
  <2>2. prevNext'[j] = IF j = next[i] THEN prevNext[i] ELSE prevNext[j]
    OBVIOUS
  <2>3. j = next[i] => InList(j)
    BY <1>1 DEF NextLinked
  <2> QED
    BY <2>1, <2>2, <2>3, <1>2, CHeapAssumption DEF InList
<1>4. ASSUME NEW w \in VMs PROVE HeadLinked(w)'
  <2>1. CASE prevNext[i] = FirstOf(w)
    <3>1. first'[w] = next[i]
      BY <2>1
    <3>2. CASE next[i] = NULL
      BY <3>1, <3>2 DEF HeadLinked
    <3>3. CASE next[i] # NULL
      <4>1. next[i] \in Items /\ InList(next[i]) /\ owner[next[i]] = owner[i]
        BY <1>1, <1>2, <3>3 DEF NextLinked, ItemOrNull
      <4>2. first[w] = i /\ owner[i] = w
        BY <1>1, <2>1, <1>2 DEF PrevLinked, Links, HeadLinked
      <4>3. prevNext'[next[i]] = FirstOf(w)
        BY <4>1, <2>1
      <4> QED
        BY <3>1, <4>1, <4>2, <4>3, <1>1, <1>3 DEF HeadLinked
    <3> QED
      BY <3>2, <3>3
  <2>2. CASE prevNext[i] # FirstOf(w)
    <3>1. first'[w] = first[w]
      BY <2>2
    <3>2. SUFFICES ASSUME first[w] # NULL
                   PROVE  HeadLinked(w)'
      BY <3>1 DEF HeadLinked
    <3>3. /\ first[w] \in Items /\ InList(first[w]) /\ owner[first[w]] = w
          /\ prevNext[first[w]] = FirstOf(w)
      BY <3>2 DEF Links, HeadLinked, TypeOK, ItemOrNull
    <3>4. first[w] # i
      BY <2>2, <3>3
    <3>5. first[w] # next[i]
      BY <3>3, <1>1, PointersDiffer, <3>2 DEF NextLinked
    <3> QED
      BY <3>1, <3>3, <3>4, <3>5, <1>3 DEF HeadLinked
  <2> QED
    BY <2>1, <2>2
<1>5. ASSUME NEW j \in Items, InList(j)' PROVE NextLinked(j)'
  <2>1. InList(j) /\ j # i /\ NextLinked(j) /\ PrevLinked(j)
    BY <1>3, <1>5 DEF Links
  <2>2. CASE prevNext[i] = NextOf(j)
    <3>1. next'[j] = next[i] /\ next[j] = i
      BY <2>2, <1>1 DEF PrevLinked
    <3>2. SUFFICES ASSUME next[i] # NULL
                   PROVE  NextLinked(j)'
      BY <3>1 DEF NextLinked
    <3>3. /\ next[i] \in Items /\ InList(next[i]) /\ owner[next[i]] = owner[i]
          /\ order[next[i]] < order[i] /\ prevNext'[next[i]] = NextOf(j)
      BY <1>1, <1>2, <3>2, <2>2 DEF NextLinked, ItemOrNull
    <3>4. owner[i] = owner[j] /\ order[i] < order[j]
      BY <3>1, <2>1 DEF NextLinked
    <3>5. order[next[i]] < order[j]
      BY <3>3, <3>4 DEF TypeOK
    <3> QED
      BY <3>1, <3>3, <3>4, <3>5, <1>1, <1>3 DEF NextLinked
  <2>3. CASE prevNext[i] # NextOf(j)
    <3>1. next'[j] = next[j]
      BY <2>3
    <3>2. SUFFICES ASSUME next[j] # NULL
                   PROVE  NextLinked(j)'
      BY <3>1 DEF NextLinked
    <3>3. /\ next[j] \in Items /\ InList(next[j]) /\ owner[next[j]] = owner[j]
          /\ order[next[j]] < order[j] /\ prevNext[next[j]] = NextOf(j)
      BY <2>1, <3>2 DEF NextLinked, TypeOK, ItemOrNull
    <3>4. next[j] # i
      BY <2>3, <3>3
    <3>5. next[j] # next[i]
      BY <3>3, <1>1, <2>1, <3>2, PointersDiffer DEF NextLinked
    <3> QED
      BY <3>1, <3>3, <3>4, <3>5, <1>3 DEF NextLinked
  <2> QED
    BY <2>2, <2>3
<1>6. ASSUME NEW j \in Items, InList(j)' PROVE PrevLinked(j)'
  <2>1. InList(j) /\ j # i /\ NextLinked(j) /\ PrevLinked(j)
    BY <1>3, <1>6 DEF Links
  <2>2. CASE j = next[i]
    <3>1. prevNext'[j] = prevNext[i]
      BY <2>2
    <3>2. ASSUME NEW w \in VMs, prevNext[i] = FirstOf(w) PROVE first'[w] = j
      BY <3>2, <2>2
    <3>3. ASSUME NEW k \in Items, prevNext[i] = NextOf(k) PROVE InList(k)' /\ next'[k] = j
      <4>1. InList(k) /\ next[k] = i
        BY <1>1, <3>3 DEF PrevLinked
      <4>2. k # i
        BY <4>1, <1>1
      <4> QED
        BY <4>1, <4>2, <3>3, <2>2, <1>3
    <3> QED
      BY <3>1, <3>2, <3>3 DEF PrevLinked
  <2>3. CASE j # next[i]
    <3>1. prevNext'[j] = prevNext[j]
      BY <2>3
    <3>2. ASSUME NEW w \in VMs, prevNext[j] = FirstOf(w) PROVE first'[w] = j
      <4>1. first[w] = j
        BY <2>1, <3>2 DEF PrevLinked
      <4>2. prevNext[i] # FirstOf(w)
        BY <4>1, <1>1, <2>1 DEF PrevLinked
      <4> QED
        BY <4>1, <4>2
    <3>3. ASSUME NEW k \in Items, prevNext[j] = NextOf(k) PROVE InList(k)' /\ next'[k] = j
      <4>1. InList(k) /\ next[k] = j
        BY <2>1, <3>3 DEF PrevLinked
      <4>2. k # i
        BY <4>1, <2>3
      <4>3. prevNext[i] # NextOf(k)
        BY <4>1, <1>1, <2>1 DEF PrevLinked
      <4> QED
        BY <4>1, <4>2, <4>3, <1>3
    <3> QED
      BY <3>1, <3>2, <3>3 DEF PrevLinked
  <2> QED
    BY <2>2, <2>3
<1> QED
  BY <1>3, <1>4, <1>5, <1>6

----------------------------------------------------------------------------
(* c_heap_insert_if_needed: linking a new item in front of the list.       *)

LEMMA InsertKeepsLists ==
    ASSUME TypeOK, Links, Counted, NEW v \in VMs, NEW i \in Items,
           memory[i] = "allocated", prevNext[i] = NULL, Linked(v, i),
           owner' = [owner EXCEPT ![i] = v],
           order' = [order EXCEPT ![i] = clock + 1],
           memory' = memory
    PROVE  /\ \A w \in VMs : HeadLinked(w)'
           /\ \A j \in Items : InList(j)' => NextLinked(j)' /\ PrevLinked(j)'
           /\ \A j \in Items : InList(j)' <=> InList(j) \/ j = i
<1> USE NullIsNone DEF Linked
<1>1. ~InList(i)
  BY DEF InList
<1>2. first[v] # NULL => /\ first[v] \in Items /\ InList(first[v]) /\ owner[first[v]] = v
                         /\ prevNext[first[v]] = FirstOf(v) /\ first[v] # i
  BY <1>1 DEF Links, HeadLinked, TypeOK, ItemOrNull
<1>3. /\ prevNext'[i] = FirstOf(v) /\ next'[i] = first[v]
      /\ first'[v] = i /\ owner'[i] = v /\ order'[i] = clock + 1
      /\ \A j \in Items \ {i} : /\ next'[j] = next[j] /\ owner'[j] = owner[j]
                               /\ order'[j] = order[j]
                               /\ prevNext'[j] = IF j = first[v] THEN NextOf(i)
                                                 ELSE prevNext[j]
      /\ \A w \in VMs \ {v} : first'[w] = first[w]
  BY DEF TypeOK
<1>4. \A j \in Items : InList(j)' <=> InList(j) \/ j = i
  BY <1>2, <1>3, PointersDiffer DEF InList
<1>5. \A j \in Items : order[j] < clock + 1
  BY DEF Counted, TypeOK
<1>6. ASSUME NEW w \in VMs PROVE HeadLinked(w)'
  <2>1. CASE w = v
    BY <2>1, <1>3, <1>4 DEF HeadLinked
  <2>2. CASE w # v
    <3>1. SUFFICES ASSUME first[w] # NULL
                   PROVE  HeadLinked(w)'
      BY <2>2, <1>3 DEF HeadLinked
    <3>2. /\ first[w] \in Items /\ InList(first[w]) /\ owner[first[w]] = w
          /\ prevNext[first[w]] = FirstOf(w)
      BY <3>1 DEF Links, HeadLinked, TypeOK, ItemOrNull
    <3>3. first[w] # i /\ first[w] # first[v]
      BY <3>2, <1>1, <1>2, <3>1, <2>2
    <3> QED
      BY <2>2, <3>2, <3>3, <1>3, <1>4 DEF HeadLinked
  <2> QED
    BY <2>1, <2>2
<1>7. ASSUME NEW j \in Items, InList(j)' PROVE NextLinked(j)'
  <2>1. CASE j = i
    <3>1. SUFFICES ASSUME first[v] # NULL
                   PROVE  NextLinked(j)'
      BY <2>1, <1>3 DEF NextLinked
    <3> QED
      BY <3>1, <2>1, <1>2, <1>3, <1>4, <1>5 DEF NextLinked
  <2>2. CASE j # i
    <3>1. InList(j) /\ NextLinked(j) /\ next'[j] = next[j]
      BY <2>2, <1>4, <1>7, <1>3 DEF Links
    <3>2. SUFFICES ASSUME next[j] # NULL
                   PROVE  NextLinked(j)'
      BY <3>1 DEF NextLinked
    <3>3. /\ next[j] \in Items /\ InList(next[j]) /\ owner[next[j]] = owner[j]
          /\ order[next[j]] < order[j] /\ prevNext[next[j]] = NextOf(j)
      BY <3>1, <3>2 DEF NextLinked, TypeOK, ItemOrNull
    <3>4. next[j] # i /\ next[j] # first[v]
      BY <3>3, <3>2, <1>1, <1>2, PointersDiffer
    <3> QED
      BY <2>2, <3>1, <3>3, <3>4, <1>3, <1>4 DEF NextLinked
  <2> QED
    BY <2>1, <2>2
<1>8. ASSUME NEW j \in Items, InList(j)' PROVE PrevLinked(j)'
  <2>1. CASE j = i
    BY <2>1, <1>3, PointersDiffer DEF PrevLinked
  <2>2. CASE j # i /\ j = first[v]
    <3>1. prevNext'[j] = NextOf(i) /\ next'[i] = j
      BY <2>2, <1>3
    <3> QED
      BY <3>1, <1>4, PointersDiffer DEF PrevLinked
  <2>3. CASE j # i /\ j # first[v]
    <3>1. InList(j) /\ PrevLinked(j) /\ prevNext'[j] = prevNext[j]
      BY <2>3, <1>4, <1>8, <1>3 DEF Links
    <3>2. ASSUME NEW w \in VMs, prevNext[j] = FirstOf(w) PROVE first'[w] = j
      <4>1. first[w] = j
        BY <3>1, <3>2 DEF PrevLinked
      <4> QED
        BY <4>1, <2>3, <1>3
    <3>3. ASSUME NEW k \in Items, prevNext[j] = NextOf(k) PROVE InList(k)' /\ next'[k] = j
      <4>1. InList(k) /\ next[k] = j
        BY <3>1, <3>3 DEF PrevLinked
      <4> QED
        BY <4>1, <1>1, <1>3, <1>4
    <3> QED
      BY <3>1, <3>2, <3>3 DEF PrevLinked
  <2> QED
    BY <2>1, <2>2, <2>3
<1> QED
  BY <1>4, <1>6, <1>7, <1>8

----------------------------------------------------------------------------
(* Every action.                                                           *)

\* A step that leaves the lists alone and creates nothing.
LEMMA SameLists ==
    ASSUME TypeOK, Links, Counted, FinalizedOnce,
           UNCHANGED <<first, next, prevNext, memory, finalized, history>>,
           \A v \in VMs : SweepInList(v)'
    PROVE  Links' /\ Counted' /\ FinalizedOnce'
<1>1. \A i \in Items : InList(i)' <=> InList(i)
  BY DEF InList
<1>2. \A v \in VMs : HeadLinked(v)'
  BY <1>1, NullIsNone DEF Links, HeadLinked, TypeOK, ItemOrNull, history
<1>3. \A i \in Items : InList(i) => NextLinked(i)'
  BY <1>1, NullIsNone DEF Links, NextLinked, TypeOK, ItemOrNull, history
<1>4. \A i \in Items : InList(i) => PrevLinked(i)'
  BY <1>1 DEF Links, PrevLinked
<1>5. Links'
  BY <1>1, <1>2, <1>3, <1>4 DEF Links
<1> QED
  BY <1>5 DEF Counted, FinalizedOnce, history

LEMMA SameSweep ==
    ASSUME Links, TypeOK, UNCHANGED <<prevNext, memory, owner, sweepP>>, NEW v \in VMs,
           At(v, "sweep")' => At(v, "sweep")
    PROVE  SweepInList(v)'
  BY DEF Links, SweepInList, InList

THEOREM InitIInv == Init => IInv
<1> SUFFICES ASSUME Init PROVE IInv
  OBVIOUS
<1> USE DEF Init
<1>1. TypeOK
  BY TriggerIsInt DEF TypeOK, ItemOrNull
<1>2. Links
  BY DEF Links, HeadLinked, SweepInList, InList, At
<1> QED
  BY <1>1, <1>2 DEF IInv, Fresh, HasItem, Counted, FinalizedOnce, At

\* Steps of the program.
LEMMA ProgramStep ==
    ASSUME IInv, NEW v \in VMs, NEW w \in VMs, NEW i \in Items,
           Wrap(v, i) \/ Drop(v, i) \/ Send(v, w, i)
    PROVE  IInv'
<1> USE DEF IInv, At, Goto, listVars, history
<1>1. CASE Wrap(v, i)
  <2>1. TypeOK' BY <1>1 DEF TypeOK, Wrap, ItemOrNull
  <2>2. \A u \in VMs : SweepInList(u)' BY <1>1, SameSweep DEF Wrap, TypeOK
  <2>3. Fresh' /\ HasItem' BY <1>1 DEF TypeOK, Wrap, Fresh, HasItem
  <2> QED BY <1>1, <2>1, <2>2, <2>3, SameLists DEF Wrap
<1>2. CASE Drop(v, i)
  <2>1. TypeOK' BY <1>2 DEF TypeOK, Drop
  <2>2. \A u \in VMs : SweepInList(u)' BY <1>2, SameSweep DEF Drop, TypeOK
  <2>3. Fresh' /\ HasItem' BY <1>2 DEF TypeOK, Drop, Fresh, HasItem
  <2> QED BY <1>2, <2>1, <2>2, <2>3, SameLists DEF Drop
<1>3. CASE Send(v, w, i)
  <2>1. TypeOK' BY <1>3 DEF TypeOK, Send
  <2>2. \A u \in VMs : SweepInList(u)' BY <1>3, SameSweep DEF Send, TypeOK
  <2>3. Fresh' /\ HasItem' BY <1>3 DEF TypeOK, Send, Fresh, HasItem
  <2> QED BY <1>3, <2>1, <2>2, <2>3, SameLists DEF Send
<1> QED
  BY <1>1, <1>2, <1>3

\* Steps that touch no list, or only its marks and its trigger.
LEMMA QuietStep ==
    ASSUME IInv, NEW v \in VMs,
           \/ InsertedBefore(v) \/ AllocateCollects(v) \/ Allocate(v)
           \/ Collect(v) \/ Mark(v) \/ SweepKeeps(v) \/ SweepEnds(v)
           \/ Stop(v) \/ DestroyEnds(v)
    PROVE  IInv'
<1> USE DEF IInv, At, Goto, listVars, history
<1>1. CASE InsertedBefore(v)
  <2>1. TypeOK' BY <1>1 DEF TypeOK, InsertedBefore
  <2>2. \A u \in VMs : SweepInList(u)' BY <1>1, SameSweep DEF InsertedBefore, TypeOK
  <2>3. Fresh' /\ HasItem' BY <1>1 DEF TypeOK, InsertedBefore, Fresh, HasItem
  <2> QED BY <1>1, <2>1, <2>2, <2>3, SameLists DEF InsertedBefore
<1>2. CASE AllocateCollects(v)
  <2>1. TypeOK' BY <1>2 DEF TypeOK, AllocateCollects
  <2>2. \A u \in VMs : SweepInList(u)' BY <1>2, SameSweep DEF AllocateCollects, TypeOK
  <2>3. Fresh' /\ HasItem' BY <1>2 DEF TypeOK, AllocateCollects, Fresh, HasItem
  <2> QED BY <1>2, <2>1, <2>2, <2>3, SameLists DEF AllocateCollects
<1>3. CASE Allocate(v)
  <2>1. item[v] \in Items BY <1>3 DEF Allocate, HasItem
  <2>2. TypeOK' BY <1>3, <2>1 DEF TypeOK, Allocate, ItemOrNull
  <2>3. \A u \in VMs : SweepInList(u)' BY <1>3, SameSweep DEF Allocate, TypeOK
  <2>4. Fresh' /\ HasItem' BY <1>3 DEF TypeOK, Allocate, Fresh, HasItem
  <2> QED BY <1>3, <2>2, <2>3, <2>4, SameLists DEF Allocate
<1>4. CASE Collect(v)
  <2>1. TypeOK' BY <1>4 DEF TypeOK, Collect
  <2>2. \A u \in VMs : SweepInList(u)' BY <1>4, SameSweep DEF Collect, TypeOK
  <2>3. Fresh' /\ HasItem' BY <1>4 DEF TypeOK, Collect, Fresh, HasItem
  <2> QED BY <1>4, <2>1, <2>2, <2>3, SameLists DEF Collect
<1>5. CASE Mark(v)
  <2>1. TypeOK' BY <1>5 DEF TypeOK, Mark
  <2>2. ASSUME NEW u \in VMs PROVE SweepInList(u)'
    <3>1. CASE u = v
      BY <1>5, <3>1 DEF Mark, TypeOK, Links, HeadLinked, SweepInList, InList
    <3>2. CASE u # v
      BY <1>5, <3>2 DEF Mark, TypeOK, Links, SweepInList, InList
    <3> QED BY <3>1, <3>2
  <2>3. Fresh' /\ HasItem' BY <1>5 DEF TypeOK, Mark, Fresh, HasItem
  <2> QED BY <1>5, <2>1, <2>2, <2>3, SameLists DEF Mark
<1>6. CASE SweepKeeps(v)
  <2>1. /\ sweepP[v] \in Items /\ InList(sweepP[v]) /\ owner[sweepP[v]] = v
        /\ NextLinked(sweepP[v])
    BY <1>6 DEF SweepKeeps, Links, SweepInList, TypeOK, ItemOrNull
  <2>2. TypeOK' BY <1>6, <2>1 DEF TypeOK, SweepKeeps
  <2>3. ASSUME NEW u \in VMs PROVE SweepInList(u)'
    <3>1. CASE u = v
      BY <1>6, <2>1, <3>1 DEF SweepKeeps, TypeOK, NextLinked, SweepInList, InList
    <3>2. CASE u # v
      BY <1>6, <3>2 DEF SweepKeeps, TypeOK, Links, SweepInList, InList
    <3> QED BY <3>1, <3>2
  <2>4. Fresh' /\ HasItem' BY <1>6 DEF TypeOK, SweepKeeps, Fresh, HasItem
  <2> QED BY <1>6, <2>2, <2>3, <2>4, SameLists DEF SweepKeeps
<1>7. CASE SweepEnds(v)
  <2>1. TypeOK' BY <1>7, TriggerIsInt DEF TypeOK, SweepEnds
  <2>2. \A u \in VMs : SweepInList(u)' BY <1>7, SameSweep DEF SweepEnds, TypeOK
  <2>3. Fresh' /\ HasItem' BY <1>7 DEF TypeOK, SweepEnds, Fresh, HasItem
  <2> QED BY <1>7, <2>1, <2>2, <2>3, SameLists DEF SweepEnds
<1>8. CASE Stop(v)
  <2>1. TypeOK' BY <1>8 DEF TypeOK, Stop
  <2>2. \A u \in VMs : SweepInList(u)' BY <1>8, SameSweep DEF Stop, TypeOK
  <2>3. Fresh' /\ HasItem' BY <1>8 DEF TypeOK, Stop, Fresh, HasItem
  <2> QED BY <1>8, <2>1, <2>2, <2>3, SameLists DEF Stop
<1>9. CASE DestroyEnds(v)
  <2>1. TypeOK' BY <1>9 DEF TypeOK, DestroyEnds
  <2>2. \A u \in VMs : SweepInList(u)' BY <1>9, SameSweep DEF DestroyEnds, TypeOK
  <2>3. Fresh' /\ HasItem' BY <1>9 DEF TypeOK, DestroyEnds, Fresh, HasItem
  <2> QED BY <1>9, <2>1, <2>2, <2>3, SameLists DEF DestroyEnds
<1> QED
  BY <1>1, <1>2, <1>3, <1>4, <1>5, <1>6, <1>7, <1>8, <1>9

\* No pointer leads to an item that is being created.
LEMMA CreateStep ==
    ASSUME IInv, NEW v \in VMs, NEW i \in Items, Create(v, i)
    PROVE  IInv'
<1> USE NullIsNone DEF IInv, At, Goto, history
<1>1. TypeOK'
  BY DEF TypeOK, Create, ItemOrNull
<1>2. \A j \in Items : InList(j)' <=> InList(j)
  BY DEF TypeOK, Create, InList
<1>3. ~InList(i)
  BY DEF Create, InList
<1>4. \A u \in VMs : HeadLinked(u)'
  BY <1>2, <1>3 DEF TypeOK, Create, Links, HeadLinked, ItemOrNull
<1>5. \A u \in VMs : SweepInList(u)'
  BY <1>2, <1>3 DEF TypeOK, Create, Links, SweepInList, ItemOrNull
<1>6. \A j \in Items : InList(j) => NextLinked(j)'
  BY <1>2, <1>3 DEF TypeOK, Create, Links, NextLinked, ItemOrNull
<1>7. \A j \in Items : InList(j) => PrevLinked(j)'
  BY <1>2, <1>3 DEF TypeOK, Create, Links, PrevLinked
<1>8. Links'
  BY <1>2, <1>4, <1>5, <1>6, <1>7 DEF Links
<1>9. Fresh' /\ HasItem'
  BY DEF TypeOK, Create, Fresh, HasItem
<1>10. Counted' /\ FinalizedOnce'
  BY DEF TypeOK, Create, Counted, FinalizedOnce
<1> QED
  BY <1>1, <1>8, <1>9, <1>10

LEMMA InsertStep ==
    ASSUME IInv, NEW v \in VMs, Insert(v)
    PROVE  IInv'
<1> DEFINE i == item[v]
<1> USE NullIsNone DEF IInv, At, Goto
<1>1. /\ i \in Items /\ memory[i] = "allocated" /\ prevNext[i] = NULL
      /\ ~InList(i)
  BY DEF Insert, Fresh, AlreadyInserted, TypeOK, InList
<1>2. /\ \A w \in VMs : HeadLinked(w)'
      /\ \A j \in Items : InList(j)' => NextLinked(j)' /\ PrevLinked(j)'
      /\ \A j \in Items : InList(j)' <=> InList(j) \/ j = i
  BY <1>1, InsertKeepsLists DEF Insert
<1>3. \A w \in VMs : SweepInList(w)'
  BY <1>1, <1>2 DEF Insert, TypeOK, Links, SweepInList, ItemOrNull
<1>4. TypeOK'
  <2>1. ItemSize[i] \in Nat /\ size[v] + ItemSize[i] \in Int /\ clock + 1 \in Nat
    BY <1>1, CHeapAssumption DEF TypeOK
  <2>2. first' \in [VMs -> ItemOrNull] /\ next' \in [Items -> ItemOrNull]
    BY <1>1 DEF Insert, Linked, TypeOK, ItemOrNull
  <2>3. prevNext' \in [Items -> Pointers \cup {NULL}]
    BY <1>1, PointersDiffer DEF Insert, Linked, TypeOK
  <2>4. size' \in [VMs -> Int] /\ order' \in [Items -> Nat] /\ clock' \in Nat
    BY <1>1, <2>1 DEF Insert, Linked, TypeOK
  <2>5. Protected(i, size[v] + ItemSize[i] >= trigger[v]) \in BOOLEAN
    BY <1>1, <2>1 DEF TypeOK, Protected
  <2>6. isUsed' \in [Items -> BOOLEAN]
    BY <1>1, <2>5 DEF Insert, TypeOK
  <2> QED
    BY <1>1, <2>2, <2>3, <2>4, <2>6 DEF Insert, TypeOK
<1>5. Fresh'
  <2>1. \A j \in Items : prevNext[j] # NULL => prevNext'[j] # NULL
    BY <1>1, PointersDiffer DEF Insert, Linked, TypeOK
  <2>2. \A j \in Items : memory[j] = "none" => prevNext'[j] = NULL
    BY <1>1, <1>2 DEF Insert, Linked, TypeOK, Fresh, Links, HeadLinked, InList
  <2> QED
    BY <1>1, <2>1, <2>2 DEF Insert, Fresh, TypeOK
<1>6. HasItem'
  BY <1>1 DEF Insert, HasItem, TypeOK
<1>7. Counted' /\ FinalizedOnce'
  BY <1>1 DEF Insert, Counted, FinalizedOnce, TypeOK
<1> QED
  BY <1>2, <1>3, <1>4, <1>5, <1>6, <1>7 DEF Links

\* Fresh after an item of a list was freed.
LEMMA FreeKeepsFresh ==
    ASSUME TypeOK, Links, Fresh, NEW v \in VMs, NEW i \in Items, InList(i),
           c_heap_free_item(v, i), UNCHANGED <<pc, item>>
    PROVE  Fresh'
<1> USE NullIsNone DEF c_heap_free_item, Unlinked, At
<1>1. memory[i] = "allocated" /\ prevNext[i] # NULL /\ NextLinked(i)
  BY DEF InList, Links
<1>2. \A j \in Items : prevNext[j] # NULL <=> prevNext'[j] # NULL
  BY <1>1 DEF TypeOK, NextLinked, InList
<1>3. \A j \in Items : memory'[j] = IF j = i THEN "freed" ELSE memory[j]
  BY DEF TypeOK
<1> QED
  BY <1>1, <1>2, <1>3 DEF Fresh, TypeOK

LEMMA SweepFreesStep ==
    ASSUME IInv, NEW v \in VMs, SweepFrees(v)
    PROVE  IInv'
<1> DEFINE i == sweepP[v]
<1> USE DEF IInv, At
<1>1. i \in Items /\ InList(i) /\ owner[i] = v /\ NextLinked(i) /\ next[i] # i
  BY NullIsNone DEF SweepFrees, Links, SweepInList, NextLinked, TypeOK, ItemOrNull
<1>2. c_heap_free_item(v, i) /\ UNCHANGED history
  BY DEF SweepFrees
<1>3. /\ \A w \in VMs : HeadLinked(w)'
      /\ \A j \in Items : InList(j)' => NextLinked(j)' /\ PrevLinked(j)'
      /\ \A j \in Items : InList(j)' <=> InList(j) /\ j # i
  BY <1>1, <1>2, FreeKeepsLists
<1>4. /\ TypeOK' /\ FinalizedOnce'
  <2>1. sweepP' \in [VMs -> ItemOrNull]
    BY <1>1 DEF SweepFrees, TypeOK
  <2> QED
    BY <1>1, <1>2, <2>1, FreeKeepsTypes DEF SweepFrees, TypeOK, history
<1>5. ASSUME NEW u \in VMs PROVE SweepInList(u)'
  <2>1. CASE u = v
    BY <1>1, <1>3, <2>1, NullIsNone DEF SweepFrees, NextLinked, SweepInList, TypeOK, ItemOrNull, history
  <2>2. CASE u # v
    <3>1. At(u, "sweep") /\ sweepP[u] # NULL => sweepP[u] # i /\ sweepP[u] \in Items
      BY <1>1, <2>2 DEF Links, SweepInList, TypeOK, ItemOrNull
    <3> QED
      BY <1>3, <2>2, <3>1 DEF SweepFrees, SweepInList, TypeOK, Links, history
  <2> QED
    BY <2>1, <2>2
<1>6. Fresh'
  BY <1>1, <1>2, FreeKeepsFresh DEF SweepFrees
<1>7. HasItem' /\ Counted'
  BY DEF SweepFrees, HasItem, Counted, history
<1> QED
  BY <1>3, <1>4, <1>5, <1>6, <1>7 DEF Links

LEMMA DestroyOneStep ==
    ASSUME IInv, NEW v \in VMs, DestroyOne(v)
    PROVE  IInv'
<1> DEFINE i == first[v]
<1> USE DEF IInv, At
<1>1. i \in Items /\ InList(i) /\ owner[i] = v
  BY DEF DestroyOne, Links, HeadLinked, TypeOK, ItemOrNull
<1>2. c_heap_free_item(v, i) /\ UNCHANGED history
  BY DEF DestroyOne
<1>3. /\ \A w \in VMs : HeadLinked(w)'
      /\ \A j \in Items : InList(j)' => NextLinked(j)' /\ PrevLinked(j)'
      /\ \A j \in Items : InList(j)' <=> InList(j) /\ j # i
  BY <1>1, <1>2, FreeKeepsLists
<1>4. TypeOK' /\ FinalizedOnce'
  BY <1>1, <1>2, FreeKeepsTypes DEF DestroyOne, TypeOK, history
<1>5. ASSUME NEW u \in VMs PROVE SweepInList(u)'
  <2>1. At(u, "sweep") /\ sweepP[u] # NULL => sweepP[u] # i /\ sweepP[u] \in Items
    BY <1>1 DEF DestroyOne, Links, SweepInList, TypeOK, ItemOrNull
  <2> QED
    BY <1>3, <2>1 DEF DestroyOne, SweepInList, TypeOK, Links, history
<1>6. Fresh'
  BY <1>1, <1>2, FreeKeepsFresh DEF DestroyOne
<1>7. HasItem' /\ Counted'
  BY DEF DestroyOne, HasItem, Counted, history
<1> QED
  BY <1>3, <1>4, <1>5, <1>6, <1>7 DEF Links

LEMMA NextIInv == IInv /\ [Next]_vars => IInv'
<1> SUFFICES ASSUME IInv, [Next]_vars PROVE IInv'
  OBVIOUS
<1>1. CASE UNCHANGED vars
  BY <1>1 DEF vars, IInv, TypeOK, Links, HeadLinked, SweepInList, NextLinked, PrevLinked,
              InList, Fresh, HasItem, Counted, FinalizedOnce, At
<1>2. ASSUME NEW v \in VMs, NEW i \in Items, Create(v, i) PROVE IInv'
  BY <1>2, CreateStep
<1>3. ASSUME NEW v \in VMs, NEW w \in VMs, NEW i \in Items,
             Wrap(v, i) \/ Drop(v, i) \/ Send(v, w, i)
      PROVE  IInv'
  BY <1>3, ProgramStep
<1>4. ASSUME NEW v \in VMs,
             Insert(v) \/ SweepFrees(v) \/ DestroyOne(v)
      PROVE  IInv'
  BY <1>4, InsertStep, SweepFreesStep, DestroyOneStep
<1>5. ASSUME NEW v \in VMs,
             \/ InsertedBefore(v) \/ AllocateCollects(v) \/ Allocate(v) \/ Collect(v)
             \/ Mark(v) \/ SweepKeeps(v) \/ SweepEnds(v) \/ Stop(v) \/ DestroyEnds(v)
      PROVE  IInv'
  BY <1>5, QuietStep
<1> QED
  BY <1>1, <1>2, <1>3, <1>4, <1>5 DEF Next, Thread

----------------------------------------------------------------------------
(* The theorems.                                                           *)

LEMMA Invariance == Spec => []IInv
  BY InitIInv, NextIInv, PTL DEF Spec

LEMMA InitMarked == Init => Marked
  BY DEF Init, Marked, At

\* One case per action; another VM never clears a mark of this list.
LEMMA NextMarked ==
    ASSUME IInv, Marked, [Next]_vars
    PROVE  Marked'
<1> USE NullIsNone DEF IInv, At, Goto, listVars, history
<1>1. CASE UNCHANGED vars
  BY <1>1 DEF vars, Marked, InUse, InList
<1>2. ASSUME NEW v \in VMs, NEW i \in Items, Create(v, i) PROVE Marked'
  <2>1. \A j \in Items : InList(j)' => InList(j) /\ j # i
    BY <1>2 DEF Create, InList, TypeOK
  <2>2. \A u \in VMs : At(u, "mark") /\ back[u] = "insert" => item[u] # i
    BY <1>2 DEF Create, Marked
  <2>3. \A u \in VMs, j \in Items : InUse(u, j)' => InUse(u, j) /\ j # i
    BY <1>2, <2>1 DEF Create, InUse, TypeOK, Marked
  <2>4. \A j \in Items \ {i} : isUsed'[j] = isUsed[j] /\ memory'[j] = memory[j]
    BY <1>2 DEF Create
  <2>5. memory'[i] # "none"
    BY <1>2 DEF Create, TypeOK
  <2>6. \A u \in VMs \ {v} : pc'[u] = pc[u] /\ item'[u] = item[u]
    BY <1>2 DEF Create, TypeOK
  <2>7. pc'[v] = "insert"
    BY <1>2 DEF Create, TypeOK
  <2> QED
    BY <1>2, <2>2, <2>3, <2>4, <2>5, <2>6, <2>7 DEF Create, Marked
<1>3. ASSUME NEW v \in VMs, NEW w \in VMs, NEW i \in Items,
             Wrap(v, i) \/ Drop(v, i) \/ Send(v, w, i)
      PROVE  Marked'
  <2>1. CASE Wrap(v, i)
    BY <2>1 DEF Wrap, Marked, InUse, InList, TypeOK
  <2>2. CASE Drop(v, i)
    BY <2>2 DEF Drop, Marked, InUse, InList, TypeOK
  <2>3. CASE Send(v, w, i)
    BY <2>3 DEF Send, Marked, InUse, InList, TypeOK
  <2> QED BY <1>3, <2>1, <2>2, <2>3
<1>4. ASSUME NEW v \in VMs, Insert(v) PROVE Marked'
  <2> DEFINE i == item[v]
  <2>1. i \in Items /\ prevNext[i] = NULL /\ ~InList(i) /\ memory[i] = "allocated"
    BY <1>4 DEF Insert, Fresh, AlreadyInserted, TypeOK, InList
  <2>2. /\ owner'[i] = v
        /\ \A j \in Items \ {i} : /\ owner'[j] = owner[j] /\ order'[j] = order[j]
                                 /\ isUsed'[j] = isUsed[j]
        /\ isUsed'[i] = Protected(i, size[v] + ItemSize[i] >= trigger[v])
    BY <1>4, <2>1 DEF Insert, TypeOK
  <2>15. \A j \in Items : prevNext[j] # NULL => prevNext'[j] # NULL
    BY <1>4, <2>1, PointersDiffer DEF Insert, Linked, TypeOK
  <2>16. prevNext'[i] # NULL
    BY <1>4, <2>1, PointersDiffer DEF Insert, Linked, TypeOK
  <2>3. \A j \in Items : InList(j)' <=> InList(j) \/ j = i
    BY <1>4, <2>1, InsertKeepsLists DEF Insert
  <2>4. At(v, "mark")' => isUsed'[i]
    BY <1>4, <2>2 DEF Insert, Protected, TypeOK
  <2>5. \A u \in VMs : isUsed[item[u]] /\ item[u] \in Items => isUsed'[item[u]]
    BY <2>1, <2>2 DEF Protected
  <2>6. \A u \in VMs \ {v} : pc'[u] = pc[u]
    BY <1>4 DEF Insert, TypeOK
  <2>7. \A u \in VMs \ {v} : back'[u] = back[u] /\ sweepP'[u] = sweepP[u] /\ item'[u] = item[u]
    BY <1>4 DEF Insert, TypeOK
  <2>8. \A u \in VMs : At(u, "sweep") /\ sweepP[u] # NULL => sweepP[u] \in Items /\ sweepP[u] # i
    BY <2>1 DEF Links, SweepInList, TypeOK, ItemOrNull
  <2>9. pc'[v] \in {"mark", "allocate"}
    BY <1>4 DEF Insert, TypeOK
  <2>12. \A u \in VMs : At(u, "mark") /\ back[u] = "insert" /\ item[u] \in Items
                       => memory[item[u]] # "none" /\ prevNext[item[u]] # NULL
    BY DEF Marked
  <2>10. ASSUME NEW u \in VMs, NEW j \in Items, At(u, "sweep")', sweepP'[u] # NULL, InUse(u, j)',
                order'[j] <= order'[sweepP'[u]]
         PROVE  isUsed'[j]
    <3>1. u # v /\ At(u, "sweep") /\ sweepP[u] # NULL
      BY <2>6, <2>7, <2>9, <2>10
    <3>2. j # i /\ InUse(u, j)
      BY <3>1, <2>2, <2>3, <2>7, <2>10, <1>4 DEF InUse, Insert
    <3>3. order[j] <= order[sweepP[u]]
      BY <3>1, <3>2, <2>2, <2>7, <2>8, <2>10
    <3> QED
      BY <3>1, <3>2, <3>3, <2>2 DEF Marked
  <2>11. \A u \in VMs : At(u, "mark")' /\ back'[u] = "insert" /\ item'[u] \in Items
                       => /\ isUsed'[item'[u]] /\ owner'[item'[u]] = u
                          /\ memory'[item'[u]] # "none" /\ prevNext'[item'[u]] # NULL
    <3> TAKE u \in VMs
    <3>1. CASE u = v
      BY <3>1, <1>4, <2>1, <2>2, <2>4, <2>16 DEF Insert
    <3>2. CASE u # v
      <4>1. SUFFICES ASSUME At(u, "mark"), back[u] = "insert", item[u] \in Items
                     PROVE  /\ isUsed'[item[u]] /\ owner'[item[u]] = u
                            /\ memory'[item[u]] # "none" /\ prevNext'[item[u]] # NULL
        BY <3>2, <2>6, <2>7
      <4>2. owner[item[u]] = u /\ isUsed[item[u]] /\ memory[item[u]] # "none"
        BY <4>1 DEF Marked
      <4>3. item[u] # i
        BY <3>2, <4>1, <2>1, <2>12
      <4> QED
        BY <4>1, <4>2, <4>3, <2>2, <2>12, <2>15, <1>4 DEF Insert
    <3> QED BY <3>1, <3>2
  <2>13. ASSUME NEW u \in VMs,
                \/ pc'[u] \in {"run", "destroy", "stopped"}
                \/ pc'[u] \in {"mark", "sweep"} /\ back'[u] = "run"
         PROVE  item'[u] = NULL
    <3>1. u # v
      BY <1>4, <2>9, <2>13 DEF Insert, TypeOK
    <3> QED
      BY <3>1, <2>6, <2>7, <2>13 DEF Marked
  <2>14. \A u \in VMs : pc'[u] \in {"destroy", "stopped"} => cells'[u] = {}
    BY <1>4, <2>6, <2>9 DEF Insert, Marked
  <2> QED
    BY <2>10, <2>11, <2>13, <2>14 DEF Marked
<1>5. ASSUME NEW v \in VMs, Mark(v) PROVE Marked'
  <2>1. \A j \in Items : InList(j)' <=> InList(j)
    BY <1>5 DEF Mark, InList
  <2>2. \A j \in Items : isUsed[j] => isUsed'[j]
    BY <1>5 DEF Mark
  <2>3. \A j \in Items : InUse(v, j) => isUsed'[j]
    BY <1>5 DEF Mark, InUse, InList, Marked
  <2>4. \A u \in VMs, j \in Items : InUse(u, j)' <=> InUse(u, j)
    BY <1>5, <2>1 DEF Mark, InUse
  <2> QED
    BY <1>5, <2>2, <2>3, <2>4 DEF Mark, Marked, TypeOK
<1>6. ASSUME NEW v \in VMs, SweepKeeps(v) PROVE Marked'
  <2> DEFINE i == sweepP[v]
  <2>1. i \in Items /\ InList(i) /\ owner[i] = v /\ NextLinked(i)
    BY <1>6 DEF SweepKeeps, Links, SweepInList, TypeOK, ItemOrNull
  <2>2. /\ isUsed'[i] = FALSE
        /\ \A j \in Items \ {i} : isUsed'[j] = isUsed[j]
        /\ sweepP'[v] = next[i] /\ \A u \in VMs \ {v} : sweepP'[u] = sweepP[u]
    BY <1>6, <2>1 DEF SweepKeeps, TypeOK
  <2>3. \A u \in VMs, j \in Items : InUse(u, j)' <=> InUse(u, j)
    BY <1>6 DEF SweepKeeps, InUse, InList
  <2>4. ASSUME NEW u \in VMs, NEW j \in Items, At(u, "sweep"), sweepP'[u] # NULL, InUse(u, j),
               order[j] <= order[sweepP'[u]]
        PROVE  isUsed'[j]
    <3>1. CASE u = v
      <4>1. next[i] \in Items /\ order[next[i]] < order[i]
        BY <2>1, <2>2, <2>4, <3>1 DEF NextLinked, TypeOK, ItemOrNull
      <4>2. order[j] < order[i] /\ order[j] <= order[i] /\ j # i
        BY <4>1, <2>1, <2>2, <2>4, <3>1 DEF TypeOK
      <4> QED
        BY <4>2, <2>1, <2>2, <2>4, <3>1 DEF Marked
    <3>2. CASE u # v
      BY <3>2, <2>1, <2>2, <2>4 DEF InUse, Marked
    <3> QED BY <3>1, <3>2
  <2>5. ASSUME NEW u \in VMs, At(u, "mark"), back[u] = "insert", item[u] \in Items
        PROVE  isUsed'[item[u]]
    <3>1. isUsed[item[u]] /\ owner[item[u]] = u
      BY <2>5 DEF Marked
    <3>2. u # v
      BY <1>6, <2>5 DEF SweepKeeps
    <3> QED
      BY <3>1, <3>2, <2>1, <2>2, <2>5
  <2> QED
    BY <1>6, <2>3, <2>4, <2>5 DEF SweepKeeps, Marked
<1>7. ASSUME NEW v \in VMs, SweepFrees(v) PROVE Marked'
  <2> DEFINE i == sweepP[v]
  <2>1. i \in Items /\ InList(i) /\ owner[i] = v /\ NextLinked(i)
    BY <1>7 DEF SweepFrees, Links, SweepInList, TypeOK, ItemOrNull
  <2>2. \A j \in Items : InList(j)' <=> InList(j) /\ j # i
    BY <1>7, <2>1, FreeKeepsLists DEF SweepFrees
  <2>3. sweepP'[v] = next[i] /\ \A u \in VMs \ {v} : sweepP'[u] = sweepP[u]
    BY <1>7 DEF SweepFrees, TypeOK
  <2>4. \A u \in VMs, j \in Items : InUse(u, j)' => InUse(u, j)
    BY <1>7, <2>2 DEF SweepFrees, InUse
  <2>5. ASSUME NEW u \in VMs, NEW j \in Items, At(u, "sweep"), sweepP'[u] # NULL, InUse(u, j),
               order[j] <= order[sweepP'[u]]
        PROVE  isUsed[j]
    <3>1. CASE u = v
      <4>1. next[i] \in Items /\ order[next[i]] < order[i]
        BY <2>1, <2>3, <2>5, <3>1 DEF NextLinked, TypeOK, ItemOrNull
      <4>2. order[j] <= order[i]
        BY <4>1, <2>1, <2>3, <2>5, <3>1 DEF TypeOK
      <4> QED
        BY <4>2, <2>1, <2>5, <3>1 DEF Marked
    <3>2. CASE u # v
      BY <3>2, <2>3, <2>5 DEF Marked
    <3> QED BY <3>1, <3>2
  <2>6. \A j \in Items : /\ memory[j] # "none" => memory'[j] # "none"
                         /\ prevNext[j] # NULL => prevNext'[j] # NULL
    BY <1>7, <2>1 DEF SweepFrees, c_heap_free_item, Unlinked, InList, TypeOK
  <2> QED
    BY <1>7, <2>4, <2>5, <2>6 DEF SweepFrees, Marked
<1>8. ASSUME NEW v \in VMs, DestroyOne(v) PROVE Marked'
  <2>1. first[v] \in Items /\ InList(first[v]) /\ owner[first[v]] = v
    BY <1>8 DEF DestroyOne, Links, HeadLinked, TypeOK, ItemOrNull
  <2>2. \A j \in Items : InList(j)' => InList(j)
    BY <1>8, <2>1, FreeKeepsLists DEF DestroyOne
  <2>3. \A u \in VMs, j \in Items : InUse(u, j)' => InUse(u, j)
    BY <1>8, <2>2 DEF DestroyOne, InUse
  <2>4. \A j \in Items : /\ memory[j] # "none" => memory'[j] # "none"
                         /\ prevNext[j] # NULL => prevNext'[j] # NULL
    BY <1>8, <2>1 DEF DestroyOne, c_heap_free_item, Unlinked, InList, TypeOK
  <2> QED
    BY <1>8, <2>3, <2>4 DEF DestroyOne, Marked
<1>9. ASSUME NEW v \in VMs,
             \/ InsertedBefore(v) \/ AllocateCollects(v) \/ Allocate(v) \/ Collect(v)
             \/ SweepEnds(v) \/ Stop(v) \/ DestroyEnds(v)
      PROVE  Marked'
  <2>1. CASE InsertedBefore(v)
    BY <2>1 DEF InsertedBefore, Marked, InUse, InList, TypeOK
  <2>2. CASE AllocateCollects(v)
    BY <2>2 DEF AllocateCollects, Marked, InUse, InList, TypeOK
  <2>3. CASE Allocate(v)
    BY <2>3 DEF Allocate, Marked, InUse, InList, TypeOK
  <2>4. CASE Collect(v)
    BY <2>4 DEF Collect, Marked, InUse, InList, TypeOK
  <2>5. CASE SweepEnds(v)
    BY <2>5 DEF SweepEnds, Marked, InUse, InList, TypeOK
  <2>6. CASE Stop(v)
    BY <2>6 DEF Stop, Marked, InUse, InList, TypeOK
  <2>7. CASE DestroyEnds(v)
    BY <2>7 DEF DestroyEnds, Marked, InUse, InList, TypeOK
  <2> QED BY <1>9, <2>1, <2>2, <2>3, <2>4, <2>5, <2>6, <2>7
<1> QED
  BY <1>1, <1>2, <1>3, <1>4, <1>5, <1>6, <1>7, <1>8, <1>9 DEF Next, Thread

LEMMA MarksInvariance == Spec => [](IInv /\ Marked)
  BY InitIInv, NextIInv, InitMarked, NextMarked, PTL DEF Spec

\* Every variable has its type in every state of every behaviour; a
\* finalizer count of two is not one of them.
THEOREM TypesCorrect == Spec => []TypeOK
  BY Invariance, PTL DEF IInv

\* idris_heap.c: between any two steps of any threads, the lists of all VMs
\* are linked both ways, apart from each other, free of cycles and of freed
\* items, and every sweep under way stands on an item of its own list.
THEOREM ListsLinked == Spec => []Links
  BY Invariance, PTL DEF IInv

\* c_heap_free_item: the finalizer of an item runs exactly when the item is
\* freed, and never again.
THEOREM FinalizersRunOnce == Spec => []FinalizedOnce
  BY Invariance, PTL DEF IInv

\* Only a sweep and the end of a VM free items, and both keep away from what
\* the VM uses.
LEMMA FreesUnused ==
    ASSUME IInv, Marked, [Next]_vars, NEW v \in VMs, NEW i \in Items, InUse(v, i)
    PROVE  memory'[i] = "allocated"
<1> USE NullIsNone DEF IInv, At, listVars
<1>1. memory[i] = "allocated" /\ owner[i] = v
  BY DEF InUse, InList
<1>2. ASSUME NEW w \in VMs, SweepFrees(w) PROVE memory'[i] = "allocated"
  <2>1. sweepP[w] \in Items /\ owner[sweepP[w]] = w /\ ~isUsed[sweepP[w]]
    BY <1>2 DEF SweepFrees, Links, SweepInList, TypeOK, ItemOrNull
  <2>2. i # sweepP[w]
    BY <1>1, <1>2, <2>1 DEF SweepFrees, Marked, TypeOK
  <2> QED
    BY <1>1, <1>2, <2>2 DEF SweepFrees, c_heap_free_item, TypeOK
<1>3. ASSUME NEW w \in VMs, DestroyOne(w) PROVE memory'[i] = "allocated"
  <2>1. owner[first[w]] = w /\ cells[w] = {} /\ item[w] = NULL
    BY <1>3 DEF DestroyOne, Links, HeadLinked, Marked, TypeOK
  <2>2. i # first[w]
    BY <1>1, <2>1 DEF InUse
  <2> QED
    BY <1>1, <1>3, <2>2 DEF DestroyOne, c_heap_free_item, TypeOK
<1>4. ASSUME NEW w \in VMs, NEW j \in Items, Create(w, j) PROVE memory'[i] = "allocated"
  BY <1>1, <1>4 DEF Create, TypeOK
<1>5. CASE UNCHANGED vars
  BY <1>1, <1>5 DEF vars
<1>6. ASSUME NEW w \in VMs, NEW u \in VMs, NEW j \in Items,
             Wrap(w, j) \/ Drop(w, j) \/ Send(w, u, j)
      PROVE  memory'[i] = "allocated"
  BY <1>1, <1>6 DEF Wrap, Drop, Send
<1>7. ASSUME NEW w \in VMs,
             \/ Insert(w) \/ InsertedBefore(w) \/ AllocateCollects(w) \/ Allocate(w)
             \/ Collect(w) \/ Mark(w) \/ SweepKeeps(w) \/ SweepEnds(w)
             \/ Stop(w) \/ DestroyEnds(w)
      PROVE  memory'[i] = "allocated"
  BY <1>1, <1>7 DEF Insert, InsertedBefore, AllocateCollects, Allocate, Collect, Mark,
                    SweepKeeps, SweepEnds, Stop, DestroyEnds
<1> QED
  BY <1>2, <1>3, <1>4, <1>5, <1>6, <1>7 DEF Next, Thread

\* The collector never finalizes what the VM that inserted it still uses:
\* what a sweep has before it is marked if it is in use, and the marks and
\* sweeps of other VMs clear no mark of this list.
THEOREM UsedItemsKept == Spec => OwnItemsKept
<1>1. IInv /\ Marked /\ [Next]_vars
      => [\A v \in VMs, i \in Items : InUse(v, i) => memory'[i] = "allocated"]_vars
  BY FreesUnused
<1> QED
  BY <1>1, MarksInvariance, PTL DEF Spec, OwnItemsKept

----------------------------------------------------------------------------
(* The lists are complete: what Listed computes.                            *)

\* The items that are in the list of v, by what c_heap_insert_if_needed and
\* c_heap_free_item did to each of them.
Own(v) == {i \in Items : InList(i) /\ owner[i] = v}

\* The sets in Listed, up to the n-th.
Reaching(v, n, f) ==
    f = [m \in 0 .. n |-> IF m = 0 THEN {first[v]} \ {NULL}
                          ELSE f[m - 1] \cup ({next[i] : i \in f[m - 1]} \ {NULL})]

LEMMA ReachingExists ==
    ASSUME NEW v, NEW n \in Nat
    PROVE  \E f : Reaching(v, n, f)
<1> DEFINE Bad == {m \in Nat : ~ \E f : Reaching(v, m, f)}
<1>1. SUFFICES ASSUME Bad # {} PROVE FALSE
  OBVIOUS
<1>2. PICK m \in Bad : \A k \in Bad : m <= k
  <2>1. Bad \subseteq Nat
    OBVIOUS
  <2> HIDE DEF Bad
  <2> QED
    BY <1>1, <2>1, LeastNumber
<1>3. m # 0
  <2>1. Reaching(v, 0, [k \in 0 .. 0 |-> {first[v]} \ {NULL}])
    BY DEF Reaching
  <2> QED
    BY <2>1
<1>4. m - 1 \in Nat /\ m \in Nat
  BY <1>3
<1>5. PICK f : Reaching(v, m - 1, f)
  BY <1>2, <1>4
<1> DEFINE S == f[m - 1] \cup ({next[i] : i \in f[m - 1]} \ {NULL})
           g == [k \in 0 .. m |-> IF k = m THEN S ELSE f[k]]
<1>6. Reaching(v, m, g)
  <2>1. \A k \in 0 .. m - 1 : f[k] = IF k = 0 THEN {first[v]} \ {NULL}
                                     ELSE f[k - 1] \cup ({next[i] : i \in f[k - 1]} \ {NULL})
    BY <1>4, <1>5 DEF Reaching
  <2>2. ASSUME NEW k \in 0 .. m
        PROVE  g[k] = IF k = 0 THEN {first[v]} \ {NULL}
                      ELSE g[k - 1] \cup ({next[i] : i \in g[k - 1]} \ {NULL})
    <3>1. CASE k = m
      <4>1. g[k] = S /\ g[k - 1] = f[m - 1] /\ k # 0
        BY <1>3, <1>4, <3>1
      <4> QED
        BY <3>1, <4>1
    <3>2. CASE k # m
      <4>1. k \in 0 .. m - 1 /\ g[k] = f[k] /\ (k # 0 => g[k - 1] = f[k - 1])
        BY <1>4, <3>2
      <4> HIDE DEF g
      <4> QED
        BY <2>1, <4>1
    <3> QED
      BY <3>1, <3>2
  <2> HIDE DEF g
  <2>3. g = [k \in 0 .. m |-> g[k]]
    BY DEF g
  <2> QED
    BY <2>2, <2>3 DEF Reaching
<1> QED
  BY <1>6

LEMMA ListedIsLast ==
    ASSUME NEW v, NEW n \in Nat, n = Cardinality(Items)
    PROVE  \E f : Reaching(v, n, f) /\ Listed(v) = f[n]
<1>1. \E f : Reaching(v, n, f)
  BY ReachingExists
<1> DEFINE after == CHOOSE f : Reaching(v, n, f)
<1>2. Reaching(v, n, after)
  BY <1>1
<1>3. Listed(v) = after[n]
  BY DEF Listed, Reaching
<1> QED
  BY <1>2, <1>3

\* No further item follows a member of S.
Closed(S) == \A i \in S : next[i] # NULL => next[i] \in S

\* One step after the other: all are items of v, and as long as there is
\* something left to reach there are more of them than steps.
LEMMA ReachedItems ==
    ASSUME TypeOK, Links, NEW v \in VMs, NEW n \in Nat, NEW f, Reaching(v, n, f),
           NEW m \in 0 .. n
    PROVE  /\ f[m] \subseteq Own(v) /\ ({first[v]} \ {NULL}) \subseteq f[m]
           /\ Closed(f[m]) \/ Cardinality(f[m]) >= m + 1
<1> DEFINE Good(k) == /\ f[k] \subseteq Own(v) /\ ({first[v]} \ {NULL}) \subseteq f[k]
                      /\ Closed(f[k]) \/ Cardinality(f[k]) >= k + 1
           Bad == {k \in 0 .. n : ~Good(k)}
<1>0. \A k \in 0 .. n : f[k] = IF k = 0 THEN {first[v]} \ {NULL}
                               ELSE f[k - 1] \cup ({next[i] : i \in f[k - 1]} \ {NULL})
  BY DEF Reaching
<1>1. SUFFICES ASSUME Bad # {} PROVE FALSE
  OBVIOUS
<1>2. PICK k \in Bad : \A j \in Bad : k <= j
  <2>1. Bad \subseteq Nat
    OBVIOUS
  <2> HIDE DEF Bad
  <2> QED
    BY <1>1, <2>1, LeastNumber
<1>3. k # 0
  <2>1. SUFFICES Good(0)
    BY <1>2
  <2>2. f[0] = {first[v]} \ {NULL}
    <3>1. 0 \in 0 .. n
      OBVIOUS
    <3> QED
      BY <1>0, <3>1
  <2>3. f[0] \subseteq Own(v)
    BY <2>2 DEF Own, Links, HeadLinked, TypeOK, ItemOrNull
  <2>4. CASE first[v] = NULL
    BY <2>2, <2>3, <2>4 DEF Closed
  <2>5. CASE first[v] # NULL
    <3>1. f[0] = {first[v]}
      BY <2>2, <2>5
    <3>2. Cardinality(f[0]) = 1
      BY <3>1, FS_Singleton
    <3> QED
      BY <2>2, <2>3, <3>2
  <2> QED
    BY <2>4, <2>5
<1>4. k - 1 \in 0 .. n /\ k \in 0 .. n /\ k - 1 \in Nat /\ k \in Nat
  BY <1>3
<1>5. Good(k - 1)
  BY <1>2, <1>4
<1> DEFINE S == f[k - 1]
           more == {next[i] : i \in S} \ {NULL}
<1>6. f[k] = S \cup more
  BY <1>0, <1>3, <1>4
<1>7. more \subseteq Own(v)
  BY <1>5 DEF Own, Links, NextLinked, TypeOK, ItemOrNull
<1>8. CASE Closed(S)
  <2>1. f[k] = S
    BY <1>6, <1>8 DEF Closed
  <2> QED
    BY <1>2, <1>5, <1>8, <2>1
<1>9. CASE ~Closed(S)
  <2>1. PICK i \in S : next[i] # NULL /\ next[i] \notin S
    BY <1>9 DEF Closed
  <2>2. f[k] \subseteq Own(v) /\ S \subseteq f[k] /\ next[i] \in f[k]
    BY <1>5, <1>6, <1>7, <2>1
  <2>3. IsFiniteSet(f[k]) /\ IsFiniteSet(S)
    <3>1. Own(v) \subseteq Items
      BY DEF Own
    <3> QED
      BY <1>5, <2>2, <3>1, ItemsAssumption, FS_Subset
  <2>4. Cardinality(S \cup {next[i]}) = Cardinality(S) + 1 /\ Cardinality(S) \in Nat
    BY <2>1, <2>3, FS_AddElement, FS_CardinalityType
  <2>5. Cardinality(S \cup {next[i]}) <= Cardinality(f[k]) /\ Cardinality(f[k]) \in Nat
    <3>1. S \cup {next[i]} \subseteq f[k]
      BY <2>2
    <3> QED
      BY <2>3, <3>1, FS_Subset, FS_CardinalityType
  <2>6. Cardinality(S) >= k - 1 + 1
    BY <1>5, <1>9
  <2>7. Cardinality(f[k]) >= k + 1
    BY <1>4, <2>4, <2>5, <2>6
  <2>8. ({first[v]} \ {NULL}) \subseteq f[k]
    BY <1>5, <2>2
  <2> QED
    BY <1>2, <2>2, <2>7, <2>8
<1> QED
  BY <1>8, <1>9

\* Following next from first gives all items of the list: the last one
\* inserted that was not reached would follow another one.
LEMMA ListedIsOwn ==
    ASSUME TypeOK, Links, Counted, NEW v \in VMs
    PROVE  Listed(v) = Own(v)
<1> DEFINE n == Cardinality(Items)
<1>1. n \in Nat
  BY ItemsAssumption, FS_CardinalityType
<1>2. PICK f : Reaching(v, n, f) /\ Listed(v) = f[n]
  <2> HIDE DEF n
  <2> QED
    BY <1>1, ListedIsLast DEF n
<1>3. n \in 0 .. n
  BY <1>1
<1>4. /\ f[n] \subseteq Own(v) /\ ({first[v]} \ {NULL}) \subseteq f[n]
      /\ Closed(f[n]) \/ Cardinality(f[n]) >= n + 1
  <2> HIDE DEF n
  <2> QED
    BY <1>1, <1>2, <1>3, ReachedItems
<1>5. Closed(f[n])
  <2>1. Own(v) \subseteq Items
    BY DEF Own
  <2>2. Cardinality(f[n]) <= n /\ Cardinality(f[n]) \in Nat
    BY <1>4, <2>1, ItemsAssumption, FS_Subset, FS_CardinalityType
  <2> HIDE DEF n
  <2> QED
    BY <1>1, <1>4, <2>2
<1> DEFINE Lost == {order[i] : i \in Own(v) \ f[n]}
<1>6. ASSUME Lost # {} PROVE FALSE
  <2>1. Lost \subseteq Nat /\ \A m \in Lost : m <= clock
    BY DEF Own, Counted, TypeOK
  <2>2. PICK m \in Lost : \A k \in Lost : k <= m
    <3>1. clock \in Nat
      BY DEF TypeOK
    <3> HIDE DEF Lost
    <3> QED
      BY <1>6, <2>1, <3>1, GreatestNumber
  <2>3. PICK i \in Own(v) \ f[n] : m = order[i]
    BY <2>2
  <2>4. i \in Items /\ InList(i) /\ owner[i] = v /\ PrevLinked(i) /\ i # NULL
    BY <2>3, NullIsNone DEF Own, Links
  <2>5. prevNext[i] \in Pointers
    BY <2>4 DEF InList, TypeOK
  <2>6. ASSUME NEW w \in VMs, prevNext[i] = FirstOf(w) PROVE FALSE
    <3>1. first[w] = i
      BY <2>4, <2>6 DEF PrevLinked
    <3>2. owner[i] = w
      BY <2>4, <3>1 DEF Links, HeadLinked
    <3> QED
      BY <1>4, <2>3, <2>4, <3>1, <3>2
  <2>7. ASSUME NEW j \in Items, prevNext[i] = NextOf(j) PROVE FALSE
    <3>1. InList(j) /\ next[j] = i
      BY <2>4, <2>7 DEF PrevLinked
    <3>2. owner[j] = v /\ order[i] < order[j]
      BY <2>4, <3>1 DEF Links, NextLinked
    <3>3. j \in Own(v) /\ j \notin f[n]
      BY <1>5, <2>3, <2>4, <3>1, <3>2 DEF Own, Closed
    <3>4. order[j] \in Lost
      BY <3>3
    <3>5. order[j] <= order[i]
      BY <2>2, <2>3, <3>4
    <3> QED
      BY <2>4, <3>2, <3>5 DEF TypeOK
  <2> QED
    BY <2>5, <2>6, <2>7 DEF Pointers
<1> QED
  BY <1>2, <1>4, <1>6

----------------------------------------------------------------------------
(* Sums of sizes.                                                           *)

FirstIn(T) == CHOOSE j \in T : TRUE
Summing(S, f) ==
    f = [T \in SUBSET S |-> IF T = {} THEN 0 ELSE ItemSize[FirstIn(T)] + f[T \ {FirstIn(T)}]]

\* The sum over the subsets of one set is that over the subsets of another.
LEMMA SumsAgree ==
    ASSUME NEW A \in SUBSET Items, NEW B \in SUBSET Items, NEW f, NEW g,
           Summing(A, f), Summing(B, g), NEW T \in SUBSET (A \cap B)
    PROVE  f[T] = g[T]
<1> DEFINE Bad == {S \in SUBSET (A \cap B) : f[S] # g[S]}
<1>1. SUFFICES ASSUME Bad # {} PROVE FALSE
  OBVIOUS
<1>2. PICK S \in Bad : \A R \in Bad : R \subseteq S => R = S
  <2>1. Bad \subseteq FiniteSubsetsOf(Items)
    BY ItemsAssumption, FS_Subset DEF FiniteSubsetsOf
  <2> HIDE DEF Bad
  <2> QED
    BY <1>1, <2>1, LeastSet
<1> DEFINE c == FirstIn(S)
<1>3. S \in SUBSET A /\ S \in SUBSET B
  OBVIOUS
<1>4. /\ f[S] = IF S = {} THEN 0 ELSE ItemSize[c] + f[S \ {c}]
      /\ g[S] = IF S = {} THEN 0 ELSE ItemSize[c] + g[S \ {c}]
  BY <1>3 DEF Summing
<1>5. S # {} => c \in S
  BY DEF FirstIn
<1>6. S # {} => f[S \ {c}] = g[S \ {c}]
  <2>1. S # {} => S \ {c} \in SUBSET (A \cap B) /\ S \ {c} \subseteq S /\ S \ {c} # S
    BY <1>5
  <2> QED
    BY <1>2, <2>1
<1> QED
  BY <1>4, <1>6

LEMMA SummingExists ==
    ASSUME NEW S \in SUBSET Items
    PROVE  \E f : Summing(S, f)
<1> DEFINE Bad == {R \in SUBSET Items : ~ \E f : Summing(R, f)}
<1>1. SUFFICES ASSUME Bad # {} PROVE FALSE
  OBVIOUS
<1>2. PICK R \in Bad : \A Q \in Bad : Q \subseteq R => Q = R
  <2>1. Bad \subseteq FiniteSubsetsOf(Items)
    BY ItemsAssumption, FS_Subset DEF FiniteSubsetsOf
  <2> HIDE DEF Bad
  <2> QED
    BY <1>1, <2>1, LeastSet
<1> DEFINE sum(Q) == (CHOOSE f : Summing(Q, f))[Q]
           h == [T \in SUBSET R |-> IF T = {} THEN 0
                                    ELSE ItemSize[FirstIn(T)] + sum(T \ {FirstIn(T)})]
<1>3. ASSUME NEW T \in SUBSET R, T # {}
      PROVE  h[T \ {FirstIn(T)}] = sum(T \ {FirstIn(T)})
  <2> DEFINE Q == T \ {FirstIn(T)}
             q == FirstIn(Q)
             g == CHOOSE f : Summing(Q, f)
  <2>1. FirstIn(T) \in T
    BY <1>3 DEF FirstIn
  <2>2. Q \in SUBSET R /\ Q # R /\ Q \in SUBSET Items
    BY <2>1
  <2>3. Summing(Q, g)
    <3>1. Q \notin Bad
      BY <1>2, <2>2
    <3>2. \E f : Summing(Q, f)
      BY <2>2, <3>1
    <3> QED
      BY <3>2
  <2>4. g[Q] = IF Q = {} THEN 0 ELSE ItemSize[q] + g[Q \ {q}]
    BY <2>3 DEF Summing
  <2>5. h[Q] = IF Q = {} THEN 0 ELSE ItemSize[q] + sum(Q \ {q})
    BY <2>2
  <2>6. CASE Q = {}
    BY <2>4, <2>5, <2>6
  <2>7. CASE Q # {}
    <3> DEFINE P == Q \ {q}
               k == CHOOSE f : Summing(P, f)
    <3>1. P \in SUBSET R /\ P # R /\ P \in SUBSET Items /\ P \in SUBSET (Q \cap P)
      BY <2>1
    <3>2. Summing(P, k)
      <4>1. P \notin Bad
        BY <1>2, <3>1
      <4>2. \E f : Summing(P, f)
        BY <3>1, <4>1
      <4> QED
        BY <4>2
    <3>3. g[P] = k[P]
      <4> HIDE DEF Q, P, g, k
      <4> QED
        BY <2>2, <2>3, <3>1, <3>2, SumsAgree
    <3> QED
      BY <2>4, <2>5, <2>7, <3>3
  <2> QED
    BY <2>6, <2>7
<1>4. Summing(R, h)
  <2>1. h = [T \in SUBSET R |-> IF T = {} THEN 0
                                ELSE ItemSize[FirstIn(T)] + h[T \ {FirstIn(T)}]]
    <3>1. \A T \in SUBSET R : T # {} => h[T \ {FirstIn(T)}] = sum(T \ {FirstIn(T)})
      BY <1>3
    <3> HIDE DEF sum
    <3>2. ASSUME NEW T \in SUBSET R
          PROVE  h[T] = IF T = {} THEN 0 ELSE ItemSize[FirstIn(T)] + h[T \ {FirstIn(T)}]
      <4>1. h[T] = IF T = {} THEN 0 ELSE ItemSize[FirstIn(T)] + sum(T \ {FirstIn(T)})
        OBVIOUS
      <4> HIDE DEF h
      <4> QED
        BY <3>1, <4>1
    <3>3. h = [T \in SUBSET R |-> h[T]]
      OBVIOUS
    <3> HIDE DEF h
    <3> QED
      BY <3>2, <3>3
  <2> HIDE DEF h
  <2> QED
    BY <2>1 DEF Summing
<1> QED
  BY <1>2, <1>4

LEMMA SumUnfolds ==
    ASSUME NEW S \in SUBSET Items
    PROVE  SumOfSizes(S) = IF S = {} THEN 0
                           ELSE ItemSize[FirstIn(S)] + SumOfSizes(S \ {FirstIn(S)})
<1> DEFINE f(T) == CHOOSE g : Summing(T, g)
           R == S \ {FirstIn(S)}
<1>1. \A T \in SUBSET Items : Summing(T, f(T)) /\ SumOfSizes(T) = f(T)[T]
  <2> TAKE T \in SUBSET Items
  <2>1. \E g : Summing(T, g)
    BY SummingExists
  <2>2. Summing(T, f(T))
    BY <2>1
  <2>3. SumOfSizes(T) = f(T)[T]
    BY DEF SumOfSizes, Summing, FirstIn
  <2> QED
    BY <2>2, <2>3
<1> HIDE DEF f
<1>2. f(S)[S] = IF S = {} THEN 0 ELSE ItemSize[FirstIn(S)] + f(S)[R]
  BY <1>1 DEF Summing
<1>3. f(S)[R] = f(R)[R]
  <2>1. R \in SUBSET Items /\ R \in SUBSET (S \cap R)
    OBVIOUS
  <2>2. Summing(S, f(S)) /\ Summing(R, f(R))
    BY <1>1, <2>1
  <2> HIDE DEF R
  <2> QED
    BY <2>1, <2>2, SumsAgree
<1> QED
  BY <1>1, <1>2, <1>3

\* A sum can be taken in any order.
LEMMA SumWithout ==
    ASSUME NEW S \in SUBSET Items, NEW i \in S
    PROVE  SumOfSizes(S) = ItemSize[i] + SumOfSizes(S \ {i}) /\ SumOfSizes(S) \in Nat
<1> DEFINE Good(T) == /\ \A j \in T : SumOfSizes(T) = ItemSize[j] + SumOfSizes(T \ {j})
                      /\ SumOfSizes(T) \in Nat
           Bad == {T \in SUBSET Items : ~Good(T)}
<1>1. SUFFICES ASSUME Bad # {} PROVE FALSE
  OBVIOUS
<1>2. PICK T \in Bad : \A R \in Bad : R \subseteq T => R = T
  <2>1. Bad \subseteq FiniteSubsetsOf(Items)
    BY ItemsAssumption, FS_Subset DEF FiniteSubsetsOf
  <2> HIDE DEF Bad
  <2> QED
    BY <1>1, <2>1, LeastSet
<1>3. \A R \in SUBSET Items : R \subseteq T /\ R # T => Good(R)
  BY <1>2
<1> DEFINE c == FirstIn(T)
<1>4. T # {}
  <2>1. SumOfSizes({}) = 0
    BY SumUnfolds
  <2>2. Good({})
    BY <2>1
  <2>3. ~Good(T)
    BY <1>2
  <2> HIDE DEF Good
  <2> QED
    BY <2>2, <2>3
<1>5. c \in T
  BY <1>4 DEF FirstIn
<1>6. SumOfSizes(T) = ItemSize[c] + SumOfSizes(T \ {c})
  BY <1>4, SumUnfolds
<1> HIDE DEF Good, Bad, c
<1>7. \A j \in T : Good(T \ {j}) /\ ItemSize[j] \in Nat
  BY <1>2, <1>3, CHeapAssumption DEF Bad
<1>8. SumOfSizes(T) \in Nat
  BY <1>5, <1>6, <1>7 DEF Good
<1>9. ASSUME NEW j \in T PROVE SumOfSizes(T) = ItemSize[j] + SumOfSizes(T \ {j})
  <2>1. CASE j = c
    BY <1>6, <2>1
  <2>2. CASE j # c
    <3>1. SumOfSizes(T \ {c}) = ItemSize[j] + SumOfSizes((T \ {c}) \ {j})
      BY <1>5, <1>7, <2>2 DEF Good
    <3>2. SumOfSizes(T \ {j}) = ItemSize[c] + SumOfSizes((T \ {j}) \ {c})
      BY <1>5, <1>7, <2>2 DEF Good
    <3>3. (T \ {c}) \ {j} = (T \ {j}) \ {c}
      OBVIOUS
    <3>4. SumOfSizes((T \ {c}) \ {j}) \in Nat
      <4>1. Good((T \ {c}) \ {j})
        <5>1. (T \ {c}) \ {j} \in SUBSET Items /\ (T \ {c}) \ {j} \subseteq T
              /\ (T \ {c}) \ {j} # T
          BY <1>2, <1>5 DEF Bad
        <5> QED
          BY <1>3, <5>1
      <4> QED
        BY <4>1 DEF Good
    <3> QED
      BY <1>5, <1>6, <1>7, <3>1, <3>2, <3>3, <3>4
  <2> QED
    BY <2>1, <2>2
<1> QED
  BY <1>2, <1>8, <1>9 DEF Bad, Good

\* Every sum is a number.
LEMMA SumIsNat ==
    ASSUME NEW S \in SUBSET Items
    PROVE  SumOfSizes(S) \in Nat
<1>1. SumOfSizes({}) = 0
  BY SumUnfolds
<1>2. ASSUME NEW i \in S PROVE SumOfSizes(S) \in Nat
  BY <1>2, SumWithout
<1> QED
  BY <1>1, <1>2

LEMMA SumWith ==
    ASSUME NEW S \in SUBSET Items, NEW i \in Items, i \notin S
    PROVE  SumOfSizes(S \cup {i}) = SumOfSizes(S) + ItemSize[i]
<1>1. S \cup {i} \in SUBSET Items /\ i \in S \cup {i} /\ (S \cup {i}) \ {i} = S
  OBVIOUS
<1>2. SumOfSizes(S \cup {i}) = ItemSize[i] + SumOfSizes(S)
  BY <1>1, SumWithout
<1>3. SumOfSizes(S) \in Nat
  BY SumIsNat
<1> QED
  BY <1>2, <1>3, CHeapAssumption

----------------------------------------------------------------------------
(* CHeap.size.                                                              *)

SizesRight == \A v \in VMs : size[v] = SumOfSizes(Own(v))

LEMMA InitSizes == Init => SizesRight
<1> SUFFICES ASSUME Init, NEW v \in VMs PROVE size[v] = SumOfSizes(Own(v))
  BY DEF SizesRight
<1>1. Own(v) = {} /\ size[v] = 0
  BY DEF Init, Own, InList
<1>2. SumOfSizes({}) = 0
  BY SumUnfolds
<1> QED
  BY <1>1, <1>2

\* An item i leaves the list of v.
LEMMA FreeKeepsSizes ==
    ASSUME TypeOK, Links, SizesRight, NEW v \in VMs, NEW i \in Items, InList(i), owner[i] = v,
           c_heap_free_item(v, i), UNCHANGED history
    PROVE  SizesRight'
<1>1. \A j \in Items : InList(j)' <=> InList(j) /\ j # i
  BY FreeKeepsLists
<1>2. owner' = owner /\ size' = [size EXCEPT ![v] = @ - ItemSize[i]]
  BY DEF history, c_heap_free_item
<1>3. ASSUME NEW w \in VMs PROVE size'[w] = SumOfSizes(Own(w)')
  <2>1. CASE w = v
    <3>1. Own(v)' = Own(v) \ {i} /\ i \in Own(v) /\ Own(v) \in SUBSET Items
      BY <1>1, <1>2 DEF Own
    <3>2. SumOfSizes(Own(v)) = ItemSize[i] + SumOfSizes(Own(v) \ {i})
      BY <3>1, SumWithout
    <3>3. SumOfSizes(Own(v) \ {i}) \in Nat
      <4>1. Own(v) \ {i} \in SUBSET Items
        BY <3>1
      <4> QED
        BY <4>1, SumIsNat
    <3>4. size'[v] = size[v] - ItemSize[i] /\ size[v] = SumOfSizes(Own(v)) /\ ItemSize[i] \in Nat
      BY <1>2, CHeapAssumption DEF TypeOK, SizesRight
    <3> QED
      BY <2>1, <3>1, <3>2, <3>3, <3>4
  <2>2. CASE w # v
    <3>1. Own(w)' = Own(w)
      BY <1>1, <1>2, <2>2 DEF Own
    <3>2. size'[w] = size[w]
      BY <1>2, <2>2 DEF TypeOK
    <3> QED
      BY <3>1, <3>2 DEF SizesRight
  <2> QED
    BY <2>1, <2>2
<1> QED
  BY <1>3 DEF SizesRight

\* A step that neither inserts nor frees.
LEMMA SameSizes ==
    ASSUME SizesRight, size' = size, owner' = owner,
           \A i \in Items : InList(i)' <=> InList(i)
    PROVE  SizesRight'
<1>1. \A v \in VMs : Own(v)' = Own(v)
  BY DEF Own
<1> QED
  BY <1>1 DEF SizesRight

LEMMA InsertSizes ==
    ASSUME IInv, SizesRight, NEW v \in VMs, Insert(v)
    PROVE  SizesRight'
<1> DEFINE i == item[v]
<1>1. i \in Items /\ memory[i] = "allocated" /\ prevNext[i] = NULL
  BY DEF Insert, IInv, Fresh, AlreadyInserted, TypeOK, At
<1>2. Linked(v, i) /\ owner' = [owner EXCEPT ![i] = v]
      /\ order' = [order EXCEPT ![i] = clock + 1] /\ memory' = memory
  BY DEF Insert
<1>3. \A j \in Items : InList(j)' <=> InList(j) \/ j = i
  BY <1>1, <1>2, InsertKeepsLists DEF IInv
<1>4. size' = [size EXCEPT ![v] = @ + ItemSize[i]]
  BY <1>2 DEF Linked
<1>5. ~InList(i)
  BY <1>1 DEF InList
<1> HIDE DEF i
<1>6. ASSUME NEW w \in VMs PROVE size'[w] = SumOfSizes(Own(w)')
  <2>1. \A j \in Items : owner'[j] = IF j = i THEN v ELSE owner[j]
    BY <1>1, <1>2 DEF IInv, TypeOK
  <2>2. CASE w = v
    <3>1. Own(v)' = Own(v) \cup {i} /\ i \notin Own(v) /\ Own(v) \in SUBSET Items
      BY <1>1, <1>3, <1>5, <2>1 DEF Own
    <3>2. SumOfSizes(Own(v) \cup {i}) = SumOfSizes(Own(v)) + ItemSize[i]
      BY <1>1, <3>1, SumWith
    <3>3. size'[v] = size[v] + ItemSize[i]
      BY <1>4 DEF IInv, TypeOK
    <3> QED
      BY <2>2, <3>1, <3>2, <3>3 DEF SizesRight
  <2>3. CASE w # v
    <3>1. Own(w)' = Own(w)
      BY <1>3, <1>5, <2>1, <2>3 DEF Own
    <3>2. size'[w] = size[w]
      BY <1>4, <2>3 DEF IInv, TypeOK
    <3> QED
      BY <3>1, <3>2 DEF SizesRight
  <2> QED
    BY <2>2, <2>3
<1> QED
  BY <1>6 DEF SizesRight

LEMMA NextSizes ==
    ASSUME IInv, SizesRight, [Next]_vars
    PROVE  SizesRight'
<1>1. CASE UNCHANGED vars
  BY <1>1, SameSizes DEF vars, InList
<1>2. ASSUME NEW v \in VMs, NEW i \in Items, Create(v, i) PROVE SizesRight'
  <2>1. \A j \in Items : InList(j)' <=> InList(j)
    BY <1>2 DEF Create, InList, IInv, TypeOK
  <2> QED
    BY <1>2, <2>1, SameSizes DEF Create, history
<1>3. ASSUME NEW v \in VMs, NEW w \in VMs, NEW i \in Items,
             Wrap(v, i) \/ Drop(v, i) \/ Send(v, w, i)
      PROVE  SizesRight'
  BY <1>3, SameSizes DEF Wrap, Drop, Send, listVars, history, InList
<1>4. ASSUME NEW v \in VMs, SweepFrees(v) PROVE SizesRight'
  <2>1. sweepP[v] \in Items /\ InList(sweepP[v]) /\ owner[sweepP[v]] = v
    BY <1>4 DEF SweepFrees, IInv, Links, SweepInList, TypeOK, ItemOrNull
  <2> QED
    BY <1>4, <2>1, FreeKeepsSizes DEF SweepFrees, IInv
<1>5. ASSUME NEW v \in VMs, DestroyOne(v) PROVE SizesRight'
  <2>1. first[v] \in Items /\ InList(first[v]) /\ owner[first[v]] = v
    BY <1>5 DEF DestroyOne, IInv, Links, HeadLinked, TypeOK, ItemOrNull
  <2> QED
    BY <1>5, <2>1, FreeKeepsSizes DEF DestroyOne, IInv
<1>6. ASSUME NEW v \in VMs, Insert(v) PROVE SizesRight'
  BY <1>6, InsertSizes
<1>7. ASSUME NEW v \in VMs,
             \/ InsertedBefore(v) \/ AllocateCollects(v) \/ Allocate(v) \/ Collect(v)
             \/ Mark(v) \/ SweepKeeps(v) \/ SweepEnds(v) \/ Stop(v) \/ DestroyEnds(v)
      PROVE  SizesRight'
  <2>1. UNCHANGED <<size, owner, memory, prevNext>>
    BY <1>7 DEF InsertedBefore, AllocateCollects, Allocate, Collect, Mark, SweepKeeps,
                SweepEnds, Stop, DestroyEnds, listVars, history
  <2> QED
    BY <2>1, SameSizes DEF InList
<1> QED
  BY <1>1, <1>2, <1>3, <1>4, <1>5, <1>6, <1>7 DEF Next, Thread

\* idris_heap.c: whoever follows next from first meets every item that was
\* inserted and not freed, and no other one, and CHeap.size is the sum of their
\* sizes, so that its assertion in c_heap_free_item holds and the trigger is
\* compared with what is there.
THEOREM ListsHoldAll == Spec => []ListsComplete
<1>1. IInv /\ SizesRight => ListsComplete
  <2> SUFFICES ASSUME IInv, SizesRight PROVE ListsComplete
    OBVIOUS
  <2>1. \A v \in VMs : Listed(v) = Own(v)
    BY ListedIsOwn DEF IInv
  <2> QED
    BY <2>1 DEF ListsComplete, SizesRight, Own
<1>2. IInv /\ SizesRight /\ [Next]_vars => SizesRight'
  BY NextSizes
<1> QED
  BY <1>1, <1>2, InitIInv, NextIInv, InitSizes, PTL DEF Spec

=============================================================================
