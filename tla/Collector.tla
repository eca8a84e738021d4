----------------------------- MODULE Collector -----------------------------
(***************************************************************************)
(* The copying collector of a VM (rts/idris_gc.c) and the allocation that  *)
(* calls it (iallocate, rts/idris_rts.c).  A program keeps values in its   *)
(* roots; when a cell does not fit, the collection copies what the roots   *)
(* reach into a new heap and frees the heap that the last collection left. *)
(*                                                                         *)
(* One thread and its heap: who else may touch the heap is in HeapSharing. *)
(* Sizes are in words.  A collection takes a step for each root and each   *)
(* cell it scans.                                                          *)
(***************************************************************************)
EXTENDS Integers, Sequences, FiniteSets

CONSTANTS
    Root,        \* 1 .. n: value stack, inbox, ret and reg1, in this order
    Kinds,       \* <<type, number of fields>> of the cells the program makes
    HeapSize,    \* first size of the heap, and its growth
    MaxSize,     \* bound: no allocation starts in a larger heap
    MaxGmp,      \* IDRIS_MAXGMP: the room a big integer asks for
    MaxObjects   \* bound: objects that are reached at one time

ASSUME CollectorAssumption ==
    /\ IsFiniteSet(Root) /\ Root = 1 .. Cardinality(Root)
    /\ {HeapSize, MaxSize, MaxGmp, MaxObjects} \subseteq Nat \ {0}
\* No value of a program is a forward, what copy leaves no forward for is raw bits
\* without fields, and a big integer fits in the room that is asked for it (65536
\* bytes).
ASSUME KindsAssumption ==
    \A kind \in Kinds : /\ kind[1] # "FWD" /\ kind[2] \in Nat
                        /\ kind[1] = "FLOAT" => kind[2] = 0
ASSUME GmpAssumption == MaxGmp >= 3

VARIABLES
    heap,        \* the cells of three heaps: the working one, old and a freed one
    now,         \* which of them is vm->heap.heap
    end,         \* the size it was allocated with
    size,        \* heap.size: that of the next one
    root,        \* the roots
    pc,          \* "run", or where iallocate or idris_gc is
    call,        \* the arguments of the allocation under way
    back,        \* where idris_gc returns to
    next,        \* the root or the cell that is copied or scanned next
    marked,      \* the items of the C heap that copy marked
    fate         \* "run", or why nothing is defined any more

vars == <<heap, now, end, size, root, pc, call, back, next, marked, fate>>

----------------------------------------------------------------------------
(* Values and cells.  A value is NULL or a pointer <<heap, index>>.  The id *)
(* of a cell is history: it names the object, wherever it was copied to.    *)

NULL == <<>>
Id == 1 .. MaxObjects

\* BITS32, BITS64 and FLOAT are all alike here, as are STRING, PTR,
\* MANAGEDPTR and RAWDATA.
Unshared == {"FLOAT"}
HeldInC == {"REF", "ARRAY"}     \* made from a C variable
Copying == {"STRING"}           \* filled from what C pointers point to: concat
Written == {"REF", "ARRAY"}

WordsOf(ty, n) == CASE ty = "CON"        -> 2 + n
                    [] ty = "ARRAY"      -> 1 + n
                    [] ty = "REF"        -> 2
                    [] ty = "STROFFSET"  -> 3
                    [] ty = "BIGINT"     -> 3
                    [] ty = "STRING"     -> 3
                    [] OTHER             -> 2
Size(cell) == WordsOf(cell.ty, Len(cell.args))
FwdSize == 2

Used(cells) ==
    LET sum[n \in 0 .. Len(cells)] == IF n = 0 THEN 0 ELSE sum[n - 1] + Size(cells[n])
    IN  sum[Len(cells)]

\* heap.next + n < heap.end
Room(cells, n) == Used(cells) + n < end

Old == (now + 2) % 3
Cell(h, v) == h[v[1]][v[2]]
\* A cell that was moved stands for its copy.
Deref(h, v) == LET c == Cell(h, v) IN IF c.ty = "FWD" THEN Cell(h, c.args[1]) ELSE c

Kids(h, v) == {Deref(h, v).args[k] : k \in DOMAIN Deref(h, v).args} \ {NULL}
\* The pointers that are reached, followed through copies.
ReachedFrom(h, S0) ==
    LET after[n \in 0 .. MaxObjects] ==
          IF n = 0 THEN S0 \ {NULL}
          ELSE LET S == after[n - 1] IN S \cup UNION {Kids(h, v) : v \in S}
    IN  after[MaxObjects]
Roots == {root[x] : x \in Root}
Live == ReachedFrom(heap, Roots)
IdOf(v) == IF v = NULL THEN 0 ELSE Cell(heap, v).id
LiveIds == {IdOf(v) : v \in Live}

Init == /\ heap = [s \in 0 .. 2 |-> <<>>]
        /\ now = 0
        /\ end = HeapSize
        /\ size = HeapSize
        /\ root = [x \in Root |-> NULL]
        /\ pc = "run"
        /\ call = <<>>
        /\ back = "run"
        /\ next = 0
        /\ marked = {}
        /\ fate = "run"

At(label) == fate = "run" /\ pc = label
memory == <<heap, now, end, size, back, next, marked, fate>>

----------------------------------------------------------------------------
(* iallocate, and what its caller fills the cell with.                      *)

Needed(c) == WordsOf(c.ty, Len(c.held))

SecondRoot == 2                        \* mutant of FirstRoot
FirstRoot == 1

\* idris_gc up to the first root: what was the working heap becomes the old one.
idris_gc(newSize, to) ==
    /\ now' = (now + 1) % 3
    /\ end' = newSize
    /\ size' = newSize
    /\ pc' = "roots"
    /\ back' = to
    /\ next' = FirstRoot
    /\ UNCHANGED <<heap, root, marked, fate>>

\* The fields of a CON are read from the roots when the cell is there, those of
\* a REF or an ARRAY come from a variable of newRef or newArray.
Argument(c, k) == IF c.ty \in HeldInC THEN c.held[k] ELSE root[c.from[k]]
NewCell(c, i) ==
    [ty |-> c.ty, id |-> i,
     args |-> IF c.ty \in Copying THEN <<>> ELSE [k \in DOMAIN c.held |-> Argument(c, k)]]

\* What one collection moved can be read until the next one frees it.
Freed(v) == v # NULL /\ v[1] \notin {now, Old}
Stale(c) == \E k \in DOMAIN c.held :
               IF c.ty \in Copying THEN Freed(c.held[k]) ELSE Argument(c, k) # root[c.from[k]]

\* A string is made of strings, of the heap or (NULL) of the program.
Fitting(kind, from) ==
    kind[1] \in Copying =>
        \A k \in DOMAIN from : root[from[k]] # NULL => Cell(heap, root[from[k]]).ty \in Copying

Allocate(c) ==
    /\ Room(heap[now], Needed(c))
    /\ IF Stale(c) THEN fate' = "stale" /\ call' = c /\ UNCHANGED <<heap, root>>
       ELSE /\ LET i == CHOOSE i \in Id \ LiveIds : \A j \in Id \ LiveIds : i <= j
               IN  heap' = [heap EXCEPT ![now] = Append(@, NewCell(c, i))]
            /\ root' = [root EXCEPT ![c.root] = <<now, Len(heap[now]) + 1>>]
            /\ call' = <<>>
            /\ UNCHANGED fate
    /\ pc' = "run"
    /\ UNCHANGED <<now, end, size, back, next, marked>>

\* A cell larger than the heap makes it grow first.
NoRoom(c) ==
    /\ ~Room(heap[now], Needed(c))
    /\ idris_gc(IF Needed(c) > size THEN size + Needed(c) ELSE size, "again")
    /\ call' = c

\* idris_requireAlloc of allocBig: it collects once, and does not look again.
Required(c) == c.ty = "BIGINT" => Room(heap[now], MaxGmp)

Call(x, kind, from) ==
    /\ At("run")
    /\ size <= MaxSize
    /\ Cardinality(LiveIds) < MaxObjects
    /\ Fitting(kind, from)
    /\ LET c == [root |-> x, ty |-> kind[1], from |-> from,
                 held |-> [k \in DOMAIN from |-> root[from[k]]]]
       IN  IF Required(c) THEN Allocate(c) \/ NoRoom(c)
           ELSE idris_gc(size, "allocate") /\ call' = c

StillNoRoomNoGrowth ==     \* mutant of StillNoRoom
    /\ At("again")
    /\ ~Room(heap[now], Needed(call))
    /\ idris_gc(size, "allocate")
    /\ UNCHANGED call
StillNoRoom ==
    /\ At("again")
    /\ ~Room(heap[now], Needed(call))
    /\ idris_gc(size + Needed(call) + HeapSize, "allocate")
    /\ UNCHANGED call

\* iallocate calls itself.
RoomNow == At("again") /\ Allocate(call)
Retry == At("allocate") /\ (Allocate(call) \/ NoRoom(call))

----------------------------------------------------------------------------
(* The program.                                                             *)

\* idris_writeRef, idris_arraySet
Write(x, k, y) ==
    /\ At("run")
    /\ root[x] # NULL
    /\ Cell(heap, root[x]).ty \in Written
    /\ k \in DOMAIN Cell(heap, root[x]).args
    /\ heap' = [heap EXCEPT ![now][root[x][2]].args[k] = root[y]]
    /\ UNCHANGED <<now, end, size, root, pc, call, back, next, marked, fate>>

\* idris_readRef, idris_arrayGet, PROJECT
Read(x, y, k) ==
    /\ At("run")
    /\ root[y] # NULL
    /\ k \in DOMAIN Cell(heap, root[y]).args
    /\ root' = [root EXCEPT ![x] = Cell(heap, root[y]).args[k]]
    /\ UNCHANGED <<pc, call, memory>>

Drop(x) ==
    /\ At("run")
    /\ root[x] # NULL
    /\ root' = [root EXCEPT ![x] = NULL]
    /\ UNCHANGED <<pc, call, memory>>

\* idris_gcInfo, and c_heap_insert_if_needed.
Collect ==
    /\ At("run")
    /\ size <= MaxSize
    /\ heap[now] # <<>>
    /\ idris_gc(size, "run")
    /\ UNCHANGED call

----------------------------------------------------------------------------
(* copy and cheney.                                                         *)

NeverForwarded(c) == FALSE                                  \* mutant of Forwarded
RefsNotForwarded(c) == c.ty \notin Unshared \cup {"REF"}     \* mutant of Forwarded
Forwarded(c) == c.ty \notin Unshared

RoomToCopy(h, c) == Room(h[now], IF c.ty = "BIGINT" THEN MaxGmp ELSE Size(c))

\* What copying a value does: to the heaps, to the marks, to fate.
Copied(h, v) ==
    LET c == Cell(h, v)
        to == <<now, Len(h[now]) + 1>>
        there == [h EXCEPT ![now] = Append(@, c)]
        moved == [there EXCEPT ![v[1]][v[2]] = [ty |-> "FWD", id |-> c.id, args |-> <<to>>]]
    IN  IF v = NULL THEN [heap |-> h, val |-> v, marks |-> {}, fate |-> "run"]
        ELSE IF c.ty = "FWD" THEN [heap |-> h, val |-> c.args[1], marks |-> {}, fate |-> "run"]
        ELSE IF ~RoomToCopy(h, c) THEN [heap |-> h, val |-> v, marks |-> {}, fate |-> "nested"]
        ELSE IF ~Forwarded(c) THEN [heap |-> there, val |-> to, marks |-> {}, fate |-> "run"]
        ELSE IF Size(c) < FwdSize THEN [heap |-> h, val |-> v, marks |-> {}, fate |-> "smashed"]
        ELSE [heap |-> moved, val |-> to, marks |-> IF c.ty = "CDATA" THEN {c.id} ELSE {},
              fate |-> "run"]

MarksKept == marked                    \* mutant of Swept
Swept == {}

CopyRoot ==
    /\ At("roots")
    /\ next \in Root
    /\ LET r == Copied(heap, root[next])
       IN  /\ heap' = r.heap
           /\ root' = [root EXCEPT ![next] = r.val]
           /\ marked' = marked \cup r.marks
           /\ fate' = r.fate
    /\ next' = next + 1
    /\ UNCHANGED <<now, end, size, pc, call, back>>

RootsDone ==
    /\ At("roots")
    /\ next \notin Root
    /\ pc' = "cheney"
    /\ next' = 1
    /\ UNCHANGED <<heap, now, end, size, root, call, back, marked, fate>>

Scans(c) == Len(c.args)

\* The fields of one cell, in order.
Scanned(i) ==
    LET c == heap[now][i]
        after[k \in 0 .. Scans(c)] ==
          IF k = 0 THEN [heap |-> heap, marks |-> {}, fate |-> "run"]
          ELSE LET a == after[k - 1]
                   r == Copied(a.heap, c.args[k])
               IN  IF a.fate # "run" THEN a
                   ELSE [heap |-> [r.heap EXCEPT ![now][i].args[k] = r.val],
                         marks |-> a.marks \cup r.marks, fate |-> r.fate]
    IN  after[Scans(c)]

ScanCell ==
    /\ At("cheney")
    /\ next <= Len(heap[now])
    /\ LET s == Scanned(next)
       IN  /\ heap' = s.heap
           /\ marked' = marked \cup s.marks
           /\ fate' = s.fate
    /\ next' = next + 1
    /\ UNCHANGED <<now, end, size, root, pc, call, back>>

\* More than half full: the next heap is larger.
Fits == Used(heap[now]) + 1            \* mutant of NextSize
Shrinks == IF Used(heap[now]) > size \div 2 THEN size + HeapSize ELSE size - HeapSize  \* mutant too
NextSize == IF Used(heap[now]) > size \div 2 THEN size + HeapSize ELSE size

\* After idris_gc: c_heap_sweep, which clears the marks.  Nothing should read
\* the old heap again: its cells are forgotten here, although they are there
\* until the next collection frees them.
idris_gcEnds ==
    /\ At("cheney")
    /\ next > Len(heap[now])
    /\ size' = NextSize
    /\ heap' = [heap EXCEPT ![Old] = <<>>]
    /\ pc' = back
    /\ marked' = Swept
    /\ next' = 0
    /\ back' = "run"
    /\ UNCHANGED <<now, end, root, call, fate>>

Collection == CopyRoot \/ RootsDone \/ ScanCell \/ idris_gcEnds
Allocation == StillNoRoom \/ RoomNow \/ Retry

Next == \/ \E x \in Root :
             \/ \E kind \in Kinds : \E from \in [1 .. kind[2] -> Root] : Call(x, kind, from)
             \/ \E y \in Root, k \in 1 .. 2 : Write(x, k, y) \/ Read(x, y, k)
             \/ Drop(x)
        \/ Collect
        \/ Collection \/ Allocation

Spec == Init /\ [][Next]_vars

----------------------------------------------------------------------------
(* Properties.                                                              *)

Values == {NULL} \cup {v \in (0 .. 2) \X Nat : v[2] \in DOMAIN heap[v[1]]}

Fields(kind) == IF kind[1] \in Copying THEN 0 ELSE kind[2]
HasItsFields(c) ==
    \/ c.ty = "FWD" /\ Len(c.args) = 1
    \/ \E kind \in Kinds : c.ty = kind[1] /\ Len(c.args) = Fields(kind)

\* Cells have an id and as many fields as their type says, and pointers point
\* to cells of the working heap or, during a collection, of the old one.
TypeOK ==
    /\ now \in 0 .. 2
    /\ {end, size, next} \subseteq Nat
    /\ pc \in {"run", "allocate", "again", "roots", "cheney"}
    /\ back \in {"run", "allocate", "again"}
    /\ marked \subseteq Id
    /\ fate \in {"run", "stale", "nested", "smashed"}
    /\ \A x \in Root : root[x] \in Values
    /\ \A s \in 0 .. 2 : \A i \in DOMAIN heap[s] :
          heap[s][i].id \in Id /\ HasItsFields(heap[s][i])

\* heap_check_all of rts/idris_heap.c: while the program runs, every pointer of
\* the roots and of the working heap points into the working heap, none to what
\* a collection left behind, and no cell is a forward.  During a collection
\* this holds of the roots and of the cells that are copied and scanned.
Current(v) == v # NULL => v[1] = now
CurrentCells == IF pc = "cheney" THEN 1 .. next - 1 ELSE DOMAIN heap[now]
HeapChecks ==
    fate = "run" /\ pc # "roots" =>
        /\ \A x \in Root : Current(root[x])
        /\ \A i \in CurrentCells : \A k \in DOMAIN heap[now][i].args : Current(heap[now][i].args[k])
        /\ \A i \in DOMAIN heap[now] : heap[now][i].ty # "FWD"
        /\ Used(heap[now]) <= end

\* A collection copies what is reached and nothing else, and each object once,
\* unless it is of a type that leaves no forward behind.
CollectionEnds == pc = "cheney" /\ pc' # "cheney"
ReachedCopiedOnce ==
    [][CollectionEnds =>
         /\ \A i \in DOMAIN heap'[now'] : <<now', i>> \in Live'
         /\ \A i, j \in DOMAIN heap'[now'] :
               heap'[now'][i].id = heap'[now'][j].id =>
                   i = j \/ heap'[now'][i].ty \in Unshared]_vars

\* When the C heap is swept, the marked items are those of the reached CDATA
\* cells: an item in use is not finalized, one that is not in use is.
MarkedAreReached ==
    [][CollectionEnds =>
         marked = {heap'[v[1]][v[2]].id : v \in {w \in Live' : heap'[w[1]][w[2]].ty = "CDATA"}}]_vars

\* What runs out of room while it copies holds a cell that is copied once for
\* every pointer to it, or a big integer, which is copied through a buffer of
\* IDRIS_MAXGMP; what becomes stale was held by newRef or newArray, or read by
\* what makes a string; what is smashed has no fields.
FailuresHaveTheirCause ==
    /\ fate = "nested" =>
         \E v \in Live : Deref(heap, v).ty \in Unshared \cup {"BIGINT"}
    /\ fate = "stale" => call.ty \in HeldInC \cup Copying
    /\ fate = "smashed" => \E v \in Live : Deref(heap, v).ty = "ARRAY" /\ Deref(heap, v).args = <<>>

\* An allocation makes at most two collections: the size iallocate asks for
\* before the second is enough, whatever that collection copies.
TwoCollectionsDo == [][pc = "allocate" /\ fate = "run" => pc' = "run"]_vars

\* What the program sees: the identities in its roots, and an object for each that
\* is reached.
SeenRoot == [x \in Root |-> IdOf(root[x])]
SeenObject ==
    LET live == Live
        CellOf(i) == Deref(heap, CHOOSE v \in live : IdOf(v) = i)
        Object(c) == [ty |-> c.ty, args |-> [k \in DOMAIN c.args |-> IdOf(c.args[k])]]
    IN  [i \in {IdOf(v) : v \in live} |-> Object(CellOf(i))]

\* Through all of it the program sees objects that stay what and where they are.
store == INSTANCE Store WITH Null <- 0, root <- SeenRoot, object <- SeenObject
ImplementsStore == store!Spec

\* The assertion of copy, idris_gc.c:53: a cell that is moved has room for the
\* forward.
ForwardFits == fate # "smashed"
\* cheney, idris_gc.c:99, takes it that copying never leaves the new heap.
NeverNested == fate # "nested"
\* What newRef and newArray store is what they were called with, and what concat
\* reads is still there.
NeverStale == fate # "stale"
=============================================================================
