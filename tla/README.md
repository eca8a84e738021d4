# Verification of the Idris run time system

This directory models the run time system (RTS) of Idris 1.3.3,
`src/idris-1.3.3/rts`, in TLA+: its processes and locks, its memory, and the
numbers, strings and buffers it computes with. The repository is a collection of
sample programs for the GHC whole program compiler: Agda, Idris, pandoc, alex,
a few patched libraries and two small programs. Most of it is sequential
Haskell over syntax trees. The Idris RTS is the part with state, threads,
locks, memory that moves and hand-written protocols: every program
the Idris compiler builds runs on it, and the repository has no test for what its
threads do to each other, for what a collection in the wrong place does, or for the
branches of its arithmetic that one operand in four thousand million takes.

Contents: [1 the system](#1-the-system), [2 the modules](#2-the-modules),
[3 the runs](#3-the-runs), [4 where code and documentation
disagree](#4-where-code-and-documentation-disagree), [5 the
proofs](#5-the-proofs), [6 what is not modelled](#6-what-is-not-modelled),
[7 the plan](#7-the-plan).

## 1 The system

An Idris process is a VM (`struct VM`, `idris_rts.h`) run by one pthread. A VM
owns a value stack, a heap that a copying collector replaces, a list of C
objects with finalizers, and an inbox. Processes share no values: a message is
copied into the heap of its receiver, *by the thread of the sender*. That one
decision is what makes the RTS hard, because it lets a thread touch the heap,
the inbox and the locks of another one.

| component (file, lines) | state | operations | interacts with |
|---|---|---|---|
| message passing (`idris_rts.c` 924-1123) | inbox, `inbox_write`, `inbox_nextid`; `inbox_lock`, `inbox_block`, `inbox_waiting` | send, receive (from anyone, one sender, one channel), the three checks | every VM appends to the inboxes of the others; the allocator copies; the collector treats the inbox as a root |
| lifecycle (`idris_rts.c` 132-157, 801-861) | `active`, `processes`, `creator` | `vmThread`, `runThread`, `terminate`, `idris_stopThread` | `active` gates send and receive; `processes > 0` switches the allocator's locking on |
| allocator (`idris_rts.c` 169-260, `idris_gmp.c` 19-33) | `heap.next`, `heap.end`, `heap.size`, `alloc_lock` | `iallocate`, `idris_requireAlloc`, `idris_doneAlloc` | called by the owner and by senders (`copyTo`); starts the collector |
| collector (`idris_gc.c`) | to-space, `heap.old`, forwarding pointers | `idris_gc`, `copy`, `cheney` | reads stack, inbox, `ret`, `reg1`; marks and sweeps the C heap; `copy` may itself allocate |
| C heap (`idris_heap.c` 9-107) | doubly linked list, `size`, `gc_trigger_size`, mark bits | create, insert, mark, sweep, destroy | insertion may start the collector; an item travels with a message |
| strings and UTF-8 (`idris_rts.c` 540-737, `idris_utf8.c`, `idris_stdfgn.c` 269-294) | STRING and STROFFSET cells; a string buffer | cons, concat, tail, substring, reverse, index, compare | allocator: an offset is shared if there is room, and copied if not |
| integers (`idris_gmp.c`, `mini-gmp.c`) and words (`idris_bitstring.c`) | fixnums, limbs, words of 8 to 64 bits | arithmetic, bits, shifts, comparison, conversion, peek and poke | allocator, for the limbs |
| buffers (`idris_buffer.c`, `Data/Buffer.idr`) | blocks of bytes with a size; a record with a location | get, set, copy, resize, read, write | files |
| options, statistics, main, files, network | process-wide | wrappers | operating system |
| channels (`libs/base/System/Concurrency`) | (pid, channel id) pairs | `connect`, `listen`, `unsafeSend`, `unsafeRecv` | message passing |

What makes each of them correct, and what makes that hard:

* **Message passing.** Each message sent to a live process is received once, by
  a receive it matches, with its sender and its channel, in the order of its
  sender; nobody sleeps while what it waits for is there; no lock is kept for
  ever. Hard: an append holds `inbox_lock` and a search holds `inbox_block`, so
  they overlap; a receive gives back one lock before it takes the other; the
  checks take none; signals, timeouts and spurious wakeups race; the last slot
  of a full inbox is special.
* **Lifecycle.** A stopped process is left alone, and the ones that talk to it
  notice. Hard: `active` is read once, without a lock, and written last;
  `processes` is changed by several threads without one.
* **Allocator.** Two threads never allocate in one heap at the same time;
  whoever takes `alloc_lock` gives it back; a request is granted after finitely
  many collections. Hard: whether to lock is decided anew at lock and unlock
  time; a send takes the lock of the receiver and may then need its own.
* **Collector.** What is reachable survives unchanged, exactly once. Hard: a
  value held only by a C variable, or by a message being copied, is no root; a
  collection may start inside a collection.
* **C heap.** A finalizer runs once, after the last use. Hard: an item belongs to
  the list of one VM and can be referred to from two.
* **Channels.** What is sent on a channel is received on that channel. Hard: a
  channel id is unique for one inbox only.
* **Strings.** A string is the same text however its bytes are shared. Hard:
  offsets count bytes in one place and characters in another, and what a function
  does depends on whether the heap had room.
* **Numbers.** The result is the one of arithmetic, or wraps where the type says
  so. Hard: two representations, short cuts that must see every overflow, and a
  long division whose corrections are needed for very few operands.
* **Buffers.** What has no room at its destination changes nothing. Hard: the
  source of a copy and the sign of a length are not tested (section 4).

The larger programs (the Idris compiler, Agda, pandoc, HTTP, alex and the
patched libraries) are sequential; section 6 says why they are left out.
`PROJECT.json` lists every component, and every hazard at its line.

## 2 The modules

| module | what it is |
|---|---|
| `Mailbox` | abstract specification: what an inbox promises |
| `MessagePassing` | the message passing of `idris_rts.c`, step by step, with `terminate` |
| `MCMessagePassing` | the calls used in the instances for TLC |
| `MessagePassingProofs` | theorems about `MessagePassing`, alone and as an implementation of `Mailbox` |
| `HeapSharing` | who allocates in whose heap: the allocator, `alloc_lock`, the copy of a message, the counter `processes`, `vmThread` and `terminate` |
| `MCHeapSharing` | the calls used in the instances for TLC |
| `HeapSharingProofs` | theorems about `HeapSharing`: the heaps and the copies, and the locks with the counter `processes` |
| `Store` | abstract specification: what a heap promises its program |
| `Collector` | the cells of one heap: `iallocate`, `idris_gc`, `copy` and `cheney`, pointer by pointer |
| `MCCollector`, `CollectorProofs` | kinds of cells for the instances, and the view that tells states apart; theorems about `Collector` |
| `CHeap` | the lists of C objects with finalizers, of VMs that share them |
| `MCCHeap`, `CHeapProofs` | instances; theorems about `CHeap` |
| `Text` | what strings are to a program: sequences of characters |
| `Utf8`, `Strings` | the UTF-8 functions; the string primitives and the string buffer |
| `MCStrings`, `StringsProofs` | characters and offsets for the instances; theorems about `Utf8` and `Strings` |
| `MiniGmp` | the part of `mini-gmp.c` that the RTS calls, limb by limb |
| `Words`, `Buffers` | fixed-width integers; blocks of bytes |
| `BigInt` | fixnums and big integers, and a program that computes with all of these |
| `Bits` | powers, digits and the bitwise operators of C |
| `MCNumbers` | operands for the instances |
| `LimbProofs`, `BigIntProofs` | lemmas about words, buffers and limbs: sums, products, bitwise operations; then order, shifts, division and the theorems about `BigInt` |
| `LeastElements` | induction in the form the proofs use it |

`MessagePassing` and `HeapSharing` are two views of the same threads: the first
follows a send from the inbox lock on and takes the copy as one step, the second
follows the allocations of the copy and ends where the inbox begins
(`SendStore`). They share no variable but `active` and `freed`. `Collector` takes
one heap of `HeapSharing` and looks inside a collection, which is one step there;
`CHeap` takes the marks and the sweep of such a collection and interleaves those of
several VMs. `Strings` and `BigInt` run on one thread and take an allocation as a
choice of whether there was room; `Collector` says what that choice does to what
they hold in C variables (`Copying`, `BIGINT`).

### MessagePassing

One action is one stretch of code between two points at which another thread
can observe or change what the code uses. `pc[p]` names the next stretch, and
the names in `SendSteps`, `RecvSteps` and `CheckSteps` follow the calls.

| state | code |
|---|---|
| `inbox[q]`, `inboxWrite[q]`, `nextId[q]` | `vm->inbox` (slots 1 .. `InboxSize` for the 1024 of `init_vm`), `vm->inbox_write` as an index, `vm->inbox_nextid` |
| `inboxLock[q]`, `inboxBlock[q]` | the holder of the mutex, `NoProc` when it is free |
| `sleeping` | VMs blocked in `pthread_cond_timedwait` on their `inbox_waiting` |
| `active[q]`, `freed[q]` | `vm->active`; whether `terminate` has released the memory and destroyed the mutexes |
| `peer`, `chan`, `cur`, `ret` | the locals `dest`/`sender`, `channel_id`, `msg` and `ret` of the running call |
| `seq[p]` | ghost: number of sends of `p`; `<<p, seq[p]>>` stands for the `VAL` that is sent |
| `sent`, `got` | ghost: what was published to, and removed from, each inbox |
| `fate` | `exit(-1)` on a full inbox, or the use of a freed VM |

| code | actions |
|---|---|
| `idris_sendMessage` 935-957 | `SendStart` (the test of `active`, then the copy), `SendLock` (the lock, and the exit when the inbox is full) |
| 959-969 | `SendMsg`, `SendChannel`, `SendSender`, `SendPublish`: one store each, because the checks can see a slot between two of them |
| 971-978 | `SendBlock`, `SendSignal`, `SendUnlock` |
| `idris_recvMessageFrom` 1059-1075 | `RecvStart`, `RecvLock`, `RecvScan` (the search of `idris_getMessageFrom` and the exit of the loop), `Sleep`, `TimeOut`, `Wake` |
| 1077-1106 | `RecvTake`, `RecvSlideLock`, `RecvSlide`, `RecvUnlock` |
| `idris_checkMessagesFrom`, `idris_checkInitMessages` | `CheckMessages`, `CheckInitMessages` |
| `idris_checkMessagesTimeout` | `TimedStart`, `TimedLock`, `Sleep`, `TimeOut`, `Wake`, `TimedUnlock`, `TimedScan` |
| `terminate` 132-157 | `StopFree`, `StopInactive` |

Decisions a reader should know:

* The searches are one step each. The owner is the only one who removes, and an
  append changes one slot that was free before, so that a search which reads the
  slots one after the other gives an answer some single moment would have given.
* The slide is one step too: the only other reader of the slots is the owner,
  which is sliding, and senders are kept out by `inbox_lock`.
* The stores of a send become visible in program order, as on x86.
* A wait may end at any time (`TimeOut`): after 3 seconds, after the delay of a
  check, or spuriously. Time itself is not modelled.
* `ret->channel_id` is memory from `malloc` that is never assigned: `RecvTake`
  chooses any value of `Junk`.
* After a use of a VM that was freed nothing is defined: `SendDangling` ends the
  behaviour in `fate = "dangling"`.
* A payload is copied as one step of `SendStart`. What the copy does to the two
  heaps is the subject of `HeapSharing`, and no step of the inbox depends on it.
* Every VM is one that `vmThread` created. The root VM differs in `close_vm` and
  in the return of `main`, which ends all threads.
* `exit(-1)` and `terminate` leave the locks as they are: `Running` guards
  everything that follows.

Bounds: `MaxSends` (sends per VM) bounds the ghost counters, so the state space
is finite; `InboxSize` is a parameter of the code's own constant 1024; the sets
of calls say which sender, receiver and channel the instance uses.

### Mailbox

A `box` and a list `handed` per process. `Post` appends a letter that is new;
`Take` removes any one letter and hands it over. `ImplementsMailbox` states that
`MessagePassing` implements it, with `box` the slots below `inbox_write` and
`handed` the history of receives: `SendPublish` is the `Post`, `RecvSlide` is the
`Take`, and everything else, locks, stores and waits, stutters. Channel ids are
not part of a letter, because the code does not keep them (section 4).

### HeapSharing

A thread does a call as a list of *items* (`code[p]`): an allocation, a
collection, an insertion into the C heap, which may collect, or one of the two
calls that bracket the allocations of a big integer. Each item goes through the
steps of `iallocate`, `idris_gc`, `c_heap_insert_if_needed`, `idris_requireAlloc` or
`idris_doneAlloc`, so that any other thread can run between the read of
`processes`, the taking of the lock, the look at `heap.next` and the move of it.

| state | code |
|---|---|
| `heap[v]` | `vm->heap`: `used` is `next` minus its start, `cap` is `end` minus its start, `size` and `growth` as in the code, `collections` is `vm->stats.collections` |
| `holder[v]`, `depth[v]` | `vm->alloc_lock`, a recursive mutex |
| `processes[v]`, `creator[v]`, `active[v]` | the fields of the VM |
| `freed[v]` | `terminate` has released the heap and destroyed the mutex |
| `locked[p]` | the local `lock` of `iallocate` and `idris_requireAlloc` |
| `count[p]` | what `++` or `--` has read of `processes` and not yet written back |
| `gcs[p]` | the local `gcs` of `idris_sendMessage` |
| `peer`, `kind`, `code`, `after` | `dest` or the new VM, the value sent, what is left to do, and where the call goes on |
| `made`, `since` | ghost: the cells of a copy with the collection count of their heap, and the collections of the own heap when the copy began |
| `fate` | use of a heap or mutex that was released |

| code | actions |
|---|---|
| `iallocate` 214-258 | `AllocStart` (reads `processes`), `AllocLook` (takes the lock if wanted, looks for room), `AllocBump`, or `AllocCollect` and `AllocGrow` (the recursive call starts again at `AllocStart`) |
| `idris_requireAlloc` 170-180 | `RequireStart`, `RequireCollect`, `RequireRead`, `RequireLock` |
| `idris_doneAlloc` 182-189 | `Done` |
| `idris_gc` | `Collected`, in `AllocCollect`, `AllocGrow`, `RequireCollect` and `Gc` |
| `idris_forceGC`; `c_heap_insert_if_needed`, which collects (60-63) or not | `GcStart` and `Gc`; these or `InsertOnly` |
| allocations of the program, `allocBig` with the brackets of the code generator | `Allocate`, `BigOperation` |
| `MKB32`, `MKB64` of a word read from memory (382-394); `mkcdata` (328-334); `idris_forceGC` | `Peek`, `MakeCData`, `ForceGC` |
| `idris_sendMessage` 924-947 | `SendStart`, `SendLock` and `SendUnlock` (for both copies), `SendCheck`, then `SendStore` for the rest |
| `vmThread` 820-848 | `Fork` with the items of the copied argument, `ForkRead`, `ForkWrite`, `ForkStart`, or `ForkFails` |
| `terminate` 132-157 | `Stop`, `StopRead`, `StopWrite`, `StopInactive` |

Decisions a reader should know:

* A heap is a few numbers. The test for room is the strict `<` of the code; the
  sizes are small units, and `HeapSize` stands for the heap size option.
* A collection is one step. A thread that is inside the heap at that moment is
  what `HeapExclusive` forbids: the collecting thread is in `collect`, `grow`, `gc`
  or `requireCollect` from before the collection on.
* The owner does not always ask for the lock. `MKB32` and `MKB64` allocate as if
  under an outer lock, and `prim__peek32` and `prim__peek64`, which call them, come
  without brackets (`CodegenC.hs` 672-679); the collection of
  `c_heap_insert_if_needed` and that of `idris_forceGC` take no lock. `BareCalls` says
  whose program does that. In the passing runs nobody sends to such a VM;
  `MCUnlockedOwner.cfg` is the other case (section 4). Any part of what was used
  survives, so the growth rule is tried with every outcome.
* `processes++` and `processes--` are a read and a write; no lock is held there.
* A message is a constructor with a string in it (one allocation that claims the
  outer lock and one that does not), C data (an insertion into the C heap of the
  receiver, and a cell) or a big integer. A big integer asks for
  `IDRIS_MAXGMP` bytes, allocates its header in the heap it was asked for, and
  GMP takes the digits from `idris_alloc`, which uses the heap of the *running*
  thread (`get_vm()`): in a copy that is the sender's.
* The root VM does not stop: `close_vm` and the end of `main` end the process.
* After a use of a released heap or mutex nothing is defined: `Dangling` ends the
  behaviour in `fate = "dangling"`.
* What is not here: the contents of cells, which roots keep them, and the code
  of the program between two calls, whose C variables may point into the heap.

Bounds: `MaxCalls` (calls of each VM), and `MaxCollections`, the number of
collections that are counted apart. The runs set it to 12, which no instance
reaches, so no comparison of two counts is affected.

### Store and Collector

`Store` is the heap as a program sees it: objects with an identity, made, read,
written and dropped; what no root reaches is not there. `Collector` is the heap as
it is: three arrays of cells, of which one is in use, one is what the last
collection left (`heap.old`, freed by the next one) and one was freed.
`ImplementsStore` relates the two by the ghost `id` of a cell, following forwards
while a collection is under way.

| state | code |
|---|---|
| `heap[0..2]`, `now`, `Old` | `vm->heap.heap`, `vm->heap.old` and freed memory; `heap.next` is `Used(heap[now])` |
| `end`, `size` | `heap.end`; `heap.size`, which is that of the *next* heap |
| `root` | the value stack, `ret`, `reg1` and the inbox: what `idris_gc` copies first |
| `call` | the arguments of the allocation under way, as C variables hold them |
| `pc`, `back`, `next` | where `iallocate` or `idris_gc` is, where the latter returns to, and `i` or `scan` |
| `marked` | the `is_used` bits that `c_heap_mark_item` has set |
| `fate` | the three ways in which nothing is defined any more (`stale`, `nested`, `smashed`) |

| code | actions |
|---|---|
| `iallocate` 214-258 with its caller | `Call`, `StillNoRoom`, `RoomNow`, `Retry` |
| `idris_gc` 102-143 | `idris_gc` (inside the above, or `Collect`), `CopyRoot`, `RootsDone`, `idris_gcEnds` |
| `copy` 13-57, `cheney` 59-100 | `Copied`; `ScanCell`, one step per scanned cell |
| `idris_newRef`, `idris_newArray`, `idris_readRef`, `idris_writeRef`, `idris_arrayGet`, `idris_arraySet`, `PROJECT` | `Call`, `Read`, `Write` |

Decisions: sizes are in words; types that the collector treats alike are one type
(`FLOAT` for the words too, `STRING` for pointers and raw data). A field of a CON is
read from a root after the allocation, as the generated code does; a REF or an ARRAY
is filled from a C variable (`HeldInC`); `concat` reads through C pointers that a
first collection leaves readable and a second does not (`Freed`). One thread: a
sender that collects the heap of its receiver is in `HeapSharing`. A program that
keeps no more than `MaxObjects` objects is assumed, and makes nothing more when
`heap.size` has passed `MaxSize`.

### CHeap

`first`, `size`, `trigger` are the fields of `CHeap`; `next`, `prevNext`, `isUsed`
those of `CHeapItem`, where a `prev_next` pointer is a name of the place it points
to. `memory` and `finalized` tell what became of an item, `cells` which items the
program of a VM can reach. `owner`, `order` and `clock` are history.

| code | actions |
|---|---|
| `c_heap_create_item`, `cdata_manage` | `Create` (a new item), `Wrap` (one that the program has already) |
| `c_heap_insert_if_needed` 43-65 | `Insert`, `InsertedBefore` |
| `mkcdata`'s `iallocate` | `AllocateCollects`, `Allocate` |
| marks of `copy`; `c_heap_mark_item` 67-70 | `Mark`: all of one collection in one step |
| `c_heap_sweep` 72-92 | `SweepKeeps`, `SweepFrees`, `SweepEnds`: one step per item |
| `c_heap_free_item` 10-27, `c_heap_destroy` 101-107 | inside `SweepFrees`; `DestroyOne`, `DestroyEnds` |
| `doCopyTo` of a CDATA | `Send`: a cell for the receiver, the item stays where it is |

### Utf8, Text, Strings

A `char*` is the sequence of the bytes before its NUL. The functions of `Utf8`
translate `idris_utf8.c` by what their loops find: how many bytes are passed, which
position is reached. `Strings` has a value for every `Root`, a STRING with its bytes
or a STROFFSET with a base and an offset, and carries the text the program believes
it has beside it. Every primitive is an action; `text` follows `Text`, the Prelude's
promises. Whether there is room is a choice (`NoRoomFor`). The bytes of a character
are not computed from the model's own encoder: `Encoding` is a table of the standard,
which `Standard` and `EncodingAssumption` state.

### MiniGmp, Words, Buffers, BigInt

`MiniGmp` keeps the limbs: a loop that hands a carry, a borrow, a remainder or
shifted bits from limb to limb is a `Chain`, and every operation on a limb wraps at
2 ^ `LimbBits`. Division goes through the inverse (`mpn_invert_3by2`), the estimate
and its two corrections (`gmp_udiv_qr_3by2`), and the multiply-subtract with its
add-back (`mpn_div_qr_pi1`), as in the code. Loops that search (the leading zeros of
a limb, the largest power of a base) are represented by what they find. The long
functions are cut into stages that hand their results on as parameters (`Estimate`,
`WithEstimate`, `Corrected`; `InvertHigh`, `InvertLow`, `InvertMore`): TLC's coverage
counts a `LET` once per use, and a chain of them as a product.

`Bits` defines powers and the operators `&`, `|` and `^` by arithmetic, so that the proofs
can reason about them. What a loop over limbs does to one limb is a function of what was
handed on to it (`AddOne`, `MulStep`, `SubStep`), and a `Chain` takes these functions.

`BigInt` is the layer of `idris_gmp.c`: a value is a fixnum or a big integer and
each operation decides by representation and size. Its state machine picks two
operands, calls one operation and may go on with the result. `Words` has every
operator of `idris_bitstring.c`, with C's promotion to `int` of the short widths and
`Undefined` where C says so. `Buffers` has `idris_buffer.c` and the records of
`Data.Buffer` on top. Both are pure; `BigInt` feeds them the words cut from its
operands.

## 3 The runs

| run | question | instance | bounds | states |
|---|---|---|---|---|
| `mailbox` | Is anything lost, doubled, reordered, given a wrong sender? Is a wakeup missed? Is each inbox a `Mailbox`? | two clients `a`, `b`, server `r` that receives from anyone or from `a` | 2 slots, 2 sends each: the inbox becomes full, is emptied, and the program ends on the overflow in other behaviours | 175 063 |
| `two_way` | Does every call come back, does a receive wake up for its message, may a program trust a check? | `a` and `b` send to each other, receive from each other or on a channel, look and poll with a timeout; `b` may stop | 3 slots, 2 sends each: one slot more than can be filled | 124 255 |
| `alloc_lock` | Do two threads ever allocate in one heap? Is a copy that a collection went over noticed? | `m` forks `a` and `b`; `m` and `a` allocate, `b` also without the lock; everybody sends to `m`, `b` C data, and `m` to `a` | heaps of 3 units, values of 1 to 3; 2 calls of `m`, 1 of each child | 739 262 |
| `brackets` | Is every lock given back, does growing suffice, does every call come back? | `m` forks `a` and sends to it; `a` builds a big integer or a value larger than its heap, and may stop at any time | heaps of 3 units, values of up to 4 | 117 456 |
| `collector` | Does a program see anything but its own objects, whenever the collector runs? | two roots; cells of type CON (two fields), REF, FLOAT and CDATA, shared and cyclic | heaps of 5 to 10 words and the growth beyond, two objects at a time, any number in a row | 52 008 |
| `c_heap` | Are the lists whole, is every finalizer run once, not too early, and at last? | two VMs, each creates, wraps, sends, drops, collects, stops | two items of sizes 1 and 2, trigger at 3 | 212 001 |
| `strings` | Is every string the text the program made, and answered about as such? | two strings, a string buffer of 3 bytes | characters of 1, 2, 3 and 4 bytes, strings of up to 4 bytes, offsets 0 to 3 | 49 337 |
| `numbers` | Is every result the one of arithmetic, or of memory? | every pair of 12 fixnums and 27 big integers, every operation, and operations on results | limbs of 8 bits, numbers of up to 4 limbs; words of 2, 4, 6 and 8 bits | 21 771 |

The first four are checked for deadlock; a state in which every thread is between
two calls is `Finished`, and stutters, so any other state without a successor is
reported. `numbers` always has a successor. The other three say
`CHECK_DEADLOCK FALSE`: a VM of `c_heap` may stop, and `collector` and `strings` end
in their `fate` when nothing is defined any more, or when everything they could do
would pass a bound.

Why the bounds are enough.

* *Inboxes.* Two senders and one receiver are the smallest instance in which two
  appends compete while a search runs, and in which a message is taken from the
  middle: the code treats all senders alike. A slide moves at most the slots behind
  one message, so 2 slots already show the first, the last, the full and the empty
  inbox; 3 slots keep the inbox from overflowing where the question is about
  something else. Two sends per client give every sender an earlier and a later
  message, which order and freshness need. Every safety property of `mailbox`
  is also proved for all bounds, the refinement included.
* *Shared heaps.* 3 units with values of 1 and 2 make a heap fill up after one or
  two allocations, so that collections, second copies and growth happen in every
  instance, by the owner and by a sender. Two children are the smallest instance in
  which two senders compete for the lock of a third VM; one child is enough where
  the question is about one owner and one sender. `HeapExclusive` and `NextInHeap`
  are also proved for all bounds.
* *Collector.* Two objects make every shape that matters to `copy`: one pointed to
  twice, from two roots or from two fields; a cycle of one and of two; an
  object reached only through the other. `MCCollector3.cfg` repeats the run with
  three objects in a heap that grows once (run by hand). 5 words hold one
  CON or two small cells, so that allocation collects, collects twice and grows.
  The view `Roles` identifies states that differ in the contents of cells nothing
  reaches (their size is kept) or in which of the three heaps plays which role: no
  action and no property looks at either. `Collector` names objects by the smallest
  free identity, which is a function of the state.
* *C heap.* Two items are an item with and without a neighbour, at the head and at
  the end; the proofs of the lists are for any number of items, in the middle too.
* *Strings.* The four characters are the last of one byte and the first of two,
  three and four bytes; 4 bytes hold each of them, and every mixture whose offsets
  differ in bytes and characters. Bytes above 127 appear as first and as later
  bytes, for the sign of `char`; `StringsProofs` has any characters and any lengths. That the heap is full is tried for `strTail`; for
  `substr` it breaks `TextKept` (section 4).
* *Numbers.* Nothing in `mini-gmp.c` depends on the number of bits of a limb but
  the constants, which are computed from it; with 8 bits every carry, borrow and
  estimate is met by small numbers. The operands include dividends found by search
  that take each branch of `mpn_div_qr_pi1` and both corrections of
  `gmp_udiv_qr_3by2`. Words of 2 to 8 bits keep the order
  8 < 16 < int = 32 < 64 of the widths. `BigIntProofs` has any widths and any operands.

Properties, and the fault each one would catch:

* `NothingLostOrDoubled`: what was published is what was received together with
  what is queued, without repetition. It fails if the slide starts one slot late.
* `SenderKept`: the sender stays with the message. It fails if the slide forgets
  the field.
* `PerSenderOrder`: two messages of one sender are received in order (when no
  receive names a channel). It fails if the search takes the last match.
* `NoLostWakeup`: while a receiver waits for something that is there, a sender
  still has to signal. It fails if the signal is sent without `inbox_block`: the
  comment-free lines 971-974 are what makes it hold, because the search and the
  decision to wait happen under the same mutex.
* `MatchedReceiveReturns`: the same as a liveness property, by the signal alone.
* `CallsReturn`: sends and checks come back. A send holds `inbox_lock` and takes
  `inbox_block`; a receive never holds both, which is why there is no cycle. It
  fails if a receive keeps `inbox_lock`.
* `CheckedMessageIsThere`: an unlocked check never reports a message that was
  already received. It fails if the slide stops one slot short, and it does fail
  for a full inbox (section 4), hence the slot that is never filled.
* `ImplementsMailbox`, and the type invariant `TypeOK`, which carries the bounds of
  `inbox_write` and of the slot index of a receive.
* `HeapExclusive`: between the look at the room of a heap and its use, no other
  thread looks, moves `heap.next` or collects. It fails if `iallocate` does not
  lock. The owner locks only while `processes > 0`, so the property says that the
  counter is positive whenever somebody can send to this VM. It is checked where the
  owner goes into a heap others send to by `iallocate` with the lock, and by
  nothing else; otherwise it does fail (`MCUnlockedOwner.cfg`).
* `NextInHeap`: the assertion of `iallocate`, `heap.next <= heap.end`, under the same
  condition. It fails if `iallocate` does not lock.
* `CopyNoticed`: a message copied before a collection of the receiver is copied
  again. It fails if `collections` is read after the copy. It speaks of the moment
  of the test only; what happens after it is section 4.
* `LockGivenBack`: between two calls a thread holds no `alloc_lock`. It fails if
  `idris_doneAlloc` does not unlock.
* `GrowMakesRoom`: the second collection of `iallocate` leaves room for the
  request, whatever survives. It fails if the heap is collected again at its old
  size.
* `CallsReturn` (of `HeapSharing`): every allocation, send, fork and end comes back.
  It fails with the same fault, by an endless chain of collections, and would fail
  if a lock were waited for in vain.
* `ImplementsStore`: through allocations, collections and growth the program sees
  objects that keep identity, type and fields, and sharing stays sharing. It fails
  if a REF leaves no forward behind: two references to it become two objects, and a
  write through one is not seen through the other.
* `HeapChecks`: the four checks of `heap_check_all`, which only a debug build makes:
  no pointer leaves the working heap. It fails if one root is not copied.
* `ReachedCopiedOnce`: a collection copies what is reached, nothing else, and each
  object once. It fails without forwards.
* `MarkedAreReached`: at the sweep the marked C objects are those of the reached
  cells. It fails if the sweep leaves the marks of the collection before.
* `TwoCollectionsDo`: an allocation needs at most two collections, since the size
  asked for the second is enough whatever it copies. It fails without the growth of
  line 248.
* `FailuresHaveTheirCause`: where the collector runs out of its new heap, a forward
  does not fit, or an allocation stores a stale value, one of the known causes of
  section 4 is in the heap; so a program without them has none of these. It fails
  if `heap.size` follows what is in use too closely.
* `Links`, `ListsComplete`: the lists of C objects stay linked in both directions,
  free of cycles and of freed items, complete, and their sizes right, between any
  two steps of VMs that sweep at the same time. They fail if an item that is
  unlinked does not tell its successor, or if an insertion does not count.
* `FinalizedOnce`: no finalizer runs twice. It fails if an item that is wrapped
  again is inserted again.
* `OwnItemsKept`: no collection frees what its own VM uses, or is just inserting.
  It fails if the new item is not protected.
* `GarbageFinalized`: an item that every VM has dropped is finalized at last. It
  fails if a sweep does not reset the mark.
* `TextKept`: every string is the encoding of the text it stands for, however its
  bytes are shared. It fails if a substring counts bytes.
* `AnswersRight`: length, index, equality and order are those of the characters. It
  fails if bytes are compared as signed.
* `TypeOK` of `Strings`: the sharing of bytes has one level, and an offset is where
  a character starts. It fails if the tail of a tail refers to the tail.
* `ExactIfItFits`: all operations on integers are exact unless the result leaves the
  fixnums without becoming big; sums always are. It fails if the second correction
  of the quotient estimate is left out.
* `OrderRight`: the six comparisons agree with the order of the integers. It fails
  if big integers are compared by magnitude.
* `TextRight`: writing and reading an integer gives it back, in the memory asked
  for. It fails if the zeros inside a number are not padded.
* `FloatRight`: an integer through a Double and back is the same one if it has no
  more bits than the mantissa, and otherwise off by at most one part in
  2 ^ (`MantissaBits` - 1). That is twice the loss of the nearest Double:
  `mpz_get_d` rounds each limb and each sum, and the errors meet, as for the operand
  34047. It fails if `mpz_set_d` scales one limb too little.
* `WordsAgree`: every operator gives at each width what it gives at each wider one,
  so that promotion does not show. It fails if a signed shift is unsigned.
* `WordsKept`: words are divided with remainder, stored, loaded and cast without
  loss. It fails if `poke` stores the bytes backwards.
* `BuffersKept`: ints, copies and files pass through a buffer at any location in
  any pieces, and what has no room at its destination changes nothing. It fails if an
  int may start one byte too late. What a copy from out of bounds does is
  `CopiesInBounds`, which the code does not have (section 4).

Each of those faults is a definition beside the one it replaces (`NeverLocks`,
`CorrectedOnce`, `SweepKeepsMark`, ...) which no action uses; `PROJECT.json` pairs
it with the property that it breaks.

Fairness. `FairSpec` of `MessagePassing` and of `HeapSharing` is weak fairness of
`Step(p)` for each thread: the operating system runs every thread that can run. It
demands nothing of the program (`Start` is not fair: nobody has to send, to receive
or to stop) and nothing of the clock. In `HeapSharing` a VM makes finitely many calls, so
a thread that waits for `alloc_lock` is passed over finitely often and mutexes need
no fairness of their own. `TimedSpec` adds that a wait ends, which
`pthread_cond_timedwait` guarantees for its absolute timeout.

`PolledSpec`, which `two_way` uses, adds that a check with a timeout ends (the same
guarantee; the receive gets no such help, its signal alone must do), and strong
fairness of `SendBlock`, the lock of `inbox_block` by a sender. A receiver that
waits for a message that is not there wakes up and takes the mutex again and again; weak fairness
would allow it to be quicker every time, for ever. Between two such moments lies a
wait of up to 3 seconds in which the mutex is free, and a thread that is blocked on
it gets it; nothing else in the model takes a mutex infinitely often.

`FairSpec` of `CHeap` is weak fairness of each thread and strong fairness of
`Collect`: a program that goes on allocating fills its heap again and again, until it
stops. `GarbageFinalized` is about such programs; one that sleeps for ever keeps its
garbage, in the code too.

## 4 Where code and documentation disagree

Four runs expect a violation: each checks one sentence of the documentation or of a
comment, and TLC shows a behaviour of the code that contradicts it.

| run | sentence | what the code does |
|---|---|---|
| `slide_channel` | "Check inbox for messages on a particular channel" (`Raw.idr` 94) | the slide (1091-1092) moves `sender` and `msg` and not `channel_id`; a queued message gets the channel of the one that was removed, and a receive by channel misses it |
| `send_to_stopped` | "it will not get there, rather than crash the entire system" (149-150) | `active` is tested once and cleared last: a send goes on in freed memory |
| `require_unlocked` | "The lock exists to ensure that no memory is allocated during the message sending process" (59-61) | `idris_requireAlloc` calls `idris_gc` before it takes `alloc_lock` (171-178), so the owner replaces the heap while a sender is inside it |
| `substr_behind` | "If this is beyond the end of the string, the function returns the empty string" (`Prelude/Strings.idr` 354-356) | an offset behind the end counts as a suffix; `idris_utf8_findOffset` steps over the NUL, and the result is made of the bytes behind the string |

More have a configuration of their own, to be run by hand:
`tlc -config X.cfg M.tla`, with M the instance module of the heading. A
configuration that names several properties stops at the first; leave the others
out to see each trace.

`MCMessagePassing`:

| configuration, property | sentence | what the code does |
|---|---|---|
| `MCUnlockedChecks`, `ReceivedChannelKept` | "Return triple of sender's ID, channel ID, and the message" (`Raw.idr` 80) | `channel_id` of the returned `Msg` is never assigned |
| `MCUnlockedChecks`, `OpeningHasSender` | "Just (pid, channel)" (`Raw.idr` 46-47) | `idris_checkInitMessages` takes no lock; a slot whose `msg` and `channel_id` are stored and whose `sender` is not is reported with a NULL pid |
| `MCUnlockedChecks`, `FreeSlotsCleared` | "clear the value at the end" (`idris_rts.c` 1085-1086) | with `inbox_write == inbox_end` the cleared slot lies behind the array, and the last slot keeps its message, which the checks go on seeing |
| `MCTimedWait`, `WaitsOnlyWhenEmpty` | "If no messages, waits" (`Raw.idr` 27-28) | a message that arrives between the search and `inbox_block` is waited out |
| `MCPeerStops`, `ReceiveNoticesStop` | "Returns `Nothing` if the process on the channel is no longer running" (`Channels.idr` 58-59) | the wait loop never looks at `active` again |

`MCHeapSharing`:

| configuration, property | sentence | what the code does |
|---|---|---|
| `MCUnlockedOwner`, `HeapExclusive` | "The lock exists to ensure that no memory is allocated during the message sending process" (`idris_rts.c` 59-61) | `MKB32` and `MKB64` (383, 390), the collection of `c_heap_insert_if_needed` (`idris_heap.c` 60-63) and `idris_forceGC` (`idris_stdfgn.c` 260-262) go into the heap of their VM without `alloc_lock`, while a sender is inside it |
| `MCUnlockedOwner`, `NextInHeap` | `assert(vm->heap.next <= vm->heap.end)` (229) | an owner that reads a word from memory and a sender both look for room, and then both move `heap.next` |
| `MCLastChildStops`, `NextInHeap` | `assert(vm->heap.next <= vm->heap.end)` (229) | `processes` falls to 0 when the last child stops, while a grandchild is still copying a message into that heap: owner and sender both move `heap.next` after one look |
| `MCSendRaces`, `StoredCopyValid` | "a collection will have invalidated the copy" (943) | between the test of `collections` and the store into the inbox the copy is in no root and no lock is held; the second copy is not looked at again |
| `MCSendRaces`, `SourceStill` | "We're in trouble if this happens..." (912) | the heap a message is being read from may be collected by a third thread |
| `MCBigBothWays`, `NoLockCycle` | "The allocation lock must be reentrant [...] since it is not reentrant, we get a deadlock" (59-63) | a big integer is copied under the lock of the receiver, and its digits take the lock of the sender: two such sends wait for each other, reentrant or not |
| `MCBigBothWays`, `CopiedWhole` | "Copy a structure to another vm's heap" (`idris_rts.h` 405) | the digits of a big integer stay in the heap of the sender |
| `MCRequired`, `RequireKeepsRoom` | "guarantee that no garbage collection will happen [...] until at least size bytes have been allocated" (`idris_rts.h` 345-347) | `idris_requireAlloc` collects once and does not look whether that was enough |
| `MCRequired`, `LockGivenBack` | "idris_doneAlloc *must* be called [...] (as it may take a lock [...])" (`idris_rts.h` 348-349) | if `processes` falls to 0 between the two calls, the lock is taken and never given back |
| `MCLostCount`, `ProcessesCounted` | "Number of child processes" (`idris_rts.h` 153) | an increment by the creator and a decrement by a child are lost to each other |

`MCCollector`:

| configuration, property | sentence | what the code does |
|---|---|---|
| `MCCollectorFaults`, `ForwardFits` | the assertion of `copy` (`idris_gc.c` 53) | an array without elements is shorter than a forward |
| `MCCollectorFaults`, `NeverNested` | `cheney` scans up to `heap.next` (`idris_gc.c` 99) and takes the heap for the same one throughout | a float leaves no forward and is copied once per pointer: shared floats can need more room than there is, and `copy` starts a collection inside the collection |
| `MCBigCopied`, `NeverNested` | the same | copying a big integer asks for `IDRIS_MAXGMP` bytes, and collects if they are not free |
| `MCCollectorFaults`, `NeverStale` | a new reference holds the value it was made with | `idris_newRef` and `idris_newArray` keep that value in a C variable while they allocate |
| `MCConcat`, `NeverStale` | "if there's no enough space then allocating will move the original string" (`idris_substr`, `idris_rts.c` 715-717) | `idris_concat` reads its two strings through C pointers after its allocation; after two collections they point to freed memory |

`MCCHeap`:

| configuration, property | sentence | what the code does |
|---|---|---|
| `MCItemKept`, `HandedOverKept` | "don't collect what we're inserting" (`idris_heap.c` 62) | the item is protected from the collection of the insertion, not from that of the allocation of its cell right after it |
| `MCSentItem`, `SentItemsKept` | a message is a copy (`idris_rts.h` 405) | the receiver gets a cell, the item stays in the list of the sender, whose collector does not see that cell |

`MCNumbers` and `MCStrings`:

| configuration, property | sentence | what the code does |
|---|---|---|
| `MCOverflows`, `Unbounded` | "unbounded, unsigned integers" (`Prelude/Nat.idr` 15), which the back end represents as big integers | products, differences, quotients and left shifts of fixnums may leave the fixnums without becoming big |
| `MCOverflows`, `CutIsModular` | truncation keeps the low bits | a big integer is cut without its sign |
| `MCOverflows`, `CopiesInBounds` | "Does nothing if a location is out of bounds, or there is not enough room" (`Data/Buffer.idr` 84) | `idris_copyBuffer` (`idris_buffer.c` 30-31) tests the destination only: from a start or with a length out of bounds of the source, or with a negative length, it calls `memcpy` with it |
| `MCOtherSubstr` with the values in its comments, `TextKept` | "negative indices are equivalent to 0" (`test/primitives001/substring.idr` 1-5) | a negative offset makes the test for a suffix wrap around |
| `MCOtherSubstr`, `TextKept` | "If there's no room, just copy the string" (`idris_strShift`, `idris_rts.c` 641) | with no room for an offset, it copies the string from its second character on, whatever `num` is |
| `MCStringBuffer`, `NeverOutside` | "a string with maximum length len" (`Prelude/Strings.idr` 47) | the NUL behind them has no byte (`idris_stdfgn.c` 272, 283) |

## 5 The proofs

### Message passing

`MessagePassingProofs` proves, for every finite or infinite set of processes,
every inbox size, every set of calls and every bound:

| theorem | statement |
|---|---|
| `TypeSafety` | `Spec => []TypeOK` |
| `TypeCorrect` | `Spec => []TypeInv`, with `TypeInv` = `TypeOK` and the control facts below |
| `WakeupSafety` | `Spec => []NoLostWakeup` |
| `DeliverySafety` | `Spec => []NothingLostOrDoubled` |
| `SenderSafety` | `Spec => []SenderKept` |
| `ProtocolSafety` | `Spec => []ProtocolInv`, the whole inductive invariant |

Assumptions. Only the named `ASSUME`s of `MessagePassing`: the calls name
processes, nobody sends to itself or asks for its own messages, the inbox has a
slot, `NoProc` and `NoMsg` are not a process and not a payload. TLC evaluates
them in every run. A process that sends to itself is left out: the code allows it,
no function of the library offers it, and the lock facts below would need a second
case for it.

The argument has three layers, each inductive relative to the one before.

1. *Types and control* (`TypeInv`). `TypeOK` alone is not inductive: that
   `inbox_write` does not pass the end needs that the test of `SendLock` still
   holds when `SendPublish` increments, and that the index of a receive is in
   range needs that the slot found is still filled. So `TypeInv` adds who holds
   which lock where (`LocksHeld`), that only waiting threads sleep
   (`SleepersWait`), and `PointersInRange`: between `SendLock` and `SendPublish`
   there is a free slot, and between the search and the slide the slot found
   stays below `inbox_write`, *because only the owner ever lowers it*. This is
   the fact that makes it right to search under one lock and to remove under
   another.
2. *Wakeups* (`NoLostWakeup`). Only `SendPublish` can make something wanted, and
   then its thread is at `sendBlock`. Only `RecvScan` makes a thread wait, and it
   found nothing. A thread leaves `sendSignal` by waking the receiver; and a
   receiver that holds `inbox_block` between its search and its wait keeps every
   sender out of `sendSignal`.
3. *Data* (`Data`: `SlotsInUse`, `PayloadsFresh`, `NothingLostOrDoubled`,
   `SenderKept`). `NothingLostOrDoubled` is not inductive: it needs that the
   payload about to be published is new (`PayloadsFresh`, by the counter of the
   sender), that the slot at `inbox_write` holds what its sender wrote although
   other threads send elsewhere (`SlotsInUse`), and that the `Msg` a receive has
   filled is the slot it is going to remove. The step that matters is `RecvSlide`:
   `SlideData` shows that removing slot i maps the slots i+1 .. w-1 one to one to
   i .. w-2 and that what falls out is exactly `ret`.

Every theorem has one lemma per action or per group of actions that disturb the
same variables, and `NextTypeInv`, `NextWakeup` and `NextData` combine them.

The second part of `MessagePassingProofs` rests on that invariant and proves, for the
same sets and sizes:

| theorem | statement | condition |
|---|---|---|
| `MailboxImplemented` | `Spec => ImplementsMailbox` | none |
| `OrderKept` | `Spec => []PerSenderOrder` | `NoChannelAsked` |
| `CheckedSafety` | `Spec /\ []RoomLeft => []CheckedMessageIsThere` | none further |
| `CheckedInBound` | `Spec => []CheckedMessageIsThere` | finitely many VMs that send fewer messages than an inbox has slots |

* *Refinement.* `PublishPosts`: a publication appends one letter, and it is new,
  because its payload is numbered by a counter that its sender has just passed.
  `SlideTakes`: removing a slot and moving the ones behind it down is, on the
  letters, exactly the removal of that letter, which is the one `ret` has.
  `OthersKeepInboxes`: no other step, of any thread, touches the part of an inbox
  below `inbox_write` or the history. Each is a step of `Mailbox` or a stutter.
* *Order.* What is received and what waits, read one after the other, has the
  messages of each sender in the order of their numbers (`InOrder`). It is inductive
  only with `OldestFound`: from the search to the slide, the slot found is the oldest
  one of its sender. Appends go behind it, and the owner is the only one who removes.
  A receive by channel may pass over an older message of the same sender, which is
  why the condition excludes it: `NoChannelAsked` is about the program, not about the
  protocol. The `mailbox` run satisfies it.
* *Checks.* A check reads without a lock and reports any slot that is not NULL. That
  such a slot was not received before needs that what lies behind `inbox_write` is
  NULL (`UnusedSlotsEmpty`), which the slide keeps only if the last slot was never
  filled (`RoomLeft`): with a full inbox it clears a byte behind the array instead
  (section 4). `RoomByCounting` derives the condition from the number of sends, by
  the cardinality of the payloads in an inbox; `two_way` is such a program.

The liveness properties are out of the prover's reach, as is everything under
fairness.

### Heaps

`HeapSharingProofs` proves, for every set of VMs, every set of calls, every size
and every bound:

| theorem | statement | condition |
|---|---|---|
| `SharingTypes` | `Spec => []TypeOK` | none |
| `OneInHeap` | `Spec => []HeapExclusive` | `OwnersLock` |
| `NextStaysInHeap` | `Spec => []NextInHeap` | `OwnersLock` |
| `RetryHasRoom` | `Spec => GrowMakesRoom` (an action property) | `OwnersLock` |
| `StaleCopyNoticed` | `Spec => []CopyNoticed` | none |

`OwnersLock` says that no big integer is built or sent, that no VM comes to its
end (a fork may still fail), and that a VM which is sent messages goes into its own
heap by `iallocate` with the lock only: it reads no word of 32 or 64 bits from memory, wraps no
C data and forces no collection. None of the three can be dropped: `require_unlocked`
shows that a big integer breaks `HeapExclusive`, `MCLastChildStops.cfg` that the end
of a child breaks `NextInHeap`, and `MCUnlockedOwner.cfg` that an owner without the
lock breaks both. VMs that nobody sends to may do all of the third, and
messages may hold C data. Within these limits the lock that is taken only
sometimes is enough, and the theorem says for how many senders and creators: all.
The other assumptions are the named `ASSUME`s: nobody sends to itself, nobody
forks itself or the root.

The argument, again in layers:

1. *Types and form* (`TypeInv`). A thread inside an item has an item; a thread
   inside a send has a receiver; a creator in the middle of a fork has a child that
   is still unborn and names it as its creator; a mutex is free exactly if its
   depth is 0. `TypeOK` needs all of it: the subtractions in `Unlock` stay natural
   only because of the last fact.
2. *Threads* (`ThreadInv`). Who can be inside the heap of h? Its owner, a sender
   that has taken `alloc_lock` of h (`LockOf`), or the creator of h while h is
   unborn. An owner that is sent messages and did not lock has read a counter that is not
   positive (`CountOf`), and a VM that somebody can send to has a positive one: a forked VM
   is born with 1 and a fork of its own that fails takes back no more than it added;
   the counter of the root is raised before the first thread that could send to it starts. So sender and
   unlocked owner never meet; sender and locked owner exclude each other by the
   mutex; and an unborn VM has no owner that runs and nobody who can name it.
   `LockOf` counts the depth, because a sender takes the lock again for the
   allocations inside the copy and gives *those* back while it keeps the first.
3. *Room* (`RoomInv`). The room found by the look is still there when it is used:
   by the second layer nobody else has changed the heap in between. With the
   strict `<` of the test, `used < cap` is an invariant, and `NextInHeap` follows.

`Exclusion` is the lemma of layer 2 that the later theorems use. `RetryHasRoom`
needs it too: the size asked for the second collection counts with the `next` that
the thread left, and only because nobody else allocates in between is that what the
collection finds.

`StaleCopyNoticed` has an invariant of its own (`CopyInv`) and no condition. The count
of collections of a VM that was started never goes down, whoever collects it
(`CountsGrow`), so that what `gcs` has read, the counts at which the cells of the copy
were made, and the count at the test are in this order; if the first and the last are
equal, all are. A child that is forked afresh starts with a new count, but nobody can
send to it before.

The last part of `HeapSharingProofs` proves that locks are given back:

| theorem | statement | condition |
|---|---|---|
| `LocksGivenBack` | `Spec => []LockGivenBack` | `ChildrenStay` |

`iallocate`, `idris_requireAlloc` and `idris_doneAlloc` each look at `processes` anew,
so what one takes another may not give back. `ChildrenStay` says that a VM which makes
big integers, or is sent some, has no child that comes to its end; without it the
property is false (`MCRequired.cfg`), since the counter falls between two looks. All
else is allowed: other VMs stop, forks fail, big integers travel. Two layers:

1. *The counter* (`CountInv`). For those VMs `processes` is at least 1 from the moment
   on at which another thread knows them, and 1 more while a fork is not finished.
   This needs that an increment, a read and a write, is not crossed by a decrement
   (`ChildrenStay`), and a fork that fails takes back its own only. It gives `SafeSend`:
   while a big integer is copied into a heap, both brackets of that copy see a
   positive counter.
2. *The locks* (`HeldInv`, relative to the first). `ShapeOf` says which lists of items a
   thread can have before it: some allocations, or what is left of one bracketed
   operation. `HeldOf` says how deep a lock is held, as a sum of three: 1 for a send
   that has locked the receiver, 1 for a bracket that was opened and not closed, 1 for
   an allocation between its look and its end. Between two calls all three are 0.

Both invariants were checked by TLC on the instances of `brackets`,
`MCBigBothWays.cfg` and a chain of three VMs before they were proved.

### C heap

`CHeapProofs` proves, for every set of VMs and items, all sizes and triggers:

| theorem | statement |
|---|---|
| `TypesCorrect` | `Spec => []TypeOK` |
| `ListsLinked` | `Spec => []Links` |
| `FinalizersRunOnce` | `Spec => []FinalizedOnce` |
| `UsedItemsKept` | `Spec => OwnItemsKept` (an action property) |
| `ListsHoldAll` | `Spec => []ListsComplete` |

The only assumptions are `CHeapAssumption`, `NULL` is none of the rest and sizes are
natural numbers, and, for `ListsHoldAll`, `ItemsAssumption`: there are finitely many
items, as in any memory.

1. *Lists* (`IInv` = `TypeOK`, `Links`, `Fresh`, `HasItem`, `Counted`,
   `FinalizedOnce`). That the pointers agree is nearly inductive. The code has no
   word for two facts it depends on: `prev_next` is `NULL` exactly until an item is
   inserted (`Fresh`), which is how it tells an item from an inserted one; and lists
   have no cycle. The latter is the ghost `order`: every next-pointer leads to an
   item that was inserted before, and `Counted` makes the next one larger than all.
   `FreeKeepsLists` and `InsertKeepsLists` are the two lemmas on pointers: one item
   goes, with four pointers around it, or comes.
2. *Marks* (`Marked`, relative to the first). What a VM uses, of the items its sweep
   has not passed, is marked. A list is ordered from new to old, so "not passed" is
   `order[i] <= order[sweepP]`. The step that matters is one of *another* VM: its
   sweep resets marks too, but only of items of its own list, and its collector only
   sets marks; so the marks on an item of `v` are taken away by `v` alone.
   `UsedItemsKept` follows, since only an unmarked item is freed by a sweep, and a VM
   that destroys its list has no cells any more.

3. *Completeness* (`ListsComplete`). That everything in a list is reached from its
   head is about a recursive function over the length of the list. Its items are
   finitely many, so what is reached stops growing (`LeastNumber`); an item that is not
   reached and has the largest `order` of those has a predecessor, by `Links`, which
   has a larger one and is therefore reached, and reaches it. For the sizes, the sum
   over a set is unfolded by any one of its members (`SumUnfolds`: the choice the
   definition makes does not matter, again by a least set), so that one item more or
   less changes it by its size.

`GarbageFinalized` is a liveness property and stays with TLC.

### Collector

`CollectorProofs` proves, for any roots, any kinds of cells and any sizes:

| theorem | statement | condition |
|---|---|---|
| `HeapAlwaysChecks` | `Spec => []HeapChecks` | none |
| `CellsAndRoots` | `Spec => []TypeOK` | none |
| `FailuresAreCaused` | `Spec => []FailuresHaveTheirCause` | none |
| `CollectsExactly` | `Spec => ReachedCopiedOnce` (an action property) | none |
| `SweepsExactly` | `Spec => MarkedAreReached` (an action property) | none |
| `StoreImplemented` | `Spec => ImplementsStore` | none |
| `TwoCollectionsAreEnough` | `Spec => TwoCollectionsDo` (an action property) | `PlainKinds` |

The assumptions are `CollectorAssumption`, which numbers the roots, `KindsAssumption` (a
kind of cell has a type that is none of the forwards, and a number of fields; a float has
none, as in `idris_rts.h`) and `GmpAssumption` (what a big integer asks for is a number,
and no less than it takes). `PlainKinds` leaves out big integers, for which the property
is false (an allocation of one asks for more than the collection before it has made
room for), and floats, of which a collection can make several from one. Three invariants
lead there, each relative to the ones before.

1. *Where pointers lead* (`CollectorInv`), for each phase. `Mutating`: all
   of them into the working heap. `CopyingRoots`: those of the roots before `next` into
   the new heap, those of the others and of every cell copied so far into the old one.
   `Scanning`: those of the scanned cells into the new heap, those of the cells above the
   scan pointer into the old one. In both of the latter every old cell is unscanned or a
   forward to a cell that is there (`OldOK`). `CopiedMoves` is the lemma about `copy`: it
   gives a value of the new heap, whether the cell was copied before or not, and leaves a
   heap that is longer by at most that cell. A cell with several fields is scanned by a
   recursion; `ScanFields` follows it field by field (`LeastNumber` again), because each
   field may copy or find what the one before has copied. `Used`, a sum over a sequence,
   is shown not to depend on anything but the sizes (`UsedAppend`, `UsedSame`). After
   one of the failures of section 4 (`fate`) it says nothing.
2. *What the program sees* (`IdentityInv`), which holds after a failure too. A cell has
   an identity, and so has the forward that is left for it. A set of pointers is `Sound`
   if each leads to a cell or a forward that is there, the fields of what it leads to are
   in the set, and two with one identity are `Alike`: they end in one cell, or in copies
   of raw bits. Such a set `Represents` objects, one for each identity, and `Known` says
   that the roots are in one: this is all that holds in the middle of a collection, where
   some roots are moved, some cells are scanned and some are forwards. The lemmas about
   steps have one form: there was a set that represented objects, and there is one that
   represents the same (`CopyFollows` for `copy`, `FieldFollows` for the field that
   `cheney` writes) or what the store says they become (`NewShown`, `ReadIdentity`,
   `WriteIdentity`). That the objects are those the *store* reaches, which knows no
   pointers, is `StoreView`: the two reachability fixpoints, over pointers and over
   identities, are followed step by step. Three further parts, while nothing has failed:
   all that is copied is reached (`CopiesIn`; it is reached *from the roots that are
   there*, so that a collection copies no garbage); what is marked are the items of the
   cells that are copied (`MarksOf`), which is why no mark is left over by the collection
   before; and what is left to copy fits unless an object is reached that grows
   (`Enough`). `CollectsExactly` and `SweepsExactly` are these at the end of a collection,
   when all is scanned (`Collected`), and `Enough` is the cause that `FailuresAreCaused`
   speaks of.
3. *Room* (`RetryFits`). While the second collection of an allocation copies, what is
   copied and what is left, together with the request, are less than the new heap
   (`Spare`): a cell that is copied is as large as the one it leaves a forward for.

`StoreImplemented` follows from the second: `NextIdentity` says of each step that what is
seen stays, or changes as one operation of `Store` says (`SeenStep`). A collection of any
length, and the growth of the heap, are stutters.

### Strings

`StringsProofs` proves, for any characters, any strings and any number of places that
hold them:

| theorem | statement | condition |
|---|---|---|
| `StringCells` | `Spec => []TypeOK` | none |
| `TextsKept` | `Spec => []TextKept` | `Faithful` |
| `AnswersAreRight` | `Spec => []AnswersRight` | `Faithful` |

`Faithful` says that `substr` is asked for no negative number and finds room for its
cell. Both halves are needed: `MCOtherSubstr.cfg` breaks `TextKept` without either.
Offsets behind the end need not be excluded: what they make is `fate = "outside"`
(run `substr_behind`). The assumptions are
`StringsAssumption`, `AskedAssumption` and `EncodingAssumption`: the bytes of a
character are those of the UTF-8 standard, written down from the standard and not from
`idris_utf8_fromChar`. Four groups of lemmas lead there.

1. *Characters.* From the standard: a first byte does not continue a character and is
   not taken for an invalid one although `char` is signed, the others continue
   (`CharBytes`, `WhatContinues`). `idris_utf8_fromChar` gives these bytes (`FromChar`),
   and of two characters the smaller has the smaller bytes (`CharOrder`).
2. *Texts.* The encoding of a text is a fold; unfolded once by `EncodedAppend`
   (`StepsExist` of `LeastElements` gives the recursion its result), it is that of the
   parts, one after the other (`EncodedConcat`). `Pos(t, k)` is where character k + 1
   starts: these are the only bytes that do not continue (`PosStarts`, `BytesBetween`),
   and every byte belongs to one character (`ByteOfChar`).
3. *The functions of `idris_utf8.c`*, each by the positions it reaches: `Over` and
   `charlen` the next one, `findOffset` the nth (`FindOffset`, one byte for each
   character that is missing), `advance` the nth or the end (`Advance`), `strlen` their
   number (`StrLen`), `index` puts the bits together again (`Index`), `rev` turns the
   text around and no character (`Turned`), and the first bytes that differ are those
   of the first characters that differ (`Comparisons`).
4. *Cells.* The invariant (`Holds`): there are texts, those of the program if `Faithful`,
   such that each cell has the bytes of its text or shares those of another text from a
   `Pos` on, and the buffer holds a text that is shorter than it by a byte. The text of a
   shared cell is what follows in its base, so that the tail of a tail (`TailOfTail`)
   and a substring up to the end (`NoShorter`: bytes are no fewer than characters) are
   shared from the right place. That the texts exist even when they are not those of the
   program is what proves `TypeOK` for every use of `substr`.

### Numbers

`LimbProofs` and `BigIntProofs` prove, for limbs of any even number of bits, words of any
widths that `WidthsAssumption` allows, and operands and results of any length:

| theorem | statement | condition |
|---|---|---|
| `NumbersAreWellFormed` | `Spec => []TypeOK` | none |
| `ResultsAreExact` | `Spec => []ExactIfItFits` | none |
| `ComparisonsAreRight` | `Spec => []OrderRight` | none |
| `WordsAlwaysAgree` | `Spec => []WordsAgree` | none |
| `BuffersAlwaysKeep` | `Spec => []BuffersKept` | none: the formula says nothing of a copy from out of bounds |
| `WordsAreAlwaysKept` | `Spec => []WordsKept` | `W64 = LimbBits` |
| `MulIs` | `mpn_mul` gives the product | the second factor has a limb, as in the code |
| `InvertIs` | `mpn_invert_3by2` gives the inverse of a divisor | its highest bit is set, as in the code |
| `DivideThreeByTwo` | `gmp_udiv_qr_3by2` gives quotient and remainder | the inverse is the one of the divisor |
| `DivideLimbs` | so does `mpn_div_qr` | a divisor without leading zeroes, not longer than the dividend, as in the code |

They rest on `SizesAssumption`, `WidthsAssumption` and `OperandsAssumption`: a limb has
two halves of at least one bit, the widths are in order and whole bytes, the operands
that a program begins with have no more bits than the results that are computed, and
these fewer than `MaxLimbs` limbs.
`MaxLimbs` bounds only the big integers that `mpz_set_d` and the initial operands make.

The invariant is `IInv`: `TypeOK` and `ExactIfItFits`, and that both operands are
integers of at most `MaxBits` bits (`IsOperand`). The last is what makes it inductive:
a result becomes an operand (`Continue`) only if it is one of those tried, and the
bitwise operations are compared on two's complements of `MaxBits` + 1 bits. So the invariant is short, and the work is
in what each call returns. From the bottom up:

1. *Bits and digits.* The provers know no power and no bit operator; `Bits` defines them
   by recursion, and lemmas give the laws they need: a power of a sum, the quotient and
   the remainder by a power, `BitAnd` and `BitOr` cut at any width. A number is the sum
   of its digits times powers of the base (`Number`), for bytes in memory as for limbs.
2. *Loops.* A `Chain` or a `ChainDown` exists and unfolds from limb to limb for any step;
   an invariant of its carries holds at every limb. Sums, differences, the rows of a
   product and shifts each state that invariant as one equation on `NatOf`, the limbs
   so far and the carry making the sum so far. `mpz_and` and `mpz_ior` run three
   carries at once: those of two complements and of the one that turns the result back.
3. *Division.* `EstimateBelow` and `EstimateCorrects` are the argument behind
   `gmp_udiv_qr_3by2`: with v the inverse of d and
   (B + v) * u2 + u1 = q1 * B + q0, the candidate q1 + 1 is at most one above the
   quotient and at most one below it, and the comparison of a remainder modulo B ^ 2
   with q0 tells when it is above. `InvertIs` shows that
   the three half-limb stages of `mpn_invert_3by2` end with the inverse, each
   correction made just when it is needed. In `mpn_div_qr_pi1` one turn of the loop
   (`Pi1StepIs`) takes an estimate of two limbs of the divisor times all of its limbs
   away: if a borrow leaves the top, adding the divisor back once is enough. `LoopDivides`
   carries the equation quotient * divisor + rest = dividend down the limbs, with the
   rest below the divisor moved to where the loop is; `DivideLimbs` puts this together
   with divisors of one and of two limbs and with the shifts before and after.
4. *Signs and representations.* `mpz_div_qr` gets the signs from the sizes
   (`MpzDivideIs`: the quotient is rounded towards zero, the remainder has the sign of
   the dividend), and `idris_gmp.c` decides by size which of the two representations it
   computes in; `DivideIs`, `PlusIs` and their likes show that the decision never
   changes the number, except where a fixnum takes a result that does not fit it.

The second correction and the add-back are needed for so few operands that a test with
limbs of 64 bits hardly meets them; they are proved for that width as for any other. `WordsAreAlwaysKept` has its condition because a word of
`W64` bits goes through an `unsigned long`, which is a limb (`mp_limb_t`) in the builds
for 64 bits.

### Induction

`LeastElements` has the one principle the proofs over recursive functions use. The
library's induction rules have a predicate as a parameter, which the provers cannot
instantiate; but that a set of natural numbers has a least element is a statement
about a set, and follows from the well-foundedness of strict inclusion of finite sets.
A proof takes the least n for which its claim fails and unfolds the recursion once.

### Everything else

Checked by TLC and not proved:

* everything under fairness: `MatchedReceiveReturns`, `CallsReturn`, `GarbageFinalized`;
* `TwoCollectionsDo` where there are floats, as in the run `collector`: the proof is for
  kinds of cells that do not grow when they are copied;
* `TextRight`: the digits of a big integer come from dividing it by a power of ten over and
  over, and the memory for them from a count of divisions; both loops end by
  what they find, not by a number;
* `FloatRight`: a proof has to sum the errors that the limbs add when they are
  rounded one after the other, and `mpz_set_d` finds the number of limbs by a search;
* `Unbounded` and `CutIsModular`, which the code does not have (section 4).

## 6 What is not modelled

* Of message passing: the end of the root VM, the lock attributes, memory orders
  weaker than x86's, `inbox_nextid` running out of an `int`; that the channel id a
  send returned is the one later calls use.
* Of allocator and lifecycle: an owner without the lock whose heap others send to, which
  is modelled, but kept out of the passing runs and the theorems because the
  properties fail there (`MCUnlockedOwner.cfg`); what the program keeps in C variables between two
  calls of `HeapSharing`, and the C stack; `idris_realloc`; the cells of a message
  while it is being copied (`Collector` has one heap, `HeapSharing` has no cells).
* Of the collector: types with raw contents apart from their size; the statistics.
* Of strings: the NUL character and null strings (a NUL ends a `char*`, so such
  strings have no text to be compared with), casts between numbers and strings
  other than of big integers, `idris_readStr` and `idris_readChars`.
* Of buffers: Doubles, which are stored as ints are; sums of locations and lengths that overflow an
  `int` (signed overflow is undefined, and no caller in `Data.Buffer` comes near); files
  that are read or written with a negative length, which `idris_readBuffer` and
  `idris_writeBuffer` hand on to `fread` and `fwrite`; a `newBuffer` that gets no memory. A String that is read
  with a negative length, and a copy from out of bounds, are modelled as a loss of
  what they write (`Undefined`), although `memcpy` may do worse.
* Of `mini-gmp.c`: the functions the RTS does not call, about half of it: gcd,
  roots, powers, primes, bit scans, import and export, division rounded
  other than the RTS uses. Of `idris_gmp.c`: the memory of the digits, which is in
  `HeapSharing`.
* Options, statistics, `main`, files, network, system calls: thin wrappers without
  state of their own.
* The Idris compiler, Agda, pandoc, HTTP, alex, unordered-containers, hxt,
  regex-base, basement and memory: sequential programs over large trees and texts,
  most of them third-party, where TLC would check a paraphrase of a few functions.

## 7 The plan

Done: the modules of section 2, their runs, and the theorems of section 5, which state,
some of them under a condition, every safety property of the passing runs but `TextRight`
and `FloatRight`. Left:

1. A bound on how much floats can grow a heap, for `TwoCollectionsDo` with them.
2. `TextRight`: the conversions on top of `mpn_div_qr_1_preinv` and `mpn_mul_1`, which
   are proved; and `FloatRight`, by a bound on the sum of the errors of the limbs.
3. The cells of a message while they are copied into the heap of the receiver:
   `CopyFollows` is nearly the lemma it needs.
