\* CHeap: two VMs that send each other items; their collections interleave.
SPECIFICATION FairSpec
CONSTANTS
    a = a
    b = b
    item1 = item1
    item2 = item2
    item3 = item3
    NULL = NULL
    VMs = {a, b}
    Items = {item1, item2}
    ItemSize <- MCOneSize
    SmallHeap = 2
    MinTrigger = 3
INVARIANTS TypeOK Links ListsComplete FinalizedOnce
PROPERTIES OwnItemsKept GarbageFinalized
CHECK_DEADLOCK FALSE
