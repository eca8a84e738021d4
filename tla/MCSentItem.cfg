\* CHeap: the sender collects what the receiver has a cell of.
SPECIFICATION Spec
CONSTANTS
    a = a
    b = b
    item1 = item1
    item2 = item2
    item3 = item3
    NULL = NULL
    VMs = {a, b}
    Items = {item1, item2}
    ItemSize <- MCOneSize
    SmallHeap = 2
    MinTrigger = 3
INVARIANT SentItemsKept
CHECK_DEADLOCK FALSE
