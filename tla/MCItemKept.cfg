\* CHeap: the allocation of the cell collects the item it is for.
SPECIFICATION Spec
CONSTANTS
    a = a
    b = b
    item1 = item1
    item2 = item2
    item3 = item3
    NULL = NULL
    VMs = {a}
    Items = {item1, item2}
    ItemSize <- MCOneSize
    SmallHeap = 2
    MinTrigger = 3
INVARIANT HandedOverKept
CHECK_DEADLOCK FALSE
