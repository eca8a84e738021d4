\* A big integer is copied near the end of the heap.
CONSTANTS
    Root <- TwoRoots
    Kinds <- Bigs
    HeapSize = 9
    MaxSize = 9
    MaxGmp = 6
    MaxObjects = 2
SPECIFICATION Spec
VIEW Roles
CHECK_DEADLOCK FALSE
INVARIANT NeverNested
