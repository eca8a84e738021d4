\* Arrays of no elements, shared floats, and what newRef and newArray hold.
CONSTANTS
    Root <- TwoRoots
    Kinds <- Faulty
    HeapSize = 5
    MaxSize = 10
    MaxGmp = 20
    MaxObjects = 2
SPECIFICATION Spec
VIEW Roles
CHECK_DEADLOCK FALSE
INVARIANTS ForwardFits NeverNested NeverStale
