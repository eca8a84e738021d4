\* Two strings are joined in a heap that needs two collections to have room.
CONSTANTS
    Root <- TwoRoots
    Kinds <- Texts
    HeapSize = 5
    MaxSize = 10
    MaxGmp = 20
    MaxObjects = 2
SPECIFICATION Spec
VIEW Roles
CHECK_DEADLOCK FALSE
INVARIANT NeverStale
