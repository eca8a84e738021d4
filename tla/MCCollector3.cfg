\* Three objects; the heap grows once.
CONSTANTS
    Root <- TwoRoots
    Kinds <- Everything
    HeapSize = 5
    MaxSize = 5
    MaxGmp = 20
    MaxObjects = 3
SPECIFICATION Spec
VIEW Roles
CHECK_DEADLOCK FALSE
INVARIANTS TypeOK HeapChecks FailuresHaveTheirCause
PROPERTIES ReachedCopiedOnce MarkedAreReached TwoCollectionsDo ImplementsStore
