\* Collections that start anywhere, heaps that grow twice; two objects at a time.
CONSTANTS
    Root <- TwoRoots
    Kinds <- Everything
    HeapSize = 5
    MaxSize = 10
    MaxGmp = 20
    MaxObjects = 2
SPECIFICATION Spec
VIEW Roles
CHECK_DEADLOCK FALSE
INVARIANTS TypeOK HeapChecks FailuresHaveTheirCause
PROPERTIES ReachedCopiedOnce MarkedAreReached TwoCollectionsDo ImplementsStore
