\* BigInt: where a result leaves the fixnums, where a word loses its sign, and
\* where a copy reads out of bounds.
SPECIFICATION Spec
CONSTANTS
    HalfBits = 4
    MaxLimbs = 4
    SmallBits = 2
    TimesBits <- MCTimesBits
    FixOperands <- MCFixOperands
    BigOperands <- MCBigOperands
    ShiftCounts <- MCShiftCounts
    MantissaBits = 5
    W8 = 2
    W16 = 4
    W32 = 6
    W64 = 8
    IntBits = 6
    MaxBits = 29
INVARIANTS Unbounded CutIsModular CopiesInBounds
