\* A substring that is taken when the heap is full; with the other two lines, one
\* from before the beginning of a string.
CONSTANTS
    SignedChar = TRUE
    Root = {x, y}
    Chars = {127, 128, 2048, 65536}
    Encoding <- MCEncoding
    Ints <- UpTo3                           \* Signed
    MaxLens = {3}
    NoRoomFor = {"tail", "substr"}          \* {"tail"}
    Nothing = Nothing
    MaxBytes = 4
SPECIFICATION Spec
CHECK_DEADLOCK FALSE
INVARIANT TextKept
