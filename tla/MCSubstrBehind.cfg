\* A substring from behind the end of a string.
CONSTANTS
    SignedChar = TRUE
    Root = {x, y}
    Chars = {127, 128, 2048, 65536}
    Encoding <- MCEncoding
    Ints <- UpTo3
    MaxLens = {}
    NoRoomFor = {"tail"}
    Nothing = Nothing
    MaxBytes = 4
SPECIFICATION Spec
CHECK_DEADLOCK FALSE
INVARIANT NeverOutside
