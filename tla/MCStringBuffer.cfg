\* A string buffer that is filled up.
CONSTANTS
    SignedChar = TRUE
    Root = {x, y}
    Chars = {127, 128, 2048, 65536}
    Encoding <- MCEncoding
    Ints = {}
    MaxLens = {3}
    NoRoomFor = {"tail"}
    Nothing = Nothing
    MaxBytes = 4
SPECIFICATION Spec
CHECK_DEADLOCK FALSE
INVARIANT NeverOutside
