\* Strings of up to four bytes; substr is asked for what the text has, or more.
CONSTANTS
    SignedChar = TRUE
    Root = {x, y}
    Chars = {127, 128, 2048, 65536}
    Encoding <- MCEncoding
    Ints <- UpTo3
    MaxLens = {3}
    NoRoomFor = {"tail"}
    Nothing = Nothing
    MaxBytes = 4
SPECIFICATION Spec
CHECK_DEADLOCK FALSE
INVARIANTS TypeOK TextKept AnswersRight
