SPECIFICATION Spec
CONSTANTS
    IntMax = 3
    Int64Max = 11
    MaxSize = 9
    Block = 3
    NoRange = NoRange
CHECK_DEADLOCK FALSE
INVARIANT LargeBodyIsTheRange
