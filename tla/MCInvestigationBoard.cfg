\* The investigation board: three clicks, one check of the watch runner.
SPECIFICATION Spec
CONSTANTS
    a = a
    b = b
    c = c
    None = None
    Entities = {a, b, c}
    TypeOf <- MCTypeOf
    Found <- MCFound
    Boards <- MCBoards
    Stored <- MCStored
    MaxClicks = 3
    MaxGrowth = 1
    UndoDepth = 1
    MaxNodes = 2
INVARIANTS TypeOK QuietMeansSaved UndoIsOfThisBoard PathIsShortest
CHECK_DEADLOCK FALSE
