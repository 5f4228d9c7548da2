\* All lists of up to three tasks with up to two dependencies each as written.
SPECIFICATION FairSpec
CONSTANTS
    a = a
    b = b
    c = c
    a_padded = a_padded
    spaces = spaces
    Blank = Blank
    Names = {a, b, c}
    Spellings = {a, b, c, a_padded, spaces}
    strip <- MCStrip
    MaxTasks = 3
    MaxDependencies = 2
INVARIANTS TypeOK VerdictCorrect
PROPERTIES Decided
CHECK_DEADLOCK FALSE
