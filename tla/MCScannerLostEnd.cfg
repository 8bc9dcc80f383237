CONSTANTS
    Texts = {t1, t2}
    Nodes = {p1, p2}
    MaxValues = 1
    LoseEnd = TRUE
    MaxLevels = 4
    MaxCalls = 2
SPECIFICATION Spec
SYMMETRY MCSymmetry
CHECK_DEADLOCK FALSE
INVARIANT LoopTexts
