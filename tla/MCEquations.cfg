CONSTANTS
    a1 = a1
    a2 = a2
    a3 = a3
    c1 = c1
    c2 = c2
    c3 = c3
    c4 = c4
    null = null
    Variables = {a1, a2, a3}
    Capsules = {c1, c2, c3, c4}
    P = 3
    Numbers = {1}
    MaxSaved = 1
SPECIFICATION Spec
SYMMETRY Sym
INVARIANTS DepListsSound
PROPERTIES SolutionsKept
CHECK_DEADLOCK FALSE
