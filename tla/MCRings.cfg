CONSTANTS
    x = x
    y = y
    c1 = c1
    c2 = c2
    c3 = c3
    v1 = v1
    v2 = v2
    null = null
    Variables = {x, y}
    Capsules = {c1, c2, c3}
    Values = {v1, v2}
    MaxSaved = 2
    max_str_ref = 3
    MaxStrings = 2
SPECIFICATION Spec
SYMMETRY Sym
INVARIANTS RefsExact
PROPERTIES EqualStayEqual
CHECK_DEADLOCK FALSE
