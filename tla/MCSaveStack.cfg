CONSTANTS
    alpha = alpha
    beta = beta
    r1 = r1
    r2 = r2
    m1 = m1
    m2 = m2
    plain_def = plain_def
    op_def = op_def
    i1 = i1
    Symbols = {alpha, beta}
    Variables = {alpha}
    Protectable = {beta}
    Roots = {r1, r2}
    Macros = {m1, m2}
    Bodies = {plain_def, op_def}
    HeldBodies = {op_def}
    Internals = {i1}
    IntValues = {0, 1}
    MaxUsed = 2
    MaxSaved = 4
    MaxDepth = 2
    MaxInput = 1
SPECIFICATION MCSpec
SYMMETRY Sym
INVARIANTS MacroRefsExact NodesOwned TreesSound
PROPERTIES GroupsSpec NamesKept
CHECK_DEADLOCK FALSE
