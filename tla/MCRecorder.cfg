CONSTANTS
    Codes = {0, 1}
    Exts = {0, 1}
    Byte = 2
    ScriptSets <- MCScripts
    MaxFills = 3
    MaxOctants = 2
    MaxShips = 2
    MaxRetro = 1
SPECIFICATION MCSpec
INVARIANTS OwnCurves KnotsAligned 
CHECK_DEADLOCK FALSE
