CONSTANTS
    half_buf = 4
    Byte = {0, 223}
    Pad = 223
    MaxBytes = 10
    m = 3
    inf = 40
    lo_mem_max = 20
    MaxErrors = 3
    Limits <- MCLimits
    el_gordo = 4095
    fraction_one = 512
    unity = 128
    sixteen = 2
    default_size = 640
    root_start = 9
    Four_to <- MCFour_to
    mantissa = 1048576
    grain = 512
    Powers <- MCPowers
    low = 64
    make_test = 32
    take_test = 32
    Args <- MCArgs
    Few <- MCFew
SPECIFICATION MCSpec
INVARIANTS Numbers WholeWords SelectorRight ClosedRight LeastPerturbation ResultRight InWord DimensionFits
PROPERTIES StreamSpec JobEnds
CHECK_DEADLOCK FALSE
