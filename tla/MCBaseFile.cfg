CONSTANTS
    lo_mem_stat_max = 0
    mem_top = 15
    mem_max = 15
    empty_flag = 16
    GrowBy = 10
    Sizes = {2}
    MergeOnly = 99
    Garbage = {0, 16}
    MaxRing = 2
SPECIFICATION FileSpec
INVARIANTS HeapSound InsertionSorts OnlyLiveWords
CHECK_DEADLOCK FALSE
