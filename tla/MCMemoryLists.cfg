CONSTANTS
    lo_mem_stat_max = 0
    mem_top = 10
    mem_max = 13
    empty_flag = 14
    GrowBy = 5
    Sizes = {2}
    MergeOnly = 99
SPECIFICATION ListSpec
INVARIANT ListsSound
PROPERTIES FlushEnds
CHECK_DEADLOCK FALSE
