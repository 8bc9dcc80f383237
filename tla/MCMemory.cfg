CONSTANTS
    lo_mem_stat_max = 0
    mem_top = 11
    mem_max = 12
    empty_flag = 13
    GrowBy = 4
    Sizes = {2, 3}
    MergeOnly = 99
SPECIFICATION FairSpec
INVARIANTS TypeOK HeapIntact Merged OverflowJustified
PROPERTIES HeldUntouched StoreSpec GetNodeEnds
CHECK_DEADLOCK FALSE
