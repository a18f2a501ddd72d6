SPECIFICATION FreshSpec
CONSTANTS
    Addr = {1, 2, 3}
    Val = {v1, v2}
    items_per_val = 2
    LogDescLen = 2
    NewLog <- Lists
INVARIANTS
    RefusesOnlyWhenFull
    DurableOnReturn
PROPERTY ImplementsAtomicLog
