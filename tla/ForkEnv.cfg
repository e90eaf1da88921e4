SPECIFICATION Spec
CONSTANTS
    Families <- MCForking
    Threshold = 1
    MaxFibers = 2
    ForkFleeting = TRUE
    MaxDepth = 12
    MaxHostDepth = 1
    Written <- WriterTables
    Readable <- ReaderTables
INVARIANT NothingHeldIsFree
CHECK_DEADLOCK FALSE
