SPECIFICATION Spec
CONSTANTS
    Families <- MCFamilies
    Threshold = 1
    MaxFibers = 2
    ForkFleeting = FALSE
    MaxDepth = 12
    MaxHostDepth = 1
    Written <- WriterTables
    Readable <- ReaderTables
INVARIANTS
    TypeOK
    NothingHeldIsFree
    CheckpointWhole
    TracesEveryReference
    CodecRoundTrip
    TornRefused
    CrossesUnlessCyclicOrCode
    HostRoundTrip
    BindingsAreAMap
CHECK_DEADLOCK FALSE
