CONSTANTS
    Worker = {w1, w2}
    Theater = {t1, t2, t3}
    NoTheater = NoTheater
SPECIFICATION FairSpec
INVARIANTS
    ExclusiveUpdate
PROPERTIES
    TickEnds
    StopReturns
    ImplementsParallelUpdate
