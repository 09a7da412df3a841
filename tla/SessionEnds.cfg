CONSTANTS
    Session = {s1, s2}
    SessionId = {i1, i2}
    Theater = {t1}
    None = None
    ClientKind <- MCClientKind
    PlayerLimit = 1
    PopulationCap = 2
    SessionTimeout = 2
    QueuedSessionTimeout = 2
    ExpiredSessionDelay = 2
SPECIFICATION FairSpec
INVARIANTS
    ShutdownIsClean
PROPERTIES
    DisconnectedIsDeleted
    ShutdownCompletes
    ExpiredIsClosed
