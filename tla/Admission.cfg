CONSTANTS
    Session = {s1, s2, s3}
    SessionId = {i1, i2, i3}
    Theater = {t1}
    None = None
    ClientKind <- MCClientKind
    PlayerLimit = 1
    PopulationCap = 2
    SessionTimeout = 0
    QueuedSessionTimeout = 0
    ExpiredSessionDelay = 0
SPECIFICATION Spec
SYMMETRY Symmetry
INVARIANTS
    OneHome
    CountsMatch
    MembersAgree
    PlayerOwned
PROPERTIES
    FirstComeFirstServed
