CONSTANTS
    Player = {p1}
    Robot = {r1}
    Projectile = {j1, j2}
    ItemBox = {b1}
    None = None
    MaxHealth = 2
    MaxDamage = 2
    WithdrawalDelay = 1
    MaxPoints = 2
SYMMETRY Symmetry
SPECIFICATION Spec
INVARIANTS
    LedgerExact
    KilledOnce
    OpenedOnce
    LaunchedClean
    AwardeesOnMap
