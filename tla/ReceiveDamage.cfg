CONSTANTS
    Player = {p1, p2}
    Robot = {r1, r2}
    PopulationCap = 3
    WithdrawalDelay = 2
    GMCommand = {"receivedamage"}
SPECIFICATION Spec
INVARIANTS
    NoAssertionFails
