\* A player and a robot, two equipments of one level, items of up to two pieces against
\* stacks of one, and two item objects: one to be received and one to be dropped for it or reused.
SPECIFICATION Spec
CONSTANTS
    Player = {p1}
    Robot = {r1}
    Item = {i1, i2}
    Equipment = {e1, e2}
    LowLevel = {e1, e2}
    FirstAid = aid
    Stackable = 1
    MaxCount = 2
    None = None
SYMMETRY Symmetry
INVARIANTS
    PickingSound
    OnePlacePerObject
    ForbiddenIffFull
PROPERTIES
    NoDuplication
