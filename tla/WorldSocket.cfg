CONSTANTS
    Session = {a, b, c}
    None = None
SPECIFICATION Spec
CHECK_DEADLOCK FALSE
INVARIANTS
    OpenPointerValid
    SetUpInPrivate
    UseIsSafe
