CONSTANTS
    Session = {a, b}
    None = None
SPECIFICATION Spec
CHECK_DEADLOCK FALSE
INVARIANTS
    KickedIsForgotten
