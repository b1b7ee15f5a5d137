SPECIFICATION Spec
CONSTANTS
    MaxUp = 2
    MaxDown = 2
CHECK_DEADLOCK FALSE
INVARIANTS Bidirectional
