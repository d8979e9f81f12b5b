SPECIFICATION Spec
CONSTANTS
    maxLineBytes = 2
    MaxStream = 6
INVARIANT FramesAreLines
CHECK_DEADLOCK FALSE
