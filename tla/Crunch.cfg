SPECIFICATION Spec
CONSTANTS
    MaxLines = 7
INVARIANTS
    TypeOK
    LineForLine
PROPERTIES
    GreekQueried
CHECK_DEADLOCK FALSE
