SPECIFICATION Spec
CONSTANTS
    Lines <- NoLines
    Preparations <- NoPreparations
    Strings <- MCStrings
    MaxUnits = 2
INVARIANTS
    SigmasUnambiguous
CHECK_DEADLOCK FALSE
