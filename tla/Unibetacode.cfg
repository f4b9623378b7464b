SPECIFICATION Spec
CONSTANTS
    Lines <- MCLines
    Preparations <- MCPreparations
    Strings <- MCStrings
    MaxUnits = 3
INVARIANTS
    TypeOK
    RoundTrip
    
    CodesMeant
    LibraryRoundTrip
CHECK_DEADLOCK FALSE
