SPECIFICATION Spec
CONSTANTS
    Latinate = FALSE
    Vow_contr <- MCVow_contr
    Cons_euph <- MCCons_euph
    Basics <- MCBasics
    Sources <- MCSources
    Wanted <- MCWanted
    MAXENDINGS = 100
    ENDCACHESIZE = 2
INVARIANTS
    EtaDialects
CHECK_DEADLOCK FALSE
