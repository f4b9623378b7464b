SPECIFICATION Spec
CONSTANTS
    None = None
    Files = {f1}
    MaxThreads = 2
    ThreadCounts = {2}
    NumLines = 2
    MaxEdition = 2
    MaxRuns = 2
    Faults = {"kill", "crash", "ctrlC", "signal", "prepare"}
INVARIANTS
    DocumentsWhole
CHECK_DEADLOCK FALSE
