SPECIFICATION Spec
CONSTANTS
    None = None
    Files = {f1, f2}
    MaxThreads = 2
    ThreadCounts = {1, 2}
    NumLines = 1
    MaxEdition = 1
    MaxRuns = 2
    Faults = {"crash"}
INVARIANTS
    StageOutputsFinished
CHECK_DEADLOCK FALSE
