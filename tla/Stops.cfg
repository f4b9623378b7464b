SPECIFICATION FairSpec
CONSTANTS
    None = None
    Files = {f1}
    MaxThreads = 2
    ThreadCounts = {2}
    NumLines = 2
    MaxEdition = 2
    MaxRuns = 2
    Faults = {"killFirst", "crash", "ctrlC", "signal",
              "withdraw", "prepare", "clear"}
INVARIANTS
    DocumentsOfOneText
PROPERTIES
    FinishedWorkKept
    RunEnds
CHECK_DEADLOCK FALSE
