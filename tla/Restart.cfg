SPECIFICATION Spec
CONSTANTS
    None = None
    Files = {f1, f2, f3}
    MaxThreads = 2
    ThreadCounts = {2}
    NumLines = 1
    MaxEdition = 1
    MaxRuns = 2
    Faults = {"crash", "ctrlC", "signal", "clear"}
SYMMETRY FileSymmetry
INVARIANTS
    TypeOK
    NoSharedFile
    QueuedOnce
    StageOutputsFinished
    DocumentsFinished
    AllVertAgrees
PROPERTIES
    AllFilesProcessed
    ImplementsCorpus
CHECK_DEADLOCK FALSE
