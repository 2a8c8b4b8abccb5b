SPECIFICATION Spec
CONSTANTS
    Finishers = {f1, f2}
    QueueCap = 1
    MaxChunks = 2
INVARIANTS
    GateHasExit
PROPERTIES
    BarNeverRunsBack
    CountedRowsTidied
    ProgressPageIsLeft
