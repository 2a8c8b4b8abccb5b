SPECIFICATION Spec
CONSTANTS
    s = s
    p = p
    d = d
    Msgs = {s, p}
    Cells = {c1}
    Jobs = {j1, j2}
    None = none
    Kind <- MCKind
    Thumb <- MCThumb
    Animated = {s}
    CacheLimit = 1
    MaxFeed = 1
    MaxFaults = 1
INVARIANTS
    SettledRowIsRight
    RowShowsItsImage
    RecordedFileIsWhole
    SpinnerHasCall
SYMMETRY MCSymmetry
