SPECIFICATION FairSpec
CONSTANTS
    Directs = {d}
    Groups = {g}
    Members = {u, v}
    NoChat = nochat
    Buffer = 1
INVARIANTS
    SubtitleIsCurrent
    GroupTypistsAreRight
    OnlineIsTrue
PROPERTY IndicatorFades
