SPECIFICATION ProfilesSpec
CONSTANTS
    pn = pn
    lid = lid
    Users = {pn, lid}
    Alt <- MCAlt
    Rows = {r1}
    Jobs = {j1, j2}
    None = none
    MaxChanges = 2
    MaxFaults = 1
INVARIANTS
    SettledPictureIsCurrent
    WidgetsAgree
    NameFollowsContact
SYMMETRY MCSymmetry
