SPECIFICATION Spec
CONSTANTS
    a = a
    b = b
    m = m
    i = i
    f = f
    Chats = {a, b}
    NoChat = nochat
    Msgs = {m}
    Home <- MCHome
    Files = {i, f}
    Images = {i}
    Jobs = {j1, j2}
    None = none
    MaxDialogs = 2
INVARIANTS
    PreviewIsOfStaged
    StagedForOpenChat
PROPERTIES
    StagedFileIsKept
    ChatSwitchIsWanted
SYMMETRY MCSymmetry
