SPECIFICATION Spec
CONSTANTS
    a = a
    Msgs <- MCMsgs
    Chats = {a, b}
    NoChat = nochat
    ChatOf <- MCChatOf
    Time <- MCTime
    PageSize = 1
    FindLimit = 1
    Calls = {c1, c2}
    MaxEvents = 2
INVARIANTS
    ShownBelongsToActive
    PagingNotStuck
    SettledViewIsExact
    OlderIsOffered
SYMMETRY MCSymmetry
