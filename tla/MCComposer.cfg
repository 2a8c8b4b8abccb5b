SPECIFICATION ComposerFairSpec
CONSTANTS
    Directs = {d}
    Groups = {g}
    NoChat = nochat
    MaxCalls = 2
INVARIANTS
    NoDanglingTyping
    TrackerMatchesServer
    SubscriptionIsReal
PROPERTY TypingIsWithdrawn
