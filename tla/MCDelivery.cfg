SPECIFICATION Spec
CONSTANTS
    Msgs = {m1}
    Rpcs = {r1, r2}
    Receipts = events
INVARIANTS
    AcknowledgedWasAccepted
    PendingHasAnOwner
PROPERTIES
    NoDowngradeUnlessOvertaken
    PendingIsResolved
