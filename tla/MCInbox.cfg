SPECIFICATION Spec
CONSTANTS
    NumMsgs = 2
    Outgoing = {2}
    Events = events
    History = history
    Passes = {g1}
    Flags = {"archived"}
    Rpcs = {r1}
    MaxUnread = 1
    MaxBusy = 2
INVARIANT ContactListed
PROPERTY ImplementsContact
CHECK_DEADLOCK FALSE
