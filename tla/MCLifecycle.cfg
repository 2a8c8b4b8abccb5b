SPECIFICATION Spec
CONSTANTS
    Daemons = {d1, d2, d3}
    NoFile = nofile
INVARIANTS
    RunningIsReachable
PROPERTIES
    SomebodyServes
