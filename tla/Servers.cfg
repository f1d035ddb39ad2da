CONSTANTS
    o1 = o1
    Columns = 3
    MaxRestarts = 2
    MaxLocked = 1
    Objects = {o1}
    LinkTTL = 2
    MaxMishaps = 1
SPECIFICATION Spec
INVARIANTS ReadyBeforeServing NobodyLosesTheRace LinkGoodUntilExpiry
PROPERTY NothingOutlivesItsLink
CHECK_DEADLOCK FALSE
