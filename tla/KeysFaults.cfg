CONSTANTS
    default = default
    fam = fam
    Accounts = {default, fam}
    Keys = {k1, k2, k3}
    Requests = {r1, r2}
    NoKey = NoKey
    DefaultAccount = default
    Targets = {fam}
    Active = {"create", "delete", "provision", "rotate"}
    CanStore = TRUE
    Faults = {"refused", "lost", "ignores", "noValue", "db", "crash"}
SPECIFICATION Spec
SYMMETRY Interchangeable
INVARIANTS CurrentKeyKept OnlyVettedKeys
