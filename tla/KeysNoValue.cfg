CONSTANTS
    default = default
    fam = fam
    Accounts = {default, fam}
    Keys = {k1, k2}
    Requests = {r1}
    NoKey = NoKey
    DefaultAccount = default
    Targets = {default}
    Active = {"provision", "rotate"}
    CanStore = TRUE
    Faults = {"noValue"}
SPECIFICATION Spec
INVARIANT NoUnknownKeys
