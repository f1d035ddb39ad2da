SPECIFICATION Spec
SYMMETRY Interchangeable
CONSTANTS
    fam = fam  s1 = s1  s2 = s2  c1 = c1  c2 = c2  c3 = c3  r1 = r1  r2 = r2  none = none
    Accounts = {fam}
    Targets = {fam}
    Secrets = {s1, s2}
    Clients = {c1, c2, c3}
    Calls = {r1, r2}
    AdminCalls = {r2}
    NoClient = none
    Grace = 2
    MaxCall = 1
INVARIANTS TypeOK ServesStoredKey NoLeakedClient
PROPERTIES NotCutOff
CHECK_DEADLOCK FALSE
