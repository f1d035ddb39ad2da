CONSTANTS
    boot = boot
    default = default
    fam = fam
    u1 = u1
    u2 = u2
    Users = {boot, u1}
    Accounts = {default, fam}
    Jids = {j1}
    Requests = {r1}
    Calls = {c1}
    Nobody = Nobody
    BootAdmin = boot
    DefaultAccount = default
    Targets = {fam}
    Active = {"invite", "removeUser", "createAccount", "deleteAccount", "grant", "revoke", "toggle", "tags"}
    MaxFailures = 1
SPECIFICATION Spec
INVARIANTS TypeOK ReadSound StaleRowsNeverLeak AllowedRowsBelongToHolders NoDanglingReferences
PROPERTY OwnerRowsSurvive
