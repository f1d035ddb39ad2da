CONSTANTS
    boot = boot
    default = default
    fam = fam
    u1 = u1
    u2 = u2
    Users = {boot, u1}
    Accounts = {default, fam}
    Jids = {j1}
    Requests = {r1, r2}
    Calls = {c1}
    Nobody = Nobody
    BootAdmin = boot
    DefaultAccount = default
    Targets = {default}
    Active = {"invite", "grant", "revoke", "toggle"}
    MaxFailures = 0
SPECIFICATION Spec
PROPERTY ShownToHolders
