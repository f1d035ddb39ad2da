CONSTANTS
    default = default
    fam = fam
    Accounts = {default, fam}
    Keys = {k1, k2}
    Requests = {r1}
    NoKey = NoKey
    DefaultAccount = default
    Targets = {fam}
    Active = {"create", "delete", "provision", "rotate", "verify", "repair", "connect", "reset"}
    CanStore = TRUE
    Faults = {"refused", "ignores", "db", "dashboard"}
SPECIFICATION FairSpec
INVARIANTS TypeOK NoStraySessions ActionsReported
PROPERTIES KeyedAccountsStay CustodyKept HeldKeysSettle
