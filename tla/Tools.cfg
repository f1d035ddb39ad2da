CONSTANTS
    a1 = a1
    a2 = a2
    g1 = g1
    g2 = g2
    k1 = k1
    t1 = t1
    t2 = t2
    Accounts = {a1, a2}
    Jids = {g1, g2, k1}
    Groups = {g1, g2, k1}
    Communities = {k1}
    Tags = {t1, t2}
    Calls = {c1}
    Requests <- MCRequests
    Recent <- MCRecent
    Feed <- MCFeed
    MaxGroupChoices = 2
    None = None
    NoKey = NoKey
    Targets = {a1}
    MaxChanges = 1
    MaxListLimit = 2
    FetchCap = 4
    Multiplier = 2
    Slack = 1
    ChatCap = 2
    FetchAll = 3
    NoMore = NoMore
SPECIFICATION MCSpec
INVARIANTS TypeOK ShownWasAllowed ScopeVetted GroupsAreCurrent QuietCallsKeepPromises PagesTruthful
PROPERTY TagsMerged
