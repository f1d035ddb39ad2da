CONSTANTS
    t1 = t1
    t2 = t2
    Tabs = {t1, t2}
    WaitRounds = 5
    MaxFaults = 1
SPECIFICATION FairSpec
PROPERTIES DisconnectForgets ConnectRevives OnlyClicksStart QrPanelCatchesUp
