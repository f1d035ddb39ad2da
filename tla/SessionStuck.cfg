CONSTANTS
    t1 = t1
    t2 = t2
    Tabs = {t1}
    WaitRounds = 5
    MaxFaults = 0
SPECIFICATION Spec
PROPERTY ConnectAlwaysRevives
