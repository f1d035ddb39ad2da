CONSTANTS
    boot = boot
    u1 = u1
    u2 = u2
    Users = {boot, u1, u2}
    Boot = boot
    Invitations = {i1, i2, i3}
    Requests = {r1}
    Managed = TRUE
    Faults = {"refused", "lost", "db", "crash", "dashboard"}
    MaxFaults = 1
SPECIFICATION Spec
SYMMETRY Interchangeable
INVARIANTS TypeOK AdminRemainsSerially NoStaleAdmin NoOrphanInvitation AdminsComeFromWorkOS ChangesVetted
PROPERTY RemovedEverywhere
