CONSTANTS
    boot = boot
    u1 = u1
    u2 = u2
    Users = {boot, u1}
    Boot = boot
    Invitations = {i1, i2, i3}
    Requests = {r1, r2}
    Managed = TRUE
    Faults = {}
    MaxFaults = 0
SPECIFICATION Spec
SYMMETRY Interchangeable
INVARIANT AdminRemains
