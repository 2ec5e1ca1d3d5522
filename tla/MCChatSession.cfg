SPECIFICATION Spec
CONSTANTS
    c1 = c1
    c2 = c2
    c3 = c3
    u1 = u1
    d1 = d1
    NoDevice = NoDevice
    Conns = {c1, c2, c3}
    Users = {u1}
    Devices = {d1}
    UserOf <- MC_UserOf
    DeviceClaim <- MC_Fallback
    MaxDevices = 1
    HeartbeatTimeout = 1
    MaxNow = 0
SYMMETRY MC_Symmetry
INVARIANT RegistryWellFormed
INVARIANT NoGhost
INVARIANT PresenceSettles
INVARIANT OrphanOnlyByKeyCollision
PROPERTY DisplacesAtMostOne
