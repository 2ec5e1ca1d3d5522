SPECIFICATION Spec
CONSTANTS
    c1 = c1
    c2 = c2
    c3 = c3
    c4 = c4
    d1 = d1
    d2 = d2
    alice = alice
    Conns = {c1, c2, c3, c4}
    Users = {alice}
    Devices = {d1, d2}
    NoDevice = NoDevice
    UserOf <- MC_UserOf
    DeviceClaim <- MC_DeviceClaim
    MaxDevices = 2
    Events = {e1}
    AddresseeOf <- MC_AddresseeOf
SYMMETRY MC_Symmetry
INVARIANT OneCopyPerDevice
INVARIANT KickedForCause
CHECK_DEADLOCK FALSE
