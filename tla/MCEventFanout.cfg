SPECIFICATION Spec
CONSTANTS
    c1 = c1
    c2 = c2
    c3 = c3
    alice = alice
    bob = bob
    Conns = {c1, c2, c3}
    Users = {alice, bob}
    UserOf <- MC_UserOf
    NoUser = NoUser
    Bad = Bad
    Payloads <- MC_Shaped
INVARIANT Announced
INVARIANT AnnouncedOnce
INVARIANT AllOrNobody
CHECK_DEADLOCK FALSE
