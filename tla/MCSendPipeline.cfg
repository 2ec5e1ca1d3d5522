SPECIFICATION FairSpec
CONSTANTS
    s1 = s1
    s2 = s2
    s3 = s3
    i1 = i1
    i2 = i2
    d1 = d1
    d2 = d2
    alice = alice
    bob = bob
    Sends = {s1, s2, s3}
    ClientMsgIds = {i1, i2}
    IdOf <- MC_IdOf
    Devices = {d1, d2}
    Users = {alice, bob}
    UserOf <- MC_UserOf
    SentBy <- MC_SentBy
    Receivers = {alice, bob}
    NoSend = NoSend
    PendingTtl = 1
    MaxRepeats = 1
INVARIANT OwnDevicesTold
INVARIANT AnsweredOnce
INVARIANT NoEcho
INVARIANT AnsweredUnlessExcused
INVARIANT RefusedIsNotPending
PROPERTY PendingLeaves
