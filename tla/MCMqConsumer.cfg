SPECIFICATION FairSpec
CONSTANTS
    m1 = m1
    m2 = m2
    m3 = m3
    m4 = m4
    a = a
    Messages = {m1, m2, m3, m4}
    NoMessage = NoMessage
    MsgIds = {a}
    MsgIdOf <- MC_MsgIdOf
    Body <- MC_Body
    Outcome <- MC_Outcome
    Prefetch = 2
    MaxDrops = 1
    MaxStarts = 2
    Capacity = 2
    Ttl = 1
    EmptyKey = EmptyKey
INVARIANT HandledAtMostOnce
INVARIANT AckedWasDispatched
INVARIANT DeadByHandlerOnly
INVARIANT TagIsOfThisChannel
INVARIANT SetUpBeforeConsume
PROPERTY EventuallySettled
PROPERTY StopReturns
