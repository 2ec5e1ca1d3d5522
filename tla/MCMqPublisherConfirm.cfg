SPECIFICATION Spec
CONSTANTS
    e1 = e1
    e2 = e2
    e3 = e3
    e4 = e4
    NoEvent = NoEvent
    Events = {e1, e2}
    QueueCapacity = 2
    MaxDrops = 2
    MaxStarts = 2
INVARIANT OkMeansReceived
