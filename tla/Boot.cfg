CONSTANTS
    Delay = 1
    Packet = {p1, p2, p3}
    QueueLen = 2
    None = None
SPECIFICATION FairSpec
INVARIANT StartTold
PROPERTIES ClockFollowsGps ImplementsFifo
