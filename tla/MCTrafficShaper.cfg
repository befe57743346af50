SPECIFICATION FairSpec
CONSTANTS
    tcp = tcp
    udp = udp
    None = None
    Directions = {tcp, udp}
    Datagram = {udp}
    Loads <- MCLoads
    Slice = 2
    LineBudget = 3
    UserBudget = 3
    MaxWaiters = 2
    Quota = 4
INVARIANTS
    ShaperInv
    BandwidthInv
PROPERTIES
    PayloadSettles
CHECK_DEADLOCK FALSE
