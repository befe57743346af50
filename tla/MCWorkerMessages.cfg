SPECIFICATION FairSpec
CONSTANTS
    m1 = m1
    m2 = m2
    m3 = m3
    p1 = p1
    p2 = p2
    Owner = Owner
    NoMsg = NoMsg
    Msgs = {m1, m2, m3}
    Producers = {p1, p2}
    BatchSize = 2
    MaxEntries = 2
INVARIANTS
    MessageLedger
    WakeCovered
PROPERTIES
    FirstOut
    ImplementsDelivery
    QuiesceTerminates
    ImplementsFairDelivery
