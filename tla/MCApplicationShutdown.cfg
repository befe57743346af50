SPECIFICATION FairSpec
CONSTANTS
    d1 = d1
    NWorkers = 2
    Producers = {d1}
    Codes = {0}
    SignalCode = 130
    Timeouts = TRUE
INVARIANTS
    ShutdownInv
    OutcomeHonest
PROPERTIES
    ShutdownCompletes
