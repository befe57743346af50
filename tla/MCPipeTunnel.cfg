CONSTANTS
    w1 = w1
    w2 = w2
    p1 = p1
    Workers = {w1, w2}
    Pairs = {p1}
    Home <- MCHome
    Loads <- MCLoads
SPECIFICATION FairSpec
INVARIANTS PipeInv OneConversation SweepIsComplete NothingKept
PROPERTIES HalfClosedEnds
