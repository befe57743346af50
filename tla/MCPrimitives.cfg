SPECIFICATION MCSpec
CONSTANTS
    e1 = e1
    e2 = e2
    e3 = e3
    e4 = e4
    Entrants = {e1, e2, e3, e4}
    CLOSED = 4
    MaxGen = 3
    w1 = w1
    w2 = w2
    Workers = {w1, w2}
    MaxWord = 63
    Kilo = 4
    Policies <- MCPolicies
    Ticks = {13, 30}
    Requests = {1, 3, 63}
INVARIANTS
    GateInv
    CreditExact
    RetryHonest
PROPERTIES
    CloseQuiesces
