SPECIFICATION Spec
CONSTANTS
    n1 = n1
    n2 = n2
    c1 = c1
    Normal = {n1, n2}
    Control = {c1}
    BatchSize = 1
INVARIANTS
    QuiesceWakeArmed
