SPECIFICATION Spec
CONSTANTS
  s1 = s1
  s2 = s2
  r1 = r1
  c = c
  None = None
  Threads = {s1, s2, r1, c}
  Caps = {0}
  Ops <- MCOps
  MaxCalls <- MCCalls
INVARIANTS FullWhileOpen
