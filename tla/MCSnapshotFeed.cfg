CONSTANTS
  w1 = w1
  w2 = w2
  c1 = c1
  Writers <- MCWriters
  Clients <- MCClients
SPECIFICATION Spec
INVARIANT ObserversAgreeWhenIdle
CHECK_DEADLOCK FALSE
