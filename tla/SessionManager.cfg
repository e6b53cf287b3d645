CONSTANTS
  c1 = c1
  c2 = c2
  c3 = c3
  m1 = m1
  m2 = m2
  Clients = {c1, c2, c3}
  Managers = {m1, m2}
  ManagerOf <- Owner
  MaxGen = 2
SPECIFICATION FairSpec
INVARIANTS
  NoSecondExchange
  SInv
  SessionIsKept
PROPERTIES
  EveryCallReturns
CHECK_DEADLOCK FALSE
