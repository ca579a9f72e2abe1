SPECIFICATION Spec
CONSTANTS
  Users = {u1, u2}
  NoUser = NoUser
  Callers = {u1}
  Calls = {c1, c2}
  Windows = {w1}
  Workers = {k1, k2}
  Nobody = Nobody
  Credits = 4
  Risk = 2
  Costs = {1, 3}
  Fee = 1
  MaxMoves = 1
  MaxFaults = 1
SYMMETRY Symmetry
INVARIANTS
  HoldsAreCovered
  BalanceIsLedger
  PaidOnce
  UsageIsCovered
CHECK_DEADLOCK FALSE
