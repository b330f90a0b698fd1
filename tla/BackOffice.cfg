SPECIFICATION Spec
CONSTANTS
  w1 = w1
  w2 = w2
  s1 = s1
  s2 = s2
  e1 = e1
  e2 = e2
  x1 = x1
  c1 = c1
  d1 = d1
  d2 = d2
  t1 = t1
  t2 = t2
  k1 = k1
  k2 = k2
  r1 = r1
  a1 = a1
  a2 = a2
  p1 = p1
  p2 = p2
  month = month
  today = today
  m1 = m1
  m2 = m2
  u1 = u1
  u2 = u2
  Workers = {w1, w2}
  Nothing = Nothing
  Things <- MCThings
  Scenarios <- MCScenarios
  MaxClock = 4
  Shifts = {s1, s2}
  Cashiers = {c1}
  Entries = {e1, e2}
  Sales = {x1}
  OpeningCash = 1
  MaxCash = 2
  Tolerated = 1
  Deliveries = {d1, d2}
  CashOnDelivery = {d1}
  Settlements = {t1, t2}
  Rounds = {k1, k2}
  Drivers = {r1}
  MaxHanded = 1
  Accepted = 0
  MaxWage = 1
  Adjustments = {a1, a2}
  Runs = {p1, p2}
  Month = month
  Employees = {m1, m2}
  Users = {u1, u2}
  EmployeeOf <- MCEmployeeOf
  MaxNet = 1
  Day = today
SYMMETRY Symmetric
CHECK_DEADLOCK FALSE
INVARIANT MoneyIsCountedOnce
INVARIANT BookedAsDecided
INVARIANT DeliveryCountsOnce
INVARIANT AdjustmentsPaidOnce
INVARIANT NothingSkipped
INVARIANT DayIsComplete
