\* Two requests at a time over two years of two months; entries are
\* dated in the second month, and their reversals and the closings wherever the day is.
SPECIFICATION Spec
CONSTANTS
  w1 = w1  w2 = w2  m1 = m1  a1 = a1
  Workers = {w1, w2}
  Manual = {m1}
  Automatic = {a1}
  LastYear = 2
  MonthsOfYear = 2
  Amounts = {1}
  Dates = {2}
  MaxReversals = 1
  NoEntry = NoEntry
SYMMETRY WorkerSymmetry
INVARIANTS LedgerIsWhatStands ClosingIsIncomeOfYear
PROPERTIES ClosedMonthRests
CHECK_DEADLOCK FALSE
