\* One payment, two requests, two approvals or cancellations at a time, deferred
\* accounting: the chart of accounts is completed and the gaps are repaired.
SPECIFICATION Spec
CONSTANTS
  o1 = o1  r1 = r1  r2 = r2  w1 = w1  w2 = w2
  clerk = clerk  manager = manager  owner = owner
  cash = cash  card = card  wallet = wallet
  Orders = {o1}
  Requests = {r1, r2}
  Users = {clerk, owner}
  High = {owner}
  Workers = {w1, w2}
  Methods = {cash, card}
  Class <- Classes
  NoMethod = NoMethod
  Total <- TwoPounds
  Amounts = {1, 2, 3}
  Threshold = 2
  Strict = FALSE
  NoOrder = NoOrder
  NoRequest = NoRequest
  NoUser = NoUser
SYMMETRY Symmetries
INVARIANTS OrderNamesPaidMethod CorrectionsMatchPayment
PROPERTIES DecidedForGood
