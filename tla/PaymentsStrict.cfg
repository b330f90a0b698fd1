\* One payment, one request, two commands at a time, strict accounting: every
\* order of locks, refusals and rollbacks.
SPECIFICATION FairSpec
CONSTANTS
  o1 = o1  r1 = r1  r2 = r2  w1 = w1  w2 = w2
  clerk = clerk  manager = manager  owner = owner
  cash = cash  card = card  wallet = wallet
  Orders = {o1}
  Requests = {r1}
  Users = {clerk, owner}
  High = {owner}
  Workers = {w1, w2}
  Methods = {cash, card}
  Class <- Classes
  NoMethod = NoMethod
  Total <- TwoPounds
  Amounts = {1, 2}
  Threshold = 2
  Strict = TRUE
  NoOrder = NoOrder
  NoRequest = NoRequest
  NoUser = NoUser
PROPERTIES EveryCommandEnds
