\* One customer with points for one reward, two orders that ask for it, two
\* requests at a time; any of them may fail, and the server may restart.
SPECIFICATION FairSpec
CONSTANTS
  o1 = o1  o2 = o2  ann = ann  w1 = w1  w2 = w2
  Orders = {o1, o2}
  Customers = {ann}
  Owner <- OneOwner
  Earned <- OnePoint
  Cost = 1
  Opening <- OneReward
  Workers = {w1, w2}
  NoOrder = NoOrder
INVARIANTS BalanceIsLedger SpentWithTheOrder CancelledIsRefunded
PROPERTIES RefundArrives
