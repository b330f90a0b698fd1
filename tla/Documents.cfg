\* Two requests at a time over two items and two branches, lines in either order.
SPECIFICATION FairSpec
CONSTANTS
  w1 = w1  w2 = w2  b1 = b1  b2 = b2  i1 = i1  i2 = i2
  t1 = t1  t2 = t2  s1 = s1  s2 = s2  a1 = a1  o1 = o1  r1 = r1  r2 = r2  r3 = r3  x3 = x3  p1 = p1  v1 = v1  c1 = c1  y1 = y1  u1 = u1  e1 = e1  g1 = g1
  Workers = {w1, w2}
  Branches = {b1, b2}
  Items = {i1, i2}
  Documents = {t1, t2, s1, s2, a1, o1, r1, r2, r3, x3, p1, v1, c1, y1, u1, e1, g1}
  NoDocument = NoDocument
  Transfers = {t1, t2}
  Stocktakes = {s1, s2}
  Adjustments = {a1}
  Orders = {o1}
  Receipts = {r1, r2, r3}
  Batches = {x3, y1}
  Returns = {p1}
  Invoices = {v1}
  Conversions = {c1}
  Purchases = {u1}
  Expenses = {e1}
  PendingOrders = {g1}
  Journaled = {s1, s2, r1, r3, p1, v1, c1, u1, e1, g1}
  Lines <- LinesMC
  At <- AtMC
  Destination <- DestinationMC
  OrderOf <- OrderOfMC
  SourceOf <- SourceOfMC
  Ordered <- OrderedMC
  Returned <- ReturnedMC
  Invoiced <- InvoicedMC
  Sorted <- SortedMC
  Output <- OutputMC
  Scenarios <- ScenariosMC
  Opening = 1
  MaxQuantity = 2
  Quantities = {0, 1}
INVARIANTS BalanceIsSumOfMovements TransferMovesWhatItSays ReceiptIsStockedOnce UnlockedDocumentsCountOnce ConversionTakesAndMakesOnce ReceivedWithinOrdered OrderShowsReceipts BatchIsAccountedFor InvoiceIsSettled
PROPERTIES EveryCommandEnds
CHECK_DEADLOCK FALSE
