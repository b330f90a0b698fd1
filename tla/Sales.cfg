\* Two customers, of whom the server may refuse either; the button is pressed
\* twice for a cart at most; the till has one post under way at a time.
SPECIFICATION FairSalesSpec
CONSTANTS
  c1 = c1  c2 = c2  t1 = t1
  Carts = {c1, c2}
  Tabs = {t1}
  Till = till
  Doubtful = {c1, c2}
  NoCart = NoCart
  NoId = NoId
  MaxPresses = 2
  MaxUnderway = 1
INVARIANTS SaleIsKept OneOrderPerSale
PROPERTIES QueuedSaleArrives
