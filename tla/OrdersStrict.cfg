\* Two orders, two requests at a time, one idempotency key, strict accounting.
SPECIFICATION Spec
CONSTANTS
  o1 = o1  o2 = o2  w1 = w1  w2 = w2  k1 = k1
  dough = dough
  Orders = {o1, o2}
  Workers = {w1, w2}
  Items = {dough}
  Keys = {k1}
  NoKey = NoKey
  NoOrder = NoOrder
  Recipes <- TwoRecipes
  Opening <- ThreeUnits
  MayGoNegative = {dough}
  Priced = {o1}
  CostedItems = {}
  Net <- TwoOrNone
  Strict = TRUE
  Ops = {"register", "cancel", "status"}
SYMMETRY WorkerSymmetry
INVARIANTS StockRestoredExactlyOnce CancelledOrderIsReversed
  RegisteredIsJournaled RegistrationHoldsItsKey
PROPERTIES OnlyApprovedSalesOverdraw ImplementsSaleEffects
