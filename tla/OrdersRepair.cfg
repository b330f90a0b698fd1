\* One order, every command, deferred accounting: the chart of accounts is
\* completed and the gaps repaired while the order is cancelled and re-saved.
SPECIFICATION FairSpec
CONSTANTS
  o1 = o1  o2 = o2  w1 = w1  w2 = w2  k1 = k1
  dough = dough
  Orders = {o1}
  Workers = {w1, w2}
  Items = {dough}
  Keys = {}
  NoKey = NoKey
  NoOrder = NoOrder
  Recipes <- OneRecipe
  Opening <- OneUnit
  MayGoNegative = {dough}
  Priced = {o1}
  CostedItems = {dough}
  Net = {0}
  Strict = FALSE
  Ops = {"register", "cancel", "status", "kitchen", "repair"}
PROPERTIES NothingPostedForCancelled EveryCommandEnds
