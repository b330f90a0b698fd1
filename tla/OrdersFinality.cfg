\* One order, strict accounting: a final status is overwritten by a stale save.
SPECIFICATION Spec
CONSTANTS
  o1 = o1  o2 = o2  w1 = w1  w2 = w2  k1 = k1
  dough = dough
  Orders = {o1}
  Workers = {w1, w2}
  Items = {dough}
  Keys = {}
  NoKey = NoKey
  NoOrder = NoOrder
  Recipes <- TwoRecipes
  Opening <- ThreeUnits
  MayGoNegative = {}
  Priced = {o1}
  CostedItems = {dough}
  Net = {0}
  Strict = TRUE
  Ops = {"register", "cancel", "status"}
PROPERTIES FinalStatusIsFinal
