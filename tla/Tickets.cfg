\* One customer at the till, online (the queue is the business of Sales.cfg); a ticket
\* and a bill, two print agents, one retry of each job by hand.
SPECIFICATION FairSpec
CONSTANTS
  c1 = c1  a1 = a1  a2 = a2
  Carts = {c1}
  Tabs = {}
  Till = till
  Doubtful = {}
  NoCart = NoCart
  NoId = NoId
  MaxPresses = 1
  MaxUnderway = 1
  Jobs <- Papers
  Agents = {a1, a2}
  NoJob = NoJob
  MaxRetries = 1
  Automatic = {"ticket"}
  OnDemand = {"bill"}
INVARIANTS PrintedOncePerTry
PROPERTIES TicketComesOut
