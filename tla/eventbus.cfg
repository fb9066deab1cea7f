CONSTANTS
  Clients = {c1}
  Loop = Loop
  Handlers = {h1, h2}
  e1 = e1  e2 = e2  e3 = e3  e4 = e4  n1 = n1
  Events <- MCEvents
  Names <- MCNames
  Name <- MCName
  Priority <- MCPriority
  Capacity = 2
  None = None
  CanDestroy = TRUE
SPECIFICATION FairSpec
INVARIANTS QueueBounded Ownership HandshakeSafe
PROPERTIES DeliveryRefined EventuallyServed DestructorReturns
CHECK_DEADLOCK FALSE
