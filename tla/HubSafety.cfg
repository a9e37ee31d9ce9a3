\* Two entities: rooms are emptied and replaced, and stay apart.
CONSTANTS
  Nil = Nil
  Entities = {e1, e2}
  Hubs = {h1, h2}
  Clients = {c1, c2}
  Publishers = {p1}
  SendBuffer = 1
  BroadcastBuffer = 2
  MaxMessages = 3
SYMMETRY HubSymmetry
SPECIFICATION Spec
INVARIANTS
  NoPanic
  RunningHubIsMapped
PROPERTY ImplementsRoom
