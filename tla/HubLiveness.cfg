CONSTANTS
  Nil = Nil
  Entities = {e1}
  Hubs = {h1, h2}
  Clients = {c1, c2}
  Publishers = {p1}
  SendBuffer = 1
  BroadcastBuffer = 1
  MaxMessages = 2
SPECIFICATION FairSpec
PROPERTIES
  SendersReturn
  HandshakeSettles
  PumpsExit
  IdleHubReclaimed
  MembersServed
