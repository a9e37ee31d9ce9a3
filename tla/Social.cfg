\* Three requests of any kind: friendships, delegations and commands.
CONSTANTS
  Nil = Nil
  alice = alice  bob = bob  carol = carol
  q1 = q1  q2 = q2  q3 = q3
  f1 = f1  f2 = f2  d1 = d1
  Users = {alice, bob, carol}
  Requests = {q1, q2, q3}
  OldRows = {f1, f2}
  OldFriendship <- Friendship
  OldDevices = {d1}
  OldOwner <- AliceOwns
  OldGrants = {g1}
  OldDelegation <- BobPlays
SPECIFICATION BoundedSpec
INVARIANTS
  DevicesTypeOK
  OneRowPerPair
  OneActive
PROPERTIES
  CommandsPermitted
  RequestsEnd
