\* Three votes of two users for a track and a suggestion under each licence; the
\* settings change between requests and during one of them.
CONSTANTS
  owner = owner  ann = ann  bob = bob
  s1 = s1  v1 = v1  v2 = v2  v3 = v3
  t1 = t1  t2 = t2
  here = here
  Nil = Nil
  Users = {owner, ann, bob}
  Owner = owner
  Caller <- Callers
  Tracks = {t1, t2}
  Song <- SharedSong
  Suggesters = {s1}
  Voters = {v1, v2, v3}
  Places = {here}
  Windows <- VotingHours
  InitEvents <- AnyEvent
  Updates <- AllPatches
  MaxClock = 2
SPECIFICATION BoundedSpec
INVARIANTS
  AcceptedOnce
  CountExact
  NoNilDereference
PROPERTIES
  ImplementsTally
  LicenseRespected
  RequestsEnd
