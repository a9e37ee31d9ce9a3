\* A vote of ann and one of bob, watched by both; bob's screen comes and goes.
CONSTANTS
  ann = ann  bob = bob
  v1 = v1  v2 = v2  v3 = v3
  Nil = Nil  Sent = Sent
  Users = {ann, bob}
  Caller <- Callers
  Restless = {bob}
  Tracks = {t1}
  Requests = {v1, v3}
SPECIFICATION FairQueueSpec
INVARIANT NoPhantomVotes
PROPERTY VotesArrive
