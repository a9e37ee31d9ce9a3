\* Two votes that are broadcast concurrently.
CONSTANTS
  ann = ann  bob = bob
  v1 = v1  v2 = v2  v3 = v3
  Nil = Nil  Sent = Sent
  Users = {ann, bob}
  Caller <- Callers
  Restless = {}
  Tracks = {t1}
  Requests = {v1, v3}
SPECIFICATION QueueSpec
INVARIANT WatchersUpToDate
