\* Two edits of any kind from the screens of two users, with every setting.
CONSTANTS
  None = None
  owner = owner  ann = ann  s1 = s1  s2 = s2  t1 = t1  t2 = t2  t3 = t3
  Users = {owner, ann}
  Owner = owner
  Tracks = {t1, t2, t3}
  InitList <- TwoTracks
  Screens = {s1, s2}
  Viewer <- Viewers
  EditRequests = {q1, q2}
  Settings <- AllSettings
SPECIFICATION BoundedSpec
INVARIANTS
  ScreensTypeOK
  ScreensAgree
PROPERTY EditsPermitted
CHECK_DEADLOCK FALSE
