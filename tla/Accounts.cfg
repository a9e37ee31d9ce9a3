\* Three requests of any kind.
CONSTANTS
  Nil = Nil
  typed = typed  lower = lower  second = second  free = free
  u1 = u1  u2 = u2  g1 = g1  g2 = g2
  Requests = {q1, q2, q3}
  OldUsers = {u1, u2}
  OldPairs = {t1}
  Addresses = {typed, lower, second, free}
  Lower <- LowerCase
  OldAddress <- Registered
  Googles = {g1, g2}
  Mail <- GoogleMail
SPECIFICATION Spec
SYMMETRY RequestSymmetry
INVARIANTS
  OneLivePerLogin
  SessionsAreEntitled
  GoogleAnswersAgree
  LinkOrFailure
PROPERTIES
  RevokedIsUseless
  UsedLinkIsDead
