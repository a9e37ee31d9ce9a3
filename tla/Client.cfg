\* Two calls, two pairs after the first, one kill.
CONSTANTS
  Nil = Nil
  Calls = {c1, c2}
  MaxPairs = 2
  MaxKills = 1
SPECIFICATION BoundedSpec
INVARIANT ReuseIsExcused
PROPERTY WaitersReleased
CHECK_DEADLOCK FALSE
