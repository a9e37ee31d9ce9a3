\* Two commands, of this screen or of others, two attempts, two slots.
CONSTANTS
  Nil = Nil
  Slots = {1, 2}
  MaxAttempts = 2
  Impatient = FALSE
  MaxCommands = 2
SPECIFICATION DeviceSpec
INVARIANTS
  OneConnection
  FollowsInStep
  PlayerFollows
PROPERTY Settles
