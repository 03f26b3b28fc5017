CONSTANTS
  Id = {1, 3}
  Alien = {2}
  MaxClock = 3
  Outside = {"put", "break", "remove", "index", "tmp"}
SPECIFICATION Spec
INVARIANTS ListedOnce Recoverable RestartIsNoOp
PROPERTY OneVersionAtATime
