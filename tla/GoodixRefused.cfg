SPECIFICATION Spec
CONSTANTS
  Versions = {0, 1, 2, 3}
  DrvVersion = 1
  Locked = 3
INVARIANT RefusedMeansNotSent
