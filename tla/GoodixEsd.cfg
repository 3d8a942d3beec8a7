\* The rounds of the two loops as the code has them.
CONSTANTS
  WAKE_TRIES = 10
  READ_TRIES = 3
SPECIFICATION FairSpec
INVARIANTS WatchdogLives SleepUndisturbed AddressKept
PROPERTIES HungChipReset
