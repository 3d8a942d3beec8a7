\* Two readers share the device: what the lock, the counter and the wait queue
\* guarantee whoever calls.
CONSTANTS
  Works <- OneWork
  Readers = {r1, r2}
  KNOB_SIZE = 2
SPECIFICATION FairSpec
INVARIANTS TypeOK LockDiscipline FlagsCountCodes NoLostWakeup
PROPERTIES SleeperLeaves
