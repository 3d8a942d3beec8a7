\* One knob, four quarter turns either way, one application that keeps reading.
CONSTANTS
  Knobs = {"left"}
  Readers = {r1}
  KNOB_SIZE = 1
  MaxTurns = 4
SPECIFICATION FairSpec
INVARIANTS CodesAreTurns
PROPERTY TurnIsHeard
\* MaxTurns used up, the application sleeps: the run ends there.
CHECK_DEADLOCK FALSE
