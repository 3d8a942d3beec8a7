\* Both knobs, turned freely in either direction while the handlers run.
CONSTANTS
  Knobs = {"left", "right"}
SPECIFICATION Spec
INVARIANTS SampleIsMine NoEventFiltered DirectionKept
