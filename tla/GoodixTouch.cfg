\* Two points at most, so that 0, 1, 2 and one too many are all met.
CONSTANTS
  GTP_MAX_TOUCH = 2
SPECIFICATION FairSpec
INVARIANTS IrqBalanced SomeoneUnmasks ButtonFollowsChip
PROPERTIES IrqComesBack AcknowledgesWhatItReported ReleaseReported
