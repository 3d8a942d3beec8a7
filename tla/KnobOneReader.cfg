\* One reader, as the driver's application has: the driver implements KnobPort.
CONSTANTS
  Works <- OneKnob
  Readers = {r1}
  KNOB_SIZE = 2
SPECIFICATION FairSpec
INVARIANTS LoneReaderFindsCode LoneReaderGetsCode
PROPERTIES ImplementsPort LoneCallReturns RotationStored
