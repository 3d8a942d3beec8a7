\* The loops as the code has them; a byte besides the two the buffers are filled with.
CONSTANTS
  TRIES = 5
  ROUNDS = 3
  RETRIES = 5
  RESETS = 10
  Values = {"AA", "AB", "BE"}
  Filler = "AA"
  ConfirmFiller = "AB"
SPECIFICATION Spec
INVARIANTS AnswerCameFromTheBus OneFaultAbsorbed
PROPERTIES ImplementsPort
