SPECIFICATION Spec
CONSTANTS
  Speeds = {0, 2, 3}
  Downloads = {FALSE, TRUE}
  DeviceReady = {FALSE, TRUE}
  Pauses = {FALSE, TRUE}
  START = 48
INVARIANTS
  TypeOK
  LoaderAlone
  WaitsHaveCause
PROPERTIES
  HoldsBetweenCycles
  AnswersAwaited
