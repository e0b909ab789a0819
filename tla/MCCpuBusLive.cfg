SPECIFICATION FairSpec
CONSTANTS
  Speeds = {0, 3}
  Downloads = {FALSE}
  DeviceReady = {TRUE}
  Pauses = {FALSE}
  START = 48
PROPERTIES
  BusCyclesEnd
