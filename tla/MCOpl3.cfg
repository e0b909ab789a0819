SPECIFICATION Spec
CONSTANTS
  OPL_WRITEBUF_SIZE = 2
  OPL_WRITEBUF_DELAY = 2
  Programs <- MCPrograms
INVARIANTS
  WritesInOrder
  EveryNoteStarts
  VoicesWhole
  PitchCurrent
  NoNoteHangs
PROPERTY
  LevelKeepsDirection
