SPECIFICATION Spec
CONSTANTS
  Words = {0, 1, 2, 3}
  Lanes = {0, 1}
  Byte = {0, 1}
  ZeroByte = 0
  ROW = 4
  clk_select = 3
  Places <- RomPlaces
  LoaderWords = {0}
INVARIANTS
  LookaheadCoherent
  ReadsInRow
