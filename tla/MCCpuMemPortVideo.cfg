SPECIFICATION FairSpec
CONSTANTS
  Words = {0, 1, 2}
  Lanes = {0}
  Byte = {0, 1}
  ZeroByte = 0
  ROW = 3
  clk_select = 1
  Places <- VideoPlaces
  LoaderWords = {}
INVARIANTS
  ReadsLatest
  NothingLost
PROPERTY StrobesAnswered
