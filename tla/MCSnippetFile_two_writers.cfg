SPECIFICATION Spec
CONSTANTS
  w1 = w1  w2 = w2  short = short  long = long  longer = longer
  None = None
  Writers = {w1, w2}
  Contents = {short, long, longer}
  Size <- Sizes
  Inodes = {1, 2, 3, 4}
  MaxCrashes = 0
INVARIANT ReaderSeesWhole
