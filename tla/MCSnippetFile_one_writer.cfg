SPECIFICATION Spec
CONSTANTS
  w1 = w1  w2 = w2  short = short  long = long  longer = longer
  None = None
  Writers = {w1}
  Contents = {short, long, longer}
  Size <- Sizes
  Inodes = {1, 2, 3}
  MaxCrashes = 2
INVARIANT ReaderSeesWhole
PROPERTY ResultIsTrue
