CONSTANTS
  w1 = w1
  w2 = w2
  None = None
  Wids <- MCWids
  MaxWindows = 2
  Chars <- MCChars
  Bins <- MCBins
  MaxData = 2
SYMMETRY MCSymmetry
SPECIFICATION DispSpec
PROPERTY AltReleaseEndsTabbing
