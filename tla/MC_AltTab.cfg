CONSTANTS
  w1 = w1
  w2 = w2
  w3 = w3
  None = None
  Wids <- MCWids
  MaxWindows <- MCMaxWindows
SPECIFICATION StableSpec
INVARIANT TypeOK
INVARIANT OverlayIffTabbing
PROPERTY TabIndexWraps
PROPERTY AltTabRefines
