CONSTANTS
  w1 = w1
  w2 = w2
  w3 = w3
  None = None
  Wids <- MCWids
  MaxWindows <- MCMaxWindows
SYMMETRY MCSymmetry
SPECIFICATION Spec
INVARIANT NeverCrashes
