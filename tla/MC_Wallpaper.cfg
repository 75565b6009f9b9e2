CONSTANTS
  None = None
  NIcons = 1
  Height = 200
  Points <- MCPoints
  MaxReloads = 2
  MaxLaunches = 2
SPECIFICATION WallSpec
INVARIANT IconFocusAgrees
PROPERTY AnimationsDrain
PROPERTY ZombiesReaped
