CONSTANTS
  None = None
  NIcons = 2
  Height = 200
  Points <- MCPoints
  MaxReloads = 2
  MaxLaunches = 2
SPECIFICATION WallSpec
PROPERTY FadeNeverEarly
