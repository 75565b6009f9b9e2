CONSTANTS
  None = None
  Widgets <- MCWidgets
  PanelWidths <- MCNarrowWidths
  Xs <- MCXs
  Wids <- MCWids
  TileMax = 11
  TileMin = 4
  IconTile = 2
  InitialLevels <- MCInitialLevels
SPECIFICATION Spec
CONSTRAINT VolumeBound
INVARIANT LayoutContiguous
