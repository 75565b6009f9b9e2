CONSTANTS
  None = None
  Widgets <- MCWidgets
  PanelWidths <- MCPanelWidths
  Xs <- MCXs
  Wids <- MCWids3
  TileMax = 11
  TileMin = 4
  IconTile = 2
  InitialLevels <- MCInitialLevels
SPECIFICATION Spec
CONSTRAINT VolumeBound
INVARIANT TilesWithinExtent
