CONSTANTS
  None = None
  Widgets <- MCWidgets
  PanelWidths <- MCPanelWidths
  Xs <- MCXs
  Wids <- MCWids
  TileMax = 11
  TileMin = 4
  IconTile = 2
  InitialLevels <- MCInitialLevels
SPECIFICATION Spec
CONSTRAINT VolumeBound
INVARIANT PanelTypeOK
INVARIANT FocusStateAgrees
INVARIANT DrawCacheFresh
INVARIANT LayoutContiguous
