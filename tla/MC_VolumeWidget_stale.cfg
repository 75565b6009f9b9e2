CONSTANTS
  InitialLevels <- MCInitialLevels
SPECIFICATION VolSpec
PROPERTY ScrollUpNeverLowers
