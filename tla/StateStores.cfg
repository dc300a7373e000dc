SPECIFICATION StoresSpec
CONSTANTS
  Slots = {"a"}
  Durations = {1, 3}
  LoadedWindows = {2, 4}
  MaxTime = 6
  Users = {u, v}
  Placements = {p, q}
  OldWindows = {3}
  MaxRecords = 3
  HistoryDurations = {1, 2}
  HistoryTime = 3
SYMMETRY Symmetry
INVARIANTS StoresTypeOK SystemSuppressionHolds OwnWindowsDecide
PROPERTIES ConversionChangesNoAnswer NoWindowComesBack RestartChangesNoAnswer
           ReadingUncoversNothing
