SPECIFICATION Spec
CONSTANTS
  Outputs <- DailyOutputs
  Keys = {"k"}
  CapKey <- DailyKey
  Caps <- DailyCaps
  PeriodLength <- Length
  Start = 1
  MaxTime = 8
  MaxPresentations = 4
  StorageMayCorrupt = FALSE
INVARIANTS EveryCapKept
