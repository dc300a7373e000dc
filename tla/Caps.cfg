SPECIFICATION Spec
CONSTANTS
  Outputs <- TheOutputs
  Keys = {"k", "l", "m"}
  CapKey <- TheKey
  Caps <- TheCaps
  PeriodLength <- Length
  Start = 1
  MaxTime = 5
  MaxPresentations = 5
  StorageMayCorrupt = TRUE
INVARIANTS TypeOK NarrowestCapKept HistoryRetained CooldownKept
CONSTRAINT KeysApart
PROPERTIES AnswersFromWholeHistory
