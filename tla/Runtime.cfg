SPECIFICATION Spec
CONSTANTS
  Users = {"me", "you"}
  RuntimeUser = "me"
  Requests = {"offer"}
  SlotOf <- TheSlots
  Treatments = {"default"}
  InteractionKey <- TheInteractionKey
  Playbook <- ThePlaybook
  Person <- ThePerson
  CapsEnabled = TRUE
  CapKey <- TheCapKey
  Caps <- TheCaps
  PeriodLength <- Length
  InteractionTypes = {"dismiss", "suppress"}
  Durations = {2}
  MaxTime = 3
  MaxPresentations = 2
  MaxRecords = 2
INVARIANTS DismissedStaysAway StoredSuppressionHides
PROPERTIES ShownIffCounted
CONSTRAINT HistoryApartFromOthers
