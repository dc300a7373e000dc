SPECIFICATION Spec
CONSTANTS
  Users = {"me"}
  RuntimeUser = "me"
  Requests = {"offer"}
  SlotOf <- TheSlots
  Treatments = {"default", "variant"}
  InteractionKey <- TheInteractionKey
  Playbook <- ThePlaybook
  Person <- ThePerson
  CapsEnabled = TRUE
  CapKey <- TheCapKey
  Caps <- TheCaps
  PeriodLength <- Length
  InteractionTypes = {"dismiss"}
  Durations = {2}
  MaxTime = 3
  MaxPresentations = 2
  MaxRecords = 0
INVARIANTS DismissedStaysAway
