SPECIFICATION BrowserSpec
CONSTANTS
  banner = banner
  modal = modal
  Slots = {banner, modal}
  MaxVersion = 2
  Unreadable = {2}
  Seeds = {0, 1}
  MaxRetries = 2
  MaxCalls = 4
  ann = ann
  bob = bob
  acme = acme
  Users <- TheUsers
  Accounts <- TheAccounts
  Identifications <- Logins
  Nobody = Nobody
  NoAccount = NoAccount
  MaxBatch = 2
  Retries = 1
  MaxId = 2
  ContextRequests = {1, 2}
  Habits <- TheHabits
  MaxPlaybook = 2
  MaxRevision = 4
INVARIANTS TypeOK UnavailableHasCause AwaitsALoad
           QueuesTypeOK OneRowPerEvent InteractionAccountKept
           ComposedIsCurrent SnapshotIsReplaced
PROPERTIES LoadedWasLive StopsLoading NoInteractionLost EveryEventSettles
CHECK_DEADLOCK FALSE
