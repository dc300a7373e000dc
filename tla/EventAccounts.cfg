SPECIFICATION QueuesSpec
CONSTANTS
  ann = ann
  bob = bob
  acme = acme
  Users <- TheUsers
  Accounts <- TheAccounts
  Identifications <- Logins
  Nobody = Nobody
  NoAccount = NoAccount
  MaxBatch = 2
  Retries = 1
  MaxId = 2
INVARIANTS LanesAgree
