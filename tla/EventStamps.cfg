SPECIFICATION Spec
CONSTANTS
  Users = {ann, bob}
  Nobody = Nobody
  Requests = {1, 2}
  Habits = {{"fields"}}
  MaxPlaybook = 2
  MaxRevision = 4
INVARIANTS StampsAreOwn
