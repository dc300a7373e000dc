SPECIFICATION Spec
CONSTANTS
  ann = ann
  bob = bob
  free = free
  pro = pro
  None = None
  Users = {ann, bob}
  Plans = {free, pro}
  AppPlans = {free}
  ServerPlans <- Known
  HasMinter = TRUE
  Habits <- Apps
  Slots = {1, 2}
  MaxVersion = 2
INVARIANTS TypeOK TokenIsOwnOrReplaced OneMintPerUser ConversionIsOwn
PROPERTIES DeliveriesInOrder EveryFetchEnds
