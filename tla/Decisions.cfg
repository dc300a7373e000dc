\* One request or question and its answer per behaviour, which then ends.
SPECIFICATION DecisionsSpec
CHECK_DEADLOCK FALSE
CONSTANTS
  Scenarios <- Ranked
  KnownAddons = {"pack", "seats"}
  AddonVariations <- TheAddonVariations
  PlanVariations <- ThePlanVariations
  Dimension <- TheDimension
  MaxSafe = 15
  Questions <- TheQuestions
INVARIANTS EmptyOnlyIfNothingShowable MostUrgentShown RowOrderIsIrrelevant
           NameIsNoBackDoor MostPermissivePrevails EvaluatorsAgree NumbersAddUp
