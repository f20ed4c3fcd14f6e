SPECIFICATION FairSpec
CONSTANTS
  r1 = r1
  r2 = r2
  Requests = {r1, r2}
  Objectives <- AllObjectives
  MaxFaults = 2
  MaxAnswers = 2
INVARIANTS
  TypeOK
  EffectsNotReplayed
  CheckpointMatchesIntent
  HandoffIsPublished
  PublishedIsValidated
PROPERTIES
  RunComesToRest
  SettledForGood
  VerifiedOnCurrentHandoff
CHECK_DEADLOCK FALSE
