SPECIFICATION Spec
CONSTANTS
  Games <- MCGames
  Inputs <- MCInputs
  Scale = 10
  Parts = 20
  ContentWeight = 8
  PlatformWeight = 1
  PopularityWeight = 1
  BaseWeight = 9
  AffinityWeight = 1
  PlayedFactor = 5
  Threshold = 7
  MaxSources = 2
INVARIANTS ScoresAreSound NothingRejectedIsShown NeutralFeedbackIsNeutral WithoutFeedbackItIsStateless
CHECK_DEADLOCK FALSE
