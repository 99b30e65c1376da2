SPECIFICATION Spec
CONSTANTS
  Order <- ThreeFRs
  Catalogues <- SomeCatalogues
  Kinds <- TwoKinds
  Rules <- TwoRules
  Starts <- PrefixOf
  TestIds <- TwoIds
  NoId = NoId
  Patterns <- OnePattern
  Outcomes <- CaseResults
  Acceptable <- SomeKeys
  Waivable <- Two
CHECK_DEADLOCK FALSE
INVARIANT PassedIsShown
INVARIANT RefutedIsFailed
INVARIANT RiskIsVisible
INVARIANT DependenciesHold
