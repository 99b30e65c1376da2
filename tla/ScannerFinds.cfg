SPECIFICATION Spec
CONSTANTS
  Order <- ThreeFRs
  Catalogues <- FindsCatalogues
  Kinds <- TwoKinds
  Rules <- TwoRules
  Starts <- PrefixOf
  TestIds <- TwoIds
  NoId = NoId
  Patterns <- OnePattern
  Outcomes <- CaseResults
  Acceptable <- SomeKeys
  Waivable <- Two
CHECK_DEADLOCK FALSE
INVARIANT PassedFindsAreFound
