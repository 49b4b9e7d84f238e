SPECIFICATION Spec
CONSTANTS
  Letters = {"a", "b"}
  Digits = {"1"}
  EcmaGlobals = {"globalThis"}
  Invalid = {"1x"}
  Names <- MCNames
  PathNames <- MCPathNames
  MaxPathLength = 3
  OtherEnvironments <- MCOtherEnvironments
  MaxEnvironmentCalls = 2
  CatalogsOf <- MCCatalogsOf
  Selectors <- MCSelectors
  FurtherSelectors <- MCFurtherSelectors
  MaxOverrides = 2
  MaxEdits = 1
  RuleIds <- MCRuleIds
  Sources <- MCSources
  MaxFiles = 2
  Links <- MCLinks
  HitSets <- MCHitSets
  Evidences <- MCEvidences
  OtherReports <- MCOtherReports
INVARIANTS
  PathMatchIsSound
  SelectorIsGlob
  LinterIsAskedFor
  FindingsCoverEvidence
  CompletionIsHonest
  CombineIsOrderFree
  SuccessIsEarned
CHECK_DEADLOCK FALSE
