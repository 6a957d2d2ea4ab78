SPECIFICATION Spec
CONSTANTS
  Documents <- MCDocs
  Numerals <- MCNumerals
  Groups <- MCGroups
  ExitKeys = {"exit_code"}
  ExitWords = {}
  RepoAt <- MCRepoAt
  Normal <- MCNormal
  DefaultKeys <- MCDefaultKeys
  DefaultPatterns <- MCDefaultPatterns
  Finds <- MCFinds
  Spoils <- MCSpoils
  Lower <- MCLower
  Trim <- MCTrim
  Custom <- MCCustom
  Secrets <- MCSecrets
  Fields = {"token", "Pin-Code"}
  MaxEvents = 1
\* A refused manifest and a printed report end the story.
CHECK_DEADLOCK FALSE
INVARIANT ReadsLikeYaml
INVARIANT OwnDocumentsValidate
INVARIANT CwdsStillAgree
INVARIANT TraceIsMasked
INVARIANT PreflightIsForetold
INVARIANT ViolationSurvives
