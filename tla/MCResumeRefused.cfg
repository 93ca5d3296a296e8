SPECIFICATION BindingsSpec
CONSTANTS
  RuleTexts = {"rules"}
  SkillCatalogs <- OneCatalog
  ContractTexts = {{}}
  ResumeRuns = {"fresh"}
  MaxSelected = 2
  SessionAttempts = 2
  MaxRoots = 1
INVARIANTS
  ResumedIsSameTask
CHECK_DEADLOCK FALSE
