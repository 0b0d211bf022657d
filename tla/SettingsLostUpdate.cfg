\* Two savers that overlap: the second resets a field only the first one set.
SPECIFICATION Spec
CONSTANTS
  Coders = {"qwen", "kimi"}
  MaxChecks = 1
  Handlers = {h1, h2}
  Selections <- MCSelections
  Versions = {1, 2}
  ThreadsFail = TRUE
  Cooldown = 2
  StaleAfter = 4
  WindowNames = {"hours", "week"}
  Savers = {s1, s2}
  Fields = {"budget", "model"}
  ModelField = "model"
  Legal <- MCLegal
  Default <- MCDefault
  Overrides <- MCOverrides
  Configs <- MCConfigs
  MaxEdits = 2
  Openers = {o1, o2, o3}
CHECK_DEADLOCK FALSE
PROPERTIES
  OnlyExplicitFieldsChange
