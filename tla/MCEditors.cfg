SPECIFICATION EditorsSpec
CONSTANTS
  Accounts = {a}
  MaxTexts = 4
  MaxPending = 2
  Uids = {1, 2, 3}
  MaxFields = 4
  MaxCalls = 2
  Pages <- ThreePages
  NoPattern = NoPattern
  NoTab = NoTab
  StyledTabs = {"mail", "tasks"}
  StyleKeys = {1, 2}
  PresetLimit = 2
  MaxPresetIds = 4
  SettingKeys = {"language", "theme"}
  MaxEdits = 3
  MaxRevisions = 3
  MaxReads = 2
  IdAccounts = {"a"}
  Signatures = {"S", "T"}
  MaxIdentities = 2
  MaxBody = 4
INVARIANTS TypedKept NothingTwice TabsKept 
PROPERTIES SettingsKept
CHECK_DEADLOCK FALSE
