SPECIFICATION Spec
CONSTANTS
  Configs <- MCConfigs
  MaxAddrs = 2
  MaxNotices = 1
INVARIANTS
  TypeOK
  ConnectedAsAsked
  FailsOnlyAfterAll
  TriedInOrder
  SettingsWhole
