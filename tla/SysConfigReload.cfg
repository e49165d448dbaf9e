SPECIFICATION FairSpec
CONSTANTS
  Keys <- MCKeys
  KeyType <- MCKeyType
  Fallback <- MCFallback
  Default <- MCDefault
  Files <- MCFiles
  Cuts <- MCCuts
  Absent = Absent
  MaxEdits = 3
PROPERTIES
  WritesTakeEffect
  SettingsSurviveEdits
CHECK_DEADLOCK FALSE
