SPECIFICATION Spec
CONSTANTS
  Keys <- MCKeys
  KeyType <- MCKeyType
  Fallback <- MCFallback
  Default <- MCDefault
  Files <- MCFiles
  Cuts <- MCCuts
  Absent = Absent
  MaxEdits = 1
INVARIANTS
  IntsAreHonoured
CHECK_DEADLOCK FALSE
