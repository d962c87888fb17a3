SPECIFICATION Spec
CONSTANTS
  LEVELS = 3
  EntryCount = 4
  Requests <- MCRequests
  MaxMaps = 2
INVARIANTS TranslationMatches SplitHasSameEffect
CHECK_DEADLOCK FALSE
