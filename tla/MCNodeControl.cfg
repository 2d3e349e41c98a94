SPECIFICATION Spec
CONSTANTS
  s1 = s1
  s2 = s2
  None = None
  Shells = {s1, s2}
  Plans <- MCPlans
  R = 2
  Published = 2
  Heights <- MCHeights
  MaxHeight = 4
  MaxNodes = 3
  MaxFaults = 1
INVARIANTS TypeOK LockNamesNode FilesAreWhole

CHECK_DEADLOCK FALSE
PROPERTIES CommandsEnd
