\* Two tabs, each used one call at a time; pages are reloaded, calls fail.
SPECIFICATION Spec
CONSTANTS
  left = left
  right = right
  Problems <- TwoProblems
  Texts <- OneText
  Tabs <- TwoTabs
  Patient = TRUE
  MaxWrites = 2
  MaxFaults = 1
INVARIANTS TypeOK NeverMisplaced NeverOverwritten QuietTabKnowsItsDraft
SYMMETRY Symmetry
CHECK_DEADLOCK FALSE
