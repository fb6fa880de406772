\* Two problems and three actions.
SPECIFICATION FairSpec
CONSTANTS
  Problems = {p1, p2}
  MaxActions = 3
INVARIANTS
  TypeOK
  PanelIsOfSelected
  QuizIsOfItsCode
PROPERTIES
  FirstAcceptanceIsFollowedUp
  NearerToRest
CHECK_DEADLOCK FALSE
