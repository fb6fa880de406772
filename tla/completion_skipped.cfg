\* A learner who goes on to the next problem while a quiz is generated.
SPECIFICATION FairSpec
CONSTANTS
  Problems = {p1, p2}
  MaxActions = 3
PROPERTY FirstAcceptanceIsNeverForgotten
CHECK_DEADLOCK FALSE
