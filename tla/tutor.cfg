\* One tab with both buttons, a conversation of two turns, a selection or a
\* clearing, and a failed write or a restart.
SPECIFICATION Spec
CONSTANTS
    Problems = {p1, p2}
    Tabs = {t1}
    Limit = 4
    MaxTurns = 3
    MaxMoves = 1
    MaxFaults = 1
INVARIANTS
    TypeOK
    CountedUnlessFailed
    PatientPageIsTrue
    QuestionNotLost
PROPERTIES
    ImplementsConversation
    EveryRequestEnds
CHECK_DEADLOCK FALSE
