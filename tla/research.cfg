\* Three searches: enough to overrun a quota, to resume an evaluation, and to
\* use a consent that an error left on.
SPECIFICATION Spec
CONSTANTS
  Problems = {p1, p2}
  NumCases = 2
  Quota = 3
  Batch = 1
  MaxSize = 2
  OldSizes <- EmptyOrFull
  MaxSearches = 3
  MaxMoves = 3
  MaxFaults = 1
SYMMETRY ProblemSymmetry
INVARIANTS
  TypeOK
  ConsentIsSpentOnce
  PaidAnswersAreKept
  QuotaIsKept
CHECK_DEADLOCK FALSE
