\* Expected to fail: a source between the two limits.
SPECIFICATION JudgeSpec
CONSTANTS
  NumCases = 2
  MaxFaults = 0
INVARIANT SourceUpToOneMebibyteIsJudged
CHECK_DEADLOCK FALSE
