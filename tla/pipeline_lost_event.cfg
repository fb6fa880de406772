\* A sample run and a full submission overlap: an execution is never counted.
SPECIFICATION Spec
CONSTANTS
  Problems <- OneProblem
  Verdicts <- Accepted
  Handlers <- SubmitHandlers
  Overlap = TRUE
  MaxExecutions = 2
  MaxHints = 0
  MaxFaults = 0
INVARIANT ReflectedOnce
CHECK_DEADLOCK FALSE
