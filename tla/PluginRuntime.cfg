SPECIFICATION FairSpec
CONSTANTS
  Callers = {c1, c2}
  NoCaller = NoCaller
  Stopper = Stopper
  MaxRestarts = 1
  PipeSize = 2
  MaxCalls = 5
CHECK_DEADLOCK FALSE
INVARIANT AnswersAreOwn
INVARIANT HelperIsKnown
PROPERTY CallsEnd
