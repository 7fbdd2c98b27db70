SPECIFICATION FairSpec
CONSTANTS
  Callers = {c1}
  NoCaller = NoCaller
  Stopper = Stopper
  MaxRestarts = 1
  PipeSize = 1
  MaxCalls = 2
CHECK_DEADLOCK FALSE
PROPERTY AnswersAreTaken
