SPECIFICATION FairSpec
CONSTANTS
  Pipelines = {p1, p2}
  NoPipeline = NoPipeline
  Control = Control
  Chunks = 2
  PipeSize = 1
INVARIANT TypeOK
INVARIANT OneVoice
INVARIANT IdleHasNoChildren
INVARIANT SignalsFollowThePause
PROPERTY KeepsThePromise
PROPERTY ExitIsNoticed
PROPERTY CallsReturn
