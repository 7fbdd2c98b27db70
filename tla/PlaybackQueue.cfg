SPECIFICATION Spec
CONSTANTS
  MaxTrackId = 2
  Media <- MCMedia
  RemoteMedia <- MCRemote
  Governed <- MCGoverned
  Duration <- MCUntimed
  Libraries <- Moving
  SongLists <- OneList
  Commands = {"start", "startInContext", "step", "clear", "shuffle", "repeat", "cycleRepeat", "menuMode", "rescan"}
  AcceptRemaining = 1
  ConfirmAfter = 2
  PendingStep = 1
  ElapsedCap = 0
  MaxDelta = 1
  ClientLookups = 9
  MaxLookups = 2
INVARIANT TypeOK
INVARIANT QueueWellFormed
PROPERTY AnswersFitTheLibrary
