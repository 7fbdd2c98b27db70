SPECIFICATION Spec
CONSTANTS
  MaxTrackId = 3
  Media <- MCMedia
  RemoteMedia <- MCRemote
  Governed <- MCGoverned
  Duration <- MCDuration
  Libraries <- OneLibrary
  SongLists <- ShortList
  Commands = {"start", "step", "pause", "resume", "toggle", "stop", "seek", "play", "startRemote", "startActive", "startStream", "jump", "browse"}
  AcceptRemaining = 0
  ConfirmAfter = 2
  PendingStep = 1
  ElapsedCap = 2
  MaxDelta = 1
  ClientLookups = 9
  MaxLookups = 2
INVARIANT SessionMatchesAudio
INVARIANT HeardIsCurrent
INVARIANT LyricsAreCurrent
PROPERTY EarlyFinishNeverAdvances
PROPERTY AdvanceMovesOn
