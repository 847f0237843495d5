\* A session from both ends, its journal, and what is made of its bytes and frames; one exchange of the proxy.
SPECIFICATION EitherSpec
CONSTANTS
  MaxMessages = 2
  PipeCap = 1
  MaxEntries = 4
  MaxLearned = 1
  MaxFailures = 1
  VolumeCapacity = 1
  BatchMax = 2
  LF = LF
  CR = CR
  Other = Other
  MaxFrameBytes = 2
  CompactThreshold = 2
  MaxRead = 5
  MaxStream = 7
  Frames <- ManyFrames
  Windows = {2, 3, 4, 5, 6, 7, 8, 9, 10, 11, 12, 13}
  Names = {"n", "o"}
  Bodies <- ManyBodies
  MaxHeld = 8
  repo = repo
  link = link
  away = away
  home = home
  Roots = {repo, link, away}
  Paths = {home}
  PathOf <- OnePath
  Nowhere = Nowhere
  NoHello = NoHello
  Servers = {s}
  Ids = {1, 2, 3}
  MaxFrames = 7
INVARIANTS
  UpwardIsFaithful
  DownwardIsFaithful
  DenialsAreTold
  EntriesAreAccounted
  CutIsOfTheStream
  ResidualIsBounded
  MethodIsOfTheFrame
  HeardIsSaid
  SessionNamesItsServer
PROPERTIES
  NoOrphan
  CloseIsSeen
  ShimEnds
  EntriesAreWritten
\* The session and the exchange end, and a stream is bounded.
CHECK_DEADLOCK FALSE
