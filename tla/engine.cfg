SPECIFICATION EngineSpec
CONSTANTS
  Off = Off
  None = None
  PoolWorkers = {w1, w2}
  PoolCallers = {c1, c2}
  Caps = {"SignCMS", "SignXML", "SignHash", "VerifyCMS"}
  PoolCalls = {"SignCMS", "VerifyCMS", "Hash"}
  TSAUrls = {u1}
  NoUrl = NoUrl
  NoCall = NoCall
  Events = {e1, e2}
  Genesis = Genesis
  Garbage = Garbage
  MaxLines = 4
  MaxCrashes = 2
  CRLThreads = {c1, c2}
  MaxIssue = 2
  ByteCaps = {2, 3}
  MaxWarm = 1
  NoCRL = NoCRL
  Anchors = {a1, a2}
  Fetchers = {r1, r2}
  MaxOutages = 3
  NotGiven = NotGiven
  Watched = {f1, f2}
  MaxMoves = 2
  NoStamp = NoStamp
  MaxEmbeds = 2
  Unset = Unset
  MaxRounds = 2
  NoKey = NoKey
  MaxStatements = 2
  MaxBoots = 3
  LastTick = 4
  DurationBits = 4
  MaxOpens = 2
  MaxPool = 2
  MaxCap = 16
  MaxSigners = 2
  OutputSizes = {1, 2, 3, 4, 5, 8, 9, 16, 17}
  Optional = {"SignHash", "SignWSSE", "GetTimeFromSig"}
  NoOutput = NoOutput
SYMMETRY Perms
INVARIANTS
  PoolIsSound
  JournalIsSound
  CRLCacheIsSound
  SignIsClean
  RaisedUntilTaken
  
  ContainerIsSound
  ConfigIsHonoured
  StatementsHold
  BindingIsSound
PROPERTIES
  IssuersAreKept
CHECK_DEADLOCK FALSE
