SPECIFICATION ServicesSpec
CONSTANTS
  Off = Off
  Threads = {t1, t2}
  MaxTime = 2
  TTL = 1
  Durable = TRUE
  Challenges = {ch1, ch2}
  Codes = {k1}
  Clients = {web, app}
  PublicClients = {app}
  RequireOCSP = TRUE
  Sessions = {s1}
  MaxRestarts = 1
  NoChal = NoChal
  NoCode = NoCode
  NoSess = NoSess
  Certs = {"ann", "bob", "bob2", "eve"}
  Holder <- MCHolder
  MaxSigners = 3
  RoundRules <- MCRules
  Seeds <- MCSeeds
  NoRound = NoRound
  Checkers = {t1, t2}
  Subjects = {x1, x2}
  MaxEntries = 1
  GoodTTL = 1
  RevokedTTL = 2
  CallTime = 1
  MaxClock = 3
  MaxStored = 2
  NoSubject = NoSubject
  Instants = {1, 2}
  NoTime = NoTime
  Names = {"A", "B"}
  Keys = {"k", "m"}
  LeafName = "L"
  NoCert = NoCert
  MaxChainDepth = 3
  MaxTrusted = 2
  MaxListed = 3
  MaxItems = 3
  NoAsk = NoAsk
  MaxTries = 2
  NoJobCall = NoJobCall
SYMMETRY Perms
INVARIANTS
  SingleUse
  TokensAreBound
  RoundIsSound
  VerdictIsEarned
  ChainIsSound
  ServedAsAsked
  RetriesAreSafe
PROPERTIES
  VerifiedStands
  SerialRoundsKeep
  StatusIsEarned
CHECK_DEADLOCK FALSE
