CONSTANTS
  Contents <- MCContents
  Sha1Digest <- MCSha1
  Sha256Digest <- MCSha256
  NoKey = NoKey
  Peers <- TwoPeers
  Mode <- MCMode
  Delay = 2
  Limit = 1
  Batch = 2
  NotFoundPage <- MCNotFoundPage
  MaxFaults = 2
SPECIFICATION FairSpec
INVARIANTS
  OnlyUploads
PROPERTIES
  RoundsApart
  Converges
  StopReturns
CHECK_DEADLOCK FALSE
