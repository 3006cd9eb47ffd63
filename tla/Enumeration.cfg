CONSTANTS
  Contents <- MCContents
  Sha1Digest <- MCSha1
  Sha256Digest <- MCSha256
  NoKey = NoKey
  Limit = 2
  Batch = 3
SPECIFICATION FairSpec
INVARIANTS
  TypeOK
  NothingSkipped
  SortedListing
PROPERTY
  Terminates
CHECK_DEADLOCK FALSE
