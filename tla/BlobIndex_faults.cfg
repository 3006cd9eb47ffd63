CONSTANTS
  Contents <- NulContents
  Sha1Digest <- MCSha1
  Sha256Digest <- MCSha256
  Threads = {t1, t2}
  Unlocked = Unlocked
  NoFile = NoFile
  NoBlob = NoBlob
  NoKey = NoKey
  MaxBlobs = 3
  PageCount = 2
  Faults = {"crash", "io"}
SPECIFICATION FairSpec
INVARIANTS
  TypeOK
  SiblingsAgree
  HeldBlobsLive
PROPERTIES
  FilesOnlyGrow
  MutexReleased
CHECK_DEADLOCK FALSE
