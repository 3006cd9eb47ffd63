CONSTANTS
  Contents <- TextContents
  Sha1Digest <- MCSha1
  Sha256Digest <- MCSha256
  Threads = {t1, t2}
  Unlocked = Unlocked
  NoFile = NoFile
  NoBlob = NoBlob
  NoKey = NoKey
  MaxBlobs = 2
  PageCount = 2
  Faults = {}
SPECIFICATION Spec
INVARIANT
  ListedBlobsHaveSize
CHECK_DEADLOCK FALSE
