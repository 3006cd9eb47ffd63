CONSTANTS
  Contents <- AnyContents
  Sha1Digest <- MCSha1
  Sha256Digest <- MCSha256
  Threads = {t1, t2}
  Unlocked = Unlocked
  NoFile = NoFile
  NoBlob = NoBlob
  NoKey = NoKey
  MaxBlobs = 3
  PageCount = 3
  Faults = {}
SPECIFICATION Spec
SYMMETRY Symmetry
INVARIANTS
  FoundBlobReadable
  AckedRetrievable
PROPERTIES
  ImplementsStore
CHECK_DEADLOCK FALSE
