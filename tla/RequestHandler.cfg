CONSTANTS
  Contents <- TextContents
  Sha1Digest <- MCSha1
  Sha256Digest <- MCSha256
  NoKey = NoKey
  Threads = {t1, t2}
  BlobRef <- MCBlobRef
  Uploads <- MCUploads
  Asked <- MCAsked
  Batches <- MCBatches
  BlobName <- MCBlobName
  Names <- MCNames
  Unreadable <- MCUnreadable
  OtherRequests <- MCOtherRequests
  StaticFiles <- MCStaticFiles
  Limit = 2
SPECIFICATION Spec
SYMMETRY Symmetry
INVARIANTS
  UploadsStored
  StatAnswersAsked
  FoundAsStored
  StatusFits
