CONSTANTS
  Contents <- BinaryContents
  Sha1Digest <- MCSha1
  Sha256Digest <- MCSha256
  NoKey = NoKey
  Threads = {t1}
  BlobRef <- MCBlobRef
  Uploads <- MCUploads
  Asked = {}
  Batches = {}
  BlobName <- MCBlobName
  Names <- MCNames
  Unreadable = {}
  OtherRequests <- MCOtherRequests
  StaticFiles <- MCStaticFiles
  Limit = 2
SPECIFICATION Spec
INVARIANTS
  UploadsStored
