SPECIFICATION Spec
CONSTANTS
  Sizes <- Boundaries
  MaxFiles = 3
  ManifestSizes <- Manifests
  FilesShrink = TRUE
  ChunkSize <- TheChunkSize
  RecordOverhead = 40
  MaxManifestBytes <- TheMaxManifestBytes
  FooterLength = 64
  CoalesceBytes <- TheCoalesceBytes
  SmallBundleBytes <- TheSmallBundleBytes
  MinPartBytes <- TheMinPartBytes
  MaxEncryptedUploadBytes <- TheUploadLimit
  multipartUploadPartSize <- ThePartSize
  maxMultipartUploadPart <- TheMaxPart
  s3MinimumPartSize <- TheMinPartBytes
  maxMultipartPartNumber = 10000
  maxFileSize <- TheUploadLimit
  maxRangeBytes <- TheMaxRange
CHECK_DEADLOCK FALSE
INVARIANTS PartsAreAccepted EstimateIsEnough ReadsBack
