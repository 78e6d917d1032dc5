SPECIFICATION StorageSpec
CONSTANTS
  u1 = u1
  u2 = u2
  u3 = u3
  k1 = k1
  k2 = k2
  Uploads <- TheUploads
  Keys <- TheKeys
  Providers = {"local", "s3"}
  MaxChunks = 2
  NoUpload = NoUpload
SYMMETRY Interchangeable
INVARIANTS
  StorageInv
  PartialIsUnanswered
PROPERTIES
  ImplementsStore
CHECK_DEADLOCK FALSE
