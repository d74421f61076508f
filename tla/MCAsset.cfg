SPECIFICATION AssetsSpec
CONSTANTS
  Readers = {r1, r2}
  Keys = {"k1", "k2"}
  L1_CACHE_SIZE = 3
  CIPHERTEXT_MIN_LEN = 2
  WORD = 1
  AssetSizes = {0, 3, 4}
  MaxChunks = 2
  MaxReads = 3
  MaxKeyChanges = 3
INVARIANT EncryptedAssetsRead
CHECK_DEADLOCK FALSE
