CONSTANTS
  Files <- MCFiles
  Ciphers = {"aes"}
  Algorithms <- MCAlgorithms
  Blob <- MCBlob
  MaxCount = 4
  MaxLines = 4
SPECIFICATION Spec
INVARIANTS
  TypeOK
  HonestExact
  ProtectionSound
