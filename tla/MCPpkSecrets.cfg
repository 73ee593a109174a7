CONSTANTS
  Files <- MCFiles
  Ciphers = {"aes"}
  Algorithms <- MCAlgorithms
  Blob <- MCBlob
  MaxCount = 4
  MaxLines = 3
SPECIFICATION Spec
INVARIANTS
  SecretsNeverRead
