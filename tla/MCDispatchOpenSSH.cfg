CONSTANTS
  Byte <- MCByte
  Prefix = 2
  Modulus = 64
  Number <- MCNumber
  MaxKeys = 3
  KeyKind <- MCKeyKind
  NistCurve <- MCNistCurve
  P256 <- MCP256
  NoCipher <- MCNoCipher
  Magic <- MCMagic
  CipherName <- MCCipherName
  Pbes2 <- MCPbes2
  Files <- MCFiles
SPECIFICATION Spec
INVARIANTS
  NamedCipherShown
