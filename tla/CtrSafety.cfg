CONSTANTS
  BlockLen = 3
  Base = 2
  Nonce <- MCNonce
  MangleNonce <- MCMangleNonce
  MaxBytes = 14
SPECIFICATION Spec
INVARIANTS
  TypeOK
  BytesInOrder
  KeystreamByPosition
