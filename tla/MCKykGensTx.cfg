SPECIFICATION AllSpec
CONSTANTS
  Base = 8
  HashSize = 2
  PushEnd = 3
  Opcodes = {0, 1, 3, 4, 5, 6, 7}
  SigBufSize = 12
  StackSize = 5
  Unset = Unset
  TxSet <- MCTxSet
  Alphabet = 6
  KeySize = 2
  PkhSize = 2
  CheckSize = 1
  Public <- MCPublic
  Sha256 <- MCSha256
  Ripemd160 <- MCRipemd160
  OpDup = 4
  OpHash160 = 5
  OpEqualVerify = 6
  OpCheckSig = 7
  PemKeys = {1, 7, 8, 29, 63}
  Typed <- MCTyped
  CbPrefix <- MCCbPrefix
  Note <- MCNote
  GensValue = 99
  Hex = 3
  Tx0Texts <- MCTx0Texts
  Tx0Value = 50
INVARIANTS TypeOK ReadsBack TakenAddressPays PaysOwner
