SPECIFICATION Spec
CONSTANTS
  Radix = 4  BlockSize = 3  Iv <- MCIv
  Xor <- MCXor  EncryptBlock <- MCEncryptBlock  DecryptBlock <- MCDecryptBlock
  ChunkSize = 2  TagSize = 2  HeaderSize = 2  MaxHeader = 3  NonceSize = 1
  MaxChunkIndex = 2  CommitSize = 2
  UnitSize = 3  LengthField = 2
  Prologue = 4  BufferStripes = 2  StripesPerBlock = 2  ShortInput = 5  FanOut = 2  OctetBits = 4
  Jobs <- MCJobs  ReadBack <- Decode
CHECK_DEADLOCK FALSE
INVARIANTS TypeOK CutsAreInvisible ComesBack PlaintextIsChecked
  WordsAreReadTruly SharesAreJudged ChainsAreJudged DrawsAreFair
  SettingsCanRun HiddenFieldsAreIgnored FixesHold
