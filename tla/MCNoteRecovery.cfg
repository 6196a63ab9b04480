SPECIFICATION NoteRecoverySpec
CONSTANTS
  None = None
  Wallets = {w1, w2}
  w1 = w1
  w2 = w2
  Scanners = {w1}
  D <- Mainnet
  Elsewhere <- Testnet
  SdkRuntimeId = "nullark-v1.2-fee-governance"
  WebRuntimeId = "nullark-v1.2-mainnet"
  ChunkSize = 1
  MaxLogs = 2
INVARIANTS NotesFound SpentMarksTrue KitsImportFaithfully
CHECK_DEADLOCK FALSE
