\* Two accounts, up to three notes, five clicks: enough for an unlock, a deposit
\* and a split exit, or for a change of account between two of them.
CONSTANTS
  w1 = w1
  w2 = w2
  None = None
  Wallets = {w1, w2}
  Amounts = {1, 2}
  RootWindow = 2
  MaxNotes = 3
  MaxReloads = 1
  Polls = 2
  ProofAttempts = 2
  UnlockIds = {1}
  Modes <- MCModes
SPECIFICATION FairSpec
INVARIANT NotesGoToTheirWallet
INVARIANT SessionIsolated
INVARIANT MarksAreTrue
 
CHECK_DEADLOCK FALSE
