CONSTANTS
  Isn <- MCIsn
  SeqMod = 16
  RecvSize = 2
  SendSize = 4
  Mss = 1
  MaxRetries = 1
  MaxBytes <- MCBytes
SPECIFICATION FairSpec
INVARIANTS TypeOK StreamIntact BufferExact
 
CHECK_DEADLOCK FALSE
