SPECIFICATION Spec
CONSTANTS
  a1 = a1
  a2 = a2
  Address = {a1, a2}
  Nonces = {1, 2, 3}
  Prices = {1, 2}
  OtherNonces = {1}
  Tx <- SomeTx
  NoTx = NoTx
  NoAddr = NoAddr
  ExpireSec = 0
  Word = 16
  InitNonces = {0}
  MinNonces = {0, 2}
  MaxClock = 1
  MaxBoxes = 3
INVARIANTS PendingConsecutive AccountBehindPending NoReadyTxQueued PoolInv
PROPERTIES QueuedNeverLost PendingNeverLost
