SPECIFICATION FairSpec
CONSTANTS
  alice = alice
  bob = bob
  Address = {alice, bob}
  Tx <- Transfers
  NoTx = NoTx
  NoAddr = NoAddr
  NoAccount = NoAccount
  NoHash = NoHash
  NoBlock = NoBlock
  InitAccounts <- SomeAccounts
  IntrinsicGas = 2
  Word = 16
  ExpireSec = 1
  MinNonces = {0}
  MaxClock = 1
  MaxBoxes = 3
  MaxBlocks = 2
INVARIANTS NonceCountsPacked SupplyConserved PackedInSequence
PROPERTIES PackReturns PoolSpec
