SPECIFICATION Spec
CONSTANTS
  DefaultPubkey = DefaultPubkey
  Template = Template
  governor = governor
  other = other
  m1 = m1
  m2 = m2
  u1 = u1
  u2 = u2
  t1 = t1
  t2 = t2
  Pubkeys <- MCPubkeys
  Programs <- MCPrograms
  Mints <- MCMints
  Versions <- MCVersions
  ProtocolNames <- MCTexts
  MetadataUris <- MCTexts
  Users <- MCUsers
  Txs <- MCTxs
  MaxCount = 1
  MaxSlot = 0
  MaxU64 = 2
  MaxIx = 2
SYMMETRY Symmetric
VIEW View
CONSTRAINT TwoPositions
INVARIANTS
  TypeOK
  CallsApprovedAdapter
  BooksBalance
  QuoteIsTheAdapters
  NoLostUpdate
PROPERTIES
  RoutedMovesAreApproved
