\* Deadlock is checked: the governor of the moment can always act.
SPECIFICATION Spec
CONSTANTS
  DefaultPubkey = DefaultPubkey
  p1 = p1
  g1 = g1
  g2 = g2
  usdc = usdc
  Pubkeys <- MCPubkeys
  Programs <- MCPrograms
  Mints <- MCMints
  Versions <- MCVersions
  ProtocolNames <- MCProtocolNames
  MetadataUris <- MCMetadataUris
  MaxCount = 2
  MaxSlot = 2
INVARIANTS
  TypeOK
  CountMatchesEntries
  EntriesWellFormed
  ReplayMatchesChain
PROPERTIES
  ImplementsAllowlist
